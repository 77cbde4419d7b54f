-------------------------- MODULE MemProfileProofs --------------------------
(***************************************************************************)
(* Proofs about MemProfile, for any number of levels and of runs.          *)
(***************************************************************************)
EXTENDS MemProfile, TLAPS

Windows == {"none", "empty", "sampled"}
Rows == [mem : Windows, errors : BOOLEAN, up : BOOLEAN]
Reports == [cold : Windows, baseline : Windows, sweep : Seq(Rows), died : Nat,
            soak : Windows, cooldown : Windows]

\* What both arguments need of the types.
TypeOK ==
    /\ options \in Options
    /\ window \in Windows
    /\ report \in Reports

Early == {"preflight", "build", "start", "ready", "sample", "cold", "warmup", "baseline"}

LEMMA TypeInvariant == Spec => []TypeOK
<1>1. Init => TypeOK
  BY DEF Init, TypeOK, Blank, Reports, Windows
<1>2. TypeOK /\ [Next]_vars => TypeOK'
  <2> SUFFICES ASSUME TypeOK, [Next]_vars PROVE TypeOK'
    OBVIOUS
  <2> USE DEF TypeOK, course, machine, Windows
  <2>1. CASE ColdEnds \/ BaselineEnds \/ SoakEnds \/ CooldownEnds
    BY <2>1 DEF ColdEnds, BaselineEnds, SoakEnds, CooldownEnds, EndOf, Reports
  <2>2. CASE LevelEnds
    <3>1. PICK errors \in BOOLEAN :
             report' = [report EXCEPT !.sweep =
                 Append(@, [mem |-> window, errors |-> errors, up |-> container = "running"])]
      BY <2>2 DEF LevelEnds, LoadFails
    <3>2. [mem |-> window, errors |-> errors, up |-> container = "running"] \in Rows
      BY DEF Rows, Windows
    <3>3. report.sweep \in Seq(Rows)
      BY DEF Reports
    <3>4. Append(report.sweep, [mem |-> window, errors |-> errors, up |-> container = "running"])
            \in Seq(Rows)
      BY <3>2, <3>3
    <3> QED
      BY <2>2, <3>1, <3>4 DEF LevelEnds, EndOf, Reports
  <2>3. CASE CheckContainer
    BY <2>3 DEF CheckContainer, Reports
  <2>4. CASE RunAgain
    BY <2>4 DEF RunAgain, Begin, Blank, Reports
  <2>5. CASE Preflight \/ Build \/ StartContainer \/ WaitReady \/ StartSampler
               \/ BeginPhase \/ WarmupEnds
    BY <2>5 DEF Preflight, Build, StartContainer, WaitReady, StartSampler, BeginPhase,
                WarmupEnds, EndOf
  <2>6. CASE StopSampler \/ WriteReport \/ Cleanup \/ PrintReport \/ RemoveContainer
               \/ ContainerDies \/ SamplerDies \/ Interrupt \/ Killed
    BY <2>6 DEF StopSampler, WriteReport, Cleanup, PrintReport, RemoveContainer,
                ContainerDies, SamplerDies, Interrupt, Killed
  <2>7. CASE UNCHANGED vars
    BY <2>7 DEF vars
  <2> QED
    BY <2>1, <2>2, <2>3, <2>4, <2>5, <2>6, <2>7 DEF Next
<1> QED
  BY <1>1, <1>2, PTL DEF Spec

-----------------------------------------------------------------------------
(* The sweep.  What the property says of a finished sweep holds because of   *)
(* where main() is while it grows: before a level every row so far is of a   *)
(* container that is up, and only the check that follows can end that.       *)

AllUp(rows) == \A i \in 1 .. Len(rows) : rows[i].up
Unmeasured == report.died = 0 /\ report.soak = "none" /\ report.cooldown = "none"

SweepInv ==
    /\ SweepIsOfOneLife
    /\ pc \in Early => report.sweep = <<>> /\ Unmeasured
    /\ pc = "level" => Len(report.sweep) < Levels /\ AllUp(report.sweep) /\ Unmeasured
    /\ pc = "check" => Len(report.sweep) \in 1 .. Levels /\ Unmeasured
                     /\ (container = "running" => AllUp(report.sweep))
    /\ pc \in {"soak", "cooldown"} => AllUp(report.sweep)

LEMMA SweepStep ==
  ASSUME TypeOK, TypeOK', SweepInv, [Next]_vars
  PROVE  SweepInv'
<1> USE LevelsAssumption DEF SweepInv, SweepIsOfOneLife, Early, Unmeasured, AllUp
<1>t. report.sweep \in Seq(Rows) /\ Len(report.sweep) \in Nat
  BY DEF TypeOK, Reports
<1>1. CASE Preflight \/ Build \/ StartContainer \/ WaitReady \/ StartSampler
             \/ BeginPhase \/ WarmupEnds
  BY <1>1 DEF Preflight, Build, StartContainer, WaitReady, StartSampler, BeginPhase,
              WarmupEnds, EndOf, Fail, machine, course
<1>2. CASE ColdEnds \/ BaselineEnds
  <2>1. report'.sweep = report.sweep /\ report'.died = report.died
          /\ report'.soak = report.soak /\ report'.cooldown = report.cooldown
    BY <1>2 DEF ColdEnds, BaselineEnds, TypeOK, Reports
  <2> QED
    BY <1>2, <2>1 DEF ColdEnds, BaselineEnds, EndOf
<1>3. CASE LevelEnds
  <2>1. PICK row \in Rows : /\ report' = [report EXCEPT !.sweep = Append(@, row)]
                            /\ row.up = (container = "running")
    <3>1. PICK errors \in BOOLEAN :
             report' = [report EXCEPT !.sweep =
                 Append(@, [mem |-> window, errors |-> errors, up |-> container = "running"])]
      BY <1>3 DEF LevelEnds, LoadFails
    <3>2. [mem |-> window, errors |-> errors, up |-> container = "running"] \in Rows
      BY DEF TypeOK, Rows
    <3> QED
      BY <3>1, <3>2
  <2>2. /\ report'.sweep = Append(report.sweep, row) /\ report'.died = report.died
        /\ report'.soak = report.soak /\ report'.cooldown = report.cooldown
    BY <2>1 DEF TypeOK, Reports
  <2>3. /\ Len(report'.sweep) = Len(report.sweep) + 1
        /\ report'.sweep[Len(report.sweep) + 1] = row
        /\ \A i \in 1 .. Len(report.sweep) : report'.sweep[i] = report.sweep[i]
    BY <2>2, <1>t
  <2>4. /\ \A i \in 1 .. Len(report'.sweep) - 1 : report'.sweep[i].up
        /\ container = "running" => \A i \in 1 .. Len(report'.sweep) : report'.sweep[i].up
    <3>1. \A i \in 1 .. Len(report.sweep) : report'.sweep[i].up
      <4>1. AllUp(report.sweep)
        BY <1>3 DEF LevelEnds, EndOf
      <4>2. TAKE i \in 1 .. Len(report.sweep)
      <4>3. report.sweep[i].up
        BY <4>1
      <4> QED
        BY <2>3, <4>3
    <3>2. container = "running" => report'.sweep[Len(report.sweep) + 1].up
      BY <2>1, <2>3
    <3>3. /\ Len(report'.sweep) - 1 = Len(report.sweep)
          /\ \A i \in 1 .. Len(report'.sweep) :
                i \in 1 .. Len(report.sweep) \/ i = Len(report.sweep) + 1
      BY <1>t, <2>3
    <3> QED
      BY <3>1, <3>2, <3>3
  <2>5. pc = "level" /\ pc' = "check" /\ container' = container
    BY <1>3 DEF LevelEnds, EndOf, machine
  <2> QED
    BY <1>t, <2>2, <2>3, <2>4, <2>5
<1>4. CASE CheckContainer
  <2>1. CASE container # "running"
    <3>1. /\ report'.sweep = report.sweep /\ report'.died = Len(report.sweep)
          /\ report'.soak = report.soak /\ report'.cooldown = report.cooldown
      BY <1>4, <2>1 DEF CheckContainer, TypeOK, Reports
    <3> QED
      BY <1>4, <1>t, <2>1, <3>1 DEF CheckContainer
  <2>2. CASE container = "running"
    BY <1>4, <1>t, <2>2 DEF CheckContainer, AfterSweep
  <2> QED
    BY <2>1, <2>2
<1>5. CASE SoakEnds \/ CooldownEnds
  <2>1. report'.sweep = report.sweep /\ report'.died = report.died
    BY <1>5 DEF SoakEnds, CooldownEnds, TypeOK, Reports
  <2> QED
    BY <1>5, <1>t, <2>1 DEF SoakEnds, CooldownEnds, EndOf
<1>6. CASE StopSampler \/ WriteReport \/ Cleanup \/ PrintReport \/ RemoveContainer
  BY <1>6 DEF StopSampler, WriteReport, Cleanup, PrintReport, RemoveContainer, machine, course
<1>7. CASE ContainerDies \/ SamplerDies \/ Interrupt \/ Killed
  BY <1>7 DEF ContainerDies, SamplerDies, Interrupt, Killed, InTry, machine, course
<1>8. CASE RunAgain
  BY <1>8 DEF RunAgain, Begin, Blank
<1>9. CASE UNCHANGED vars
  BY <1>9 DEF vars
<1> QED
  BY <1>1, <1>2, <1>3, <1>4, <1>5, <1>6, <1>7, <1>8, <1>9 DEF Next

\* However the container, the sampler and the user interfere, the sweep is of one
\* life of the container and ends with it.
THEOREM SweepSound == Spec => []SweepIsOfOneLife
<1>1. Init => SweepInv
  BY LevelsAssumption DEF Init, Blank, SweepInv, SweepIsOfOneLife, Early, Unmeasured, AllUp
<1>2. TypeOK /\ TypeOK' /\ SweepInv /\ [Next]_vars => SweepInv'
  BY SweepStep
<1>3. SweepInv => SweepIsOfOneLife
  BY DEF SweepInv
<1> QED
  BY <1>1, <1>2, <1>3, TypeInvariant, PTL DEF Spec

-----------------------------------------------------------------------------
(* What is left behind.  The argument follows main() out of the try: its     *)
(* finally stops the sampler before it cleans up, and an interrupt that      *)
(* skips part of this ends in the handler, which removes the container.      *)

LeftInv ==
    /\ LeavesNothingBehind
    /\ leaving \in {"ahead", "entered", "failed", "interrupted", "unwritten"}
    /\ pc \notin {"ended", "killed", "handler"} => leaving # "unwritten"
    /\ pc \in {"preflight", "build", "start"} => leaving = "ahead" /\ sampler = "none"
    /\ pc \in {"ready", "sample"} => sampler = "none" /\ ~inside
    /\ pc = "finally" /\ sampler = "none" /\ leaving = "failed" => ~inside
    /\ pc \in {"finally", "write", "cleanup", "print"} =>
          leaving # "ahead" /\ (sampler = "none" => leaving # "entered")
    /\ pc = "write" => (inside => ~options.pkill)
    /\ pc = "cleanup" /\ leaving # "interrupted" =>
          (inside => ~options.pkill) /\ (sampler # "none" => written)
    /\ pc = "print" => (inside => ~options.pkill) /\ (sampler # "none" => written)
                       /\ (container # "none" => options.keep)
    /\ pc \in InTry \ {"start"} => leaving = "entered"
    /\ pc \in {"cold", "warmup", "baseline", "level", "check", "soak", "cooldown"} =>
          sampler # "none"

LEMMA LeftStep == LeftInv /\ [Next]_vars => LeftInv'
<1> SUFFICES ASSUME LeftInv, [Next]_vars PROVE LeftInv'
  OBVIOUS
<1> USE DEF LeftInv, LeavesNothingBehind, machine, course, InTry
<1>1. CASE Preflight \/ Build
  BY <1>1 DEF Preflight, Build
<1>2. CASE StartContainer
  BY <1>2 DEF StartContainer, Fail
<1>3. CASE WaitReady \/ StartSampler
  BY <1>3 DEF WaitReady, StartSampler, Fail
<1>4. CASE BeginPhase \/ ColdEnds \/ BaselineEnds \/ LevelEnds \/ SoakEnds \/ CooldownEnds
  BY <1>4 DEF BeginPhase, ColdEnds, BaselineEnds, LevelEnds, SoakEnds, CooldownEnds, EndOf
<1>5. CASE WarmupEnds
  BY <1>5 DEF WarmupEnds, EndOf, Fail
<1>6. CASE CheckContainer
  BY <1>6 DEF CheckContainer, AfterSweep
<1>7. CASE StopSampler
  BY <1>7 DEF StopSampler
<1>8. CASE WriteReport \/ PrintReport
  BY <1>8 DEF WriteReport, PrintReport
<1>9. CASE Cleanup
  BY <1>9 DEF Cleanup
<1>10. CASE RemoveContainer
  BY <1>10 DEF RemoveContainer
<1>11. CASE ContainerDies \/ SamplerDies
  BY <1>11 DEF ContainerDies, SamplerDies
<1>12. CASE Interrupt
  BY <1>12 DEF Interrupt
<1>13. CASE Killed
  BY <1>13 DEF Killed
<1>14. CASE RunAgain
  BY <1>14 DEF RunAgain, Begin
<1>15. CASE UNCHANGED vars
  BY <1>15 DEF vars
<1> QED
  BY <1>1, <1>2, <1>3, <1>4, <1>5, <1>6, <1>7, <1>8, <1>9, <1>10, <1>11, <1>12, <1>13,
     <1>14, <1>15 DEF Next

\* A run that ends leaves a container only where --keep asks for it, with its report on
\* disk, or where the report could not be written, and no sampler if the image has
\* pkill, after any number of runs.
THEOREM NothingLeft == Spec => []LeavesNothingBehind
<1>1. Init => LeftInv
  BY DEF Init, LeftInv, LeavesNothingBehind, InTry
<1>2. LeftInv => LeavesNothingBehind
  BY DEF LeftInv
<1> QED
  BY <1>1, <1>2, LeftStep, PTL DEF Spec
=============================================================================
