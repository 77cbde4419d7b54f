----------------------------- MODULE MemProfile -----------------------------
(***************************************************************************)
(* scripts/mem_profile.py: it starts a container with the server, samples  *)
(* its cgroup from inside, drives load at it level by level, and writes    *)
(* what it measured.  The container may die at any moment, the script be   *)
(* interrupted (a KeyboardInterrupt) or killed, and be run again.          *)
(*                                                                         *)
(* docker does what it is told, if it can be done.                         *)
(*                                                                         *)
(* Of a measurement the model keeps whether samples of its window exist,   *)
(* of a load whether requests failed.                                      *)
(***************************************************************************)
EXTENDS Naturals, Sequences

CONSTANTS
    Levels,   \* how many levels the sweep has
    MaxRuns   \* bound of runs of the script

ASSUME LevelsAssumption == Levels \in Nat \ {0}

VARIABLES
    pc,         \* the step of main() that is next
    options,    \* of the command line; pkill: the image has it
    container,  \* "none", "running" or "exited": the one of this name
    sampler,    \* the Sampler of main(): "none", "reading" or "stopped"
    inside,     \* its process runs in the container
    window,     \* of the phase under way: "none" before it, "empty" or "sampled"
    report,     \* what is measured
    written,    \* the report is on disk
    leaving,    \* the try: "ahead", "entered", or left "failed" or "interrupted"; or
                \* "unwritten": the finally has failed to write the report
    runs        \* runs begun
vars == <<pc, options, container, sampler, inside, window, report, written, leaving, runs>>
\* What most steps leave alone.
machine == <<container, sampler, inside>>
course == <<options, written, leaving, runs>>

Options == [keep : BOOLEAN, build : BOOLEAN, warmup : BOOLEAN, soak : BOOLEAN, pkill : BOOLEAN]

Blank == [cold |-> "none", baseline |-> "none", sweep |-> <<>>, died |-> 0,
          soak |-> "none", cooldown |-> "none"]

Begin ==
    /\ pc' = "preflight"
    /\ options' \in Options
    /\ sampler' = "none"
    /\ window' = "none"
    /\ report' = Blank
    /\ written' = FALSE
    /\ leaving' = "ahead"

Init ==
    /\ pc = "preflight"
    /\ options \in Options
    /\ container = "none"
    /\ sampler = "none"
    /\ inside = FALSE
    /\ window = "none"
    /\ report = Blank
    /\ written = FALSE
    /\ leaving = "ahead"
    /\ runs = 1

\* The try is left by an exception, sys.exit included.
Fail == pc' = "finally" /\ leaving' = "failed"

-----------------------------------------------------------------------------
(* Before the load *)

\* Docker, the model, the payload and the images are there, or it exits.
Preflight ==
    /\ pc = "preflight"
    /\ pc' \in {IF options.build THEN "build" ELSE "start", "ended"}
    /\ UNCHANGED <<machine, window, report, course>>

Build ==
    /\ pc = "build"
    /\ pc' \in {"start", "ended"}
    /\ UNCHANGED <<machine, window, report, course>>

\* The container an earlier run left is removed; docker run may fail and leave one
\* that has not started.
StartContainer ==
    /\ pc = "start"
    /\ inside' = FALSE
    /\ \/ container' = "running" /\ pc' = "ready" /\ leaving' = "entered"
       \/ container' \in {"none", "exited"} /\ Fail
    /\ UNCHANGED <<options, sampler, window, report, written, runs>>

\* It answers, or it has exited, or the time is over.
WaitReady ==
    /\ pc = "ready"
    /\ \/ container = "running" /\ pc' = "sample" /\ UNCHANGED leaving
       \/ Fail
    /\ UNCHANGED <<options, machine, window, report, written, runs>>

\* Without a sample in ten seconds it raises.
StartSampler ==
    /\ pc = "sample"
    /\ sampler' = "reading"
    /\ inside' = (container = "running")
    /\ \/ inside' /\ pc' = "cold" /\ UNCHANGED leaving
       \/ Fail
    /\ UNCHANGED <<options, container, window, report, written, runs>>

-----------------------------------------------------------------------------
(* The phases *)

BeginPhase ==
    /\ pc \in {"cold", "warmup", "baseline", "level", "soak", "cooldown"}
    /\ window = "none"
    /\ window' = IF inside THEN "sampled" ELSE "empty"
    /\ UNCHANGED <<pc, machine, report, course>>

EndOf(phase) == pc = phase /\ window # "none" /\ window' = "none"

ColdEnds ==
    /\ EndOf("cold")
    /\ report' = [report EXCEPT !.cold = window]
    /\ pc' = IF options.warmup THEN "warmup" ELSE "baseline"
    /\ UNCHANGED <<machine, course>>

\* drive(): a container that is gone fails requests, another one may.
LoadFails == {container # "running", TRUE}

WarmupEnds ==
    /\ EndOf("warmup")
    /\ \E errors \in LoadFails :
          IF errors THEN Fail ELSE pc' = "baseline" /\ UNCHANGED leaving
    /\ UNCHANGED <<machine, report, options, written, runs>>

BaselineEnds ==
    /\ EndOf("baseline")
    /\ report' = [report EXCEPT !.baseline = window]
    /\ pc' = "level"
    /\ UNCHANGED <<machine, course>>

\* A row; up is what container_state() would say now.
LevelEnds ==
    /\ EndOf("level")
    /\ \E errors \in LoadFails :
          report' = [report EXCEPT !.sweep =
                        Append(@, [mem |-> window, errors |-> errors, up |-> container = "running"])]
    /\ pc' = "check"
    /\ UNCHANGED <<machine, course>>

AfterSweep == IF options.soak THEN "soak" ELSE "cooldown"

\* A variant of CheckContainer: the sweep goes on.
CheckContainerNot ==
    /\ pc = "check"
    /\ pc' = IF Len(report.sweep) = Levels THEN AfterSweep ELSE "level"
    /\ UNCHANGED <<machine, window, report, course>>

\* A container that died ends the sweep and the measuring.
CheckContainer ==
    /\ pc = "check"
    /\ IF container # "running"
       THEN pc' = "finally" /\ report' = [report EXCEPT !.died = Len(report.sweep)]
       ELSE /\ pc' = IF Len(report.sweep) = Levels THEN AfterSweep ELSE "level"
            /\ UNCHANGED report
    /\ UNCHANGED <<machine, window, course>>

SoakEnds ==
    /\ EndOf("soak")
    /\ report' = [report EXCEPT !.soak = window]
    /\ pc' = "cooldown"
    /\ UNCHANGED <<machine, course>>

CooldownEnds ==
    /\ EndOf("cooldown")
    /\ report' = [report EXCEPT !.cooldown = window]
    /\ pc' = "finally"
    /\ UNCHANGED <<machine, course>>

-----------------------------------------------------------------------------
(* The finally, and what is left afterwards *)

\* A variant of StopSampler: the client is terminated, its process in the container
\* survives it.
StopSamplerHere ==
    /\ pc = "finally"
    /\ sampler' = IF sampler = "none" THEN "none" ELSE "stopped"
    /\ pc' = IF sampler = "none" THEN "cleanup" ELSE "write"
    /\ UNCHANGED <<inside, container, window, report, course>>

\* Sampler.stop() terminates its client and, in the container, its process, if pkill
\* is there; nobody looks at its result.
StopSampler ==
    /\ pc = "finally"
    /\ IF sampler = "none" THEN pc' = "cleanup" /\ UNCHANGED <<sampler, inside>>
       ELSE pc' = "write" /\ sampler' = "stopped" /\ inside' = (inside /\ ~options.pkill)
    /\ UNCHANGED <<container, window, report, course>>

\* Samples, logs and report.  An exception here takes the place of what left the try,
\* an interrupt included, and leaves the finally before cleanup(), with or without the
\* report on disk.
WriteReport ==
    /\ pc = "write"
    /\ \/ written' = TRUE /\ pc' = "cleanup" /\ UNCHANGED leaving
       \/ written' \in BOOLEAN /\ pc' = "ended" /\ leaving' = "unwritten"
    /\ UNCHANGED <<machine, window, report, options, runs>>

\* cleanup(), after which an exception goes on its way.
Cleanup ==
    /\ pc = "cleanup"
    /\ container' = IF options.keep THEN container ELSE "none"
    /\ inside' = (inside /\ options.keep)
    /\ pc' = CASE leaving = "entered" -> "print"
               [] leaving = "failed" -> "ended"
               [] OTHER -> "handler"
    /\ UNCHANGED <<sampler, window, report, course>>

PrintReport == pc = "print" /\ pc' = "ended" /\ UNCHANGED <<machine, window, report, course>>

\* The KeyboardInterrupt handler of the script removes the container, --keep or not.
RemoveContainer ==
    /\ pc = "handler"
    /\ container' = "none" /\ inside' = FALSE
    /\ pc' = "ended"
    /\ UNCHANGED <<sampler, window, report, course>>

-----------------------------------------------------------------------------
(* What happens to it *)

ContainerDies ==
    /\ container = "running"
    /\ container' = "exited" /\ inside' = FALSE
    /\ UNCHANGED <<pc, sampler, window, report, course>>

\* The process of the sampler alone is killed.
SamplerDies ==
    /\ inside
    /\ inside' = FALSE
    /\ UNCHANGED <<pc, container, sampler, window, report, course>>

InTry == {"start", "ready", "sample", "cold", "warmup", "baseline", "level", "check",
          "soak", "cooldown"}

Interrupt ==
    /\ pc \notin {"ended", "killed"}
    /\ IF pc \in InTry THEN pc' = "finally" /\ leaving' = "interrupted"
       ELSE /\ pc' = IF pc = "handler" THEN "killed" ELSE "handler"
            /\ UNCHANGED leaving
    /\ UNCHANGED <<machine, window, report, options, written, runs>>

Killed ==
    /\ pc \notin {"ended", "killed"}
    /\ pc' = "killed"
    /\ UNCHANGED <<machine, window, report, course>>

RunAgain ==
    /\ pc \in {"ended", "killed"}
    /\ runs < MaxRuns
    /\ runs' = runs + 1
    /\ Begin
    /\ UNCHANGED <<container, inside>>

Next == \/ Preflight \/ Build \/ StartContainer \/ WaitReady \/ StartSampler
        \/ BeginPhase \/ ColdEnds \/ WarmupEnds \/ BaselineEnds \/ LevelEnds
        \/ CheckContainer \/ SoakEnds \/ CooldownEnds
        \/ StopSampler \/ WriteReport \/ Cleanup \/ PrintReport \/ RemoveContainer
        \/ ContainerDies \/ SamplerDies \/ Interrupt \/ Killed \/ RunAgain

Spec == Init /\ [][Next]_vars

-----------------------------------------------------------------------------
(* Properties *)

\* The sweep is of one life of the container this run has started: it was up when
\* every row but the last was made, the report names the level it did not survive,
\* and nothing is measured of what comes after.
SweepIsOfOneLife ==
    /\ \A i \in 1 .. Len(report.sweep) - 1 : report.sweep[i].up
    /\ report.died # 0 =>
          report.died = Len(report.sweep) /\ report.soak = "none" /\ report.cooldown = "none"
    /\ pc \in {"soak", "cooldown"} =>
          Len(report.sweep) = Levels /\ report.sweep[Levels].up /\ report.died = 0

\* A run that ends leaves no container, except the one --keep asks for, with the report
\* of what was measured on disk, and the one of a report that could not be written: then
\* not even an interrupt removes it.  Neither holds a sampler any more if its image has
\* pkill.
LeavesNothingBehind ==
    pc = "ended" /\ leaving # "ahead" /\ container # "none" =>
        /\ options.keep \/ leaving = "unwritten"
        /\ inside => ~options.pkill
        /\ sampler # "none" => written \/ leaving = "unwritten"
=============================================================================
