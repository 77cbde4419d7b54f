--------------------------- MODULE DeliveryProofs ---------------------------
(***************************************************************************)
(* Proofs about Delivery, for any versions, edits, merges and uploads.     *)
(***************************************************************************)
EXTENDS Delivery, SequenceTheorems, TLAPS

FileSets == [pyproject : Int, lock : Int, entries : Seq(Int), slip : Slips]

\* The tree still holds, at the end of its changelog, what main had when it was forked.
SharedHistory ==
    /\ forked \in Nat /\ forked <= Len(tree.entries) /\ forked <= Len(main.entries)
    /\ \A i \in 1 .. forked : tree.entries[Len(tree.entries) - forked + i]
                                = main.entries[Len(main.entries) - forked + i]

\* What the gate asks of files alone.
Whole(files) ==
    /\ files.pyproject = files.lock /\ files.slip = "none"
    /\ files.entries # <<>> /\ Head(files.entries) = files.pyproject

\* A run that found its version documented finds it so for ever.
Documented(run) == run # None /\ run.documented = TRUE => run.version \in Range(main.entries)

Inv ==
    /\ tree \in FileSets /\ main \in FileSets
    /\ SharedHistory
    /\ Documented(pending) /\ Documented(running)
    /\ MainIsWhole

\* Entries are only added to main.
LEMMA PrependRange ==
  ASSUME NEW s \in Seq(Int), NEW v \in Int
  PROVE  /\ <<v>> \o s \in Seq(Int)
         /\ Len(<<v>> \o s) = Len(s) + 1
         /\ Head(<<v>> \o s) = v
         /\ \A i \in 1 .. Len(s) : (<<v>> \o s)[i + 1] = s[i]
         /\ Range(s) \subseteq Range(<<v>> \o s)
         /\ v \in Range(<<v>> \o s)
<1> DEFINE t == <<v>> \o s
<1>1. /\ t \in Seq(Int) /\ Len(t) = Len(s) + 1 /\ Len(s) \in Nat
      /\ t[1] = v
      /\ \A i \in 1 .. Len(s) : t[i + 1] = s[i]
  OBVIOUS
<1>2. Head(t) = v
  BY <1>1
<1>3. DOMAIN t = 1 .. Len(s) + 1 /\ DOMAIN s = 1 .. Len(s)
  BY <1>1
<1> HIDE DEF t
<1>4. Range(s) \subseteq Range(t) /\ v \in Range(t)
  <2>1. \A i \in DOMAIN s : i + 1 \in DOMAIN t /\ t[i + 1] = s[i]
    BY <1>1, <1>3
  <2>2. 1 \in DOMAIN t
    BY <1>1, <1>3
  <2> QED
    BY <1>1, <2>1, <2>2 DEF Range
<1> QED
  BY <1>1, <1>2, <1>4 DEF t

\* The last n of a sequence are still its last n when an element is put before it.
LEMMA SameEnd ==
  ASSUME NEW s \in Seq(Int), NEW v \in Int, NEW u \in Seq(Int), NEW n \in Nat,
         n <= Len(s), n <= Len(u),
         \A i \in 1 .. n : s[Len(s) - n + i] = u[Len(u) - n + i]
  PROVE  /\ Len(<<v>> \o s) \in Nat /\ n <= Len(<<v>> \o s)
         /\ \A i \in 1 .. n : (<<v>> \o s)[Len(<<v>> \o s) - n + i] = u[Len(u) - n + i]
<1> DEFINE t == <<v>> \o s
<1>1. /\ Len(t) = Len(s) + 1 /\ Len(s) \in Nat
      /\ \A i \in 1 .. Len(s) : t[i + 1] = s[i]
  BY PrependRange
<1> HIDE DEF t
<1>2. Len(t) \in Nat /\ n <= Len(t)
  BY <1>1
<1>3. ASSUME NEW i \in 1 .. n PROVE t[Len(t) - n + i] = u[Len(u) - n + i]
  <2>1. Len(s) - n + i \in 1 .. Len(s) /\ (Len(s) - n + i) + 1 = Len(t) - n + i
    BY <1>1
  <2> QED
    BY <1>1, <2>1
<1> QED
  BY <1>2, <1>3 DEF t

\* A step that leaves main and the runs of release.yml alone.
LEMMA TreeStep ==
  ASSUME Inv, UNCHANGED <<main, labelled, github>>, tree' \in FileSets, SharedHistory'
  PROVE  Inv'
BY DEF Inv, github, Documented, MainIsWhole

\* A push of files that are whole or labelled, and keep main's entries.
LEMMA PushStep ==
  ASSUME Inv, NEW files \in FileSets, Push(files), UNCHANGED <<running, tags, byHand>>,
         labelled' \/ Whole(files),
         Range(main.entries) \subseteq Range(files.entries),
         tree' \in FileSets, SharedHistory'
  PROVE  Inv'
<1>1. main' = files
  BY DEF Push
<1>2. Documented(pending)'
  <2>1. PICK found \in Finds(files) : pending' = Run("tag", files.pyproject, found)
    BY DEF Push
  <2>2. found = TRUE => files.pyproject \in Range(files.entries)
    BY DEF Finds
  <2> QED
    BY <1>1, <2>1, <2>2 DEF Run, Documented
<1>3. Documented(running)'
  BY <1>1 DEF Inv, Documented
<1>4. MainIsWhole'
  BY <1>1 DEF Inv, MainIsWhole, Whole
<1> QED
  BY <1>1, <1>2, <1>3, <1>4 DEF Inv

LEMMA InvInit == Init => Inv
<1> SUFFICES ASSUME Init PROVE Inv
  OBVIOUS
<1>1. <<First>> \in Seq(Int) /\ Len(<<First>>) = 1 /\ Head(<<First>>) = First
        /\ Range(<<First>>) = {First}
  BY VersionsAssumption DEF Range
<1>2. main \in FileSets /\ main.entries = <<First>> /\ main.pyproject = First
        /\ main.lock = First /\ main.slip = "none"
  BY <1>1, VersionsAssumption DEF Init, Files, FileSets, Slips
<1> QED
  BY <1>1, <1>2 DEF Init, Inv, SharedHistory, Documented, MainIsWhole

LEMMA InvDevelop == Inv /\ Develop => Inv'
<1> SUFFICES ASSUME Inv, Develop PROVE Inv'
  OBVIOUS
<1>t. /\ tree.pyproject \in Int /\ tree.lock \in Int /\ tree.entries \in Seq(Int)
      /\ tree.slip \in Slips /\ main.entries \in Seq(Int)
      /\ Len(tree.entries) \in Nat /\ Len(main.entries) \in Nat
  BY DEF Inv, FileSets
<1>1. CASE WriteVersion \/ Lock \/ BumpEnds \/ Edit
  <2>1. tree' \in FileSets /\ tree'.entries = tree.entries
    <3>1. CASE WriteVersion
      <4>1. tree.pyproject + 1 \in Int
        BY <1>t
      <4> QED
        BY <1>t, <3>1, <4>1 DEF WriteVersion, Inv, FileSets
    <3>2. CASE Lock \/ BumpEnds
      BY <1>t, <3>2 DEF Lock, BumpEnds, Inv, FileSets
    <3>3. CASE Edit
      <4>1. \/ \E slip \in Slips : tree' = [tree EXCEPT !.slip = slip]
            \/ \E v \in Versions : tree' = [tree EXCEPT !.pyproject = v]
        BY <3>3 DEF Edit
      <4>2. Versions \subseteq Int
        BY VersionsAssumption DEF Versions
      <4> QED
        BY <1>t, <4>1, <4>2 DEF Inv, FileSets
    <3> QED
      BY <1>1, <3>1, <3>2, <3>3
  <2>2. UNCHANGED <<main, labelled, github, forked>>
    BY <1>1 DEF WriteVersion, Lock, BumpEnds, Edit
  <2> QED
    BY <2>1, <2>2, TreeStep DEF Inv, SharedHistory
<1>2. CASE InsertEntry
  <2>1. CASE tree' = tree
    BY <1>2, <2>1, TreeStep DEF InsertEntry, Inv, SharedHistory
  <2>2. CASE tree' # tree
    <3>1. /\ tree'.entries = <<tree.pyproject>> \o tree.entries
          /\ tree' \in FileSets
          /\ UNCHANGED <<main, labelled, github, forked>>
      <4>1. <<tree.pyproject>> \o tree.entries \in Seq(Int)
        BY <1>t, PrependRange
      <4>2. PICK slip \in Slips :
              tree' = [tree EXCEPT !.entries = <<tree.pyproject>> \o @, !.slip = slip]
        BY <1>2, <2>2, <1>t DEF InsertEntry, Slips
      <4> QED
        BY <1>2, <1>t, <4>1, <4>2 DEF InsertEntry, Inv, FileSets
    <3>2. /\ Len(tree'.entries) = Len(tree.entries) + 1
          /\ \A i \in 1 .. Len(tree.entries) : tree'.entries[i + 1] = tree.entries[i]
      BY <3>1, <1>t, PrependRange
    <3>3. /\ forked <= Len(tree'.entries)
          /\ \A i \in 1 .. forked : tree'.entries[Len(tree'.entries) - forked + i]
                                       = main.entries[Len(main.entries) - forked + i]
      <4> DEFINE t == <<tree.pyproject>> \o tree.entries
      <4>1. /\ forked \in Nat /\ forked <= Len(tree.entries) /\ forked <= Len(main.entries)
            /\ \A i \in 1 .. forked : tree.entries[Len(tree.entries) - forked + i]
                                         = main.entries[Len(main.entries) - forked + i]
        BY DEF Inv, SharedHistory
      <4>2. /\ forked <= Len(t)
            /\ \A i \in 1 .. forked : t[Len(t) - forked + i]
                                         = main.entries[Len(main.entries) - forked + i]
        BY <1>t, <4>1, SameEnd
      <4> HIDE DEF t
      <4>3. tree'.entries = t
        BY <3>1 DEF t
      <4> QED
        BY <4>2, <4>3
    <3>4. SharedHistory'
      BY <3>1, <3>3 DEF Inv, SharedHistory
    <3> QED
      BY <3>1, <3>4, TreeStep
  <2> QED
    BY <2>1, <2>2
<1>3. CASE Checkout
  <2>1. tree' = main /\ forked' = Len(main.entries) /\ UNCHANGED <<main, labelled, github>>
    BY <1>3 DEF Checkout
  <2> QED
    BY <1>t, <2>1, TreeStep DEF Inv, SharedHistory
<1>4. CASE Rebase
  <2> DEFINE own == SubSeq(tree.entries, 1, Len(tree.entries) - forked)
  <2>1. /\ tree' = [tree EXCEPT !.entries = own \o main.entries]
        /\ forked' = Len(main.entries)
        /\ UNCHANGED <<main, labelled, github>>
    BY <1>4 DEF Rebase
  <2>2. own \in Seq(Int) /\ Len(own) \in Nat
    BY <1>t DEF Inv, SharedHistory
  <2> HIDE DEF own
  <2>3. /\ own \o main.entries \in Seq(Int)
        /\ Len(own \o main.entries) = Len(own) + Len(main.entries)
        /\ \A i \in 1 .. Len(main.entries) : (own \o main.entries)[Len(own) + i] = main.entries[i]
    BY <1>t, <2>2
  <2>4. tree' \in FileSets /\ tree'.entries = own \o main.entries
    BY <2>1, <2>3 DEF Inv, FileSets
  <2>5. SharedHistory'
    <3>1. /\ forked' \in Nat /\ forked' <= Len(tree'.entries)
          /\ Len(tree'.entries) - forked' = Len(own) /\ Len(main.entries) - forked' = 0
      BY <1>t, <2>1, <2>2, <2>3, <2>4
    <3>2. ASSUME NEW i \in 1 .. forked'
          PROVE  tree'.entries[Len(tree'.entries) - forked' + i]
                   = main.entries[Len(main.entries) - forked' + i]
      <4>1. /\ Len(tree'.entries) - forked' + i = Len(own) + i
            /\ Len(main.entries) - forked' + i = i /\ i \in 1 .. Len(main.entries)
        BY <1>t, <2>1, <2>2, <2>3, <2>4, <3>1
      <4> QED
        BY <2>3, <2>4, <4>1
    <3> QED
      BY <1>t, <2>1, <3>1, <3>2 DEF SharedHistory
  <2> QED
    BY <2>1, <2>4, <2>5, TreeStep
<1> QED
  BY <1>1, <1>2, <1>3, <1>4 DEF Develop

LEMMA InvRelease == Inv /\ Release => Inv'
<1> SUFFICES ASSUME Inv, Release PROVE Inv'
  OBVIOUS
<1>t. /\ tree.entries \in Seq(Int) /\ main.entries \in Seq(Int) /\ main.pyproject \in Int
      /\ Len(tree.entries) \in Nat /\ Len(main.entries) \in Nat
  BY DEF Inv, FileSets
<1>1. CASE Merge
  <2>1. /\ Len(main.entries) = forked /\ (labelled' \/ CheckPasses(tree, main)) /\ Push(tree)
        /\ forked' = Len(tree.entries) /\ UNCHANGED <<tree, running, tags, byHand>>
    BY <1>1 DEF Merge
  <2>2. Range(main.entries) \subseteq Range(tree.entries)
    <3>1. \A i \in 1 .. Len(main.entries) :
             /\ Len(tree.entries) - forked + i \in 1 .. Len(tree.entries)
             /\ tree.entries[Len(tree.entries) - forked + i] = main.entries[i]
      BY <1>t, <2>1 DEF Inv, SharedHistory
    <3>2. DOMAIN main.entries = 1 .. Len(main.entries) /\ DOMAIN tree.entries = 1 .. Len(tree.entries)
      BY <1>t
    <3> QED
      BY <3>1, <3>2 DEF Range
  <2>3. SharedHistory'
    BY <1>t, <2>1 DEF Push, SharedHistory
  <2> QED
    BY <2>1, <2>2, <2>3, PushStep DEF CheckPasses, Whole, Inv
<1>2. CASE OthersMerge
  <2>1. CASE Push(main) /\ UNCHANGED labelled
    <3>1. main' = main /\ UNCHANGED <<tree, forked, running, tags, byHand>>
      BY <1>2, <2>1 DEF OthersMerge, Push
    <3>2. SharedHistory'
      BY <3>1 DEF Inv, SharedHistory
    <3>3. labelled' \/ Whole(main)
      BY <2>1 DEF Inv, MainIsWhole, Whole
    <3> QED
      BY <2>1, <3>1, <3>2, <3>3, PushStep DEF Inv
  <2>2. CASE /\ Push(Files(main.pyproject + 1, <<main.pyproject + 1>> \o main.entries))
             /\ labelled' = FALSE
    <3> DEFINE v == main.pyproject + 1
               files == Files(v, <<v>> \o main.entries)
    <3>v. v \in Int
      BY <1>t
    <3> HIDE DEF v
    <3>1. /\ files \in FileSets /\ files.entries = <<v>> \o main.entries
          /\ files.pyproject = v /\ files.lock = v /\ files.slip = "none"
      BY <1>t, <3>v, PrependRange DEF Files, FileSets, Slips
    <3>2. /\ Len(files.entries) = Len(main.entries) + 1
          /\ Head(files.entries) = v
          /\ \A i \in 1 .. Len(main.entries) : files.entries[i + 1] = main.entries[i]
          /\ Range(main.entries) \subseteq Range(files.entries)
      <4> DEFINE t == <<v>> \o main.entries
      <4>1. /\ Len(t) = Len(main.entries) + 1 /\ Head(t) = v
            /\ \A i \in 1 .. Len(main.entries) : t[i + 1] = main.entries[i]
            /\ Range(main.entries) \subseteq Range(t)
        BY <1>t, <3>v, PrependRange
      <4>2. files.entries = t
        BY <3>1
      <4> HIDE DEF t, files
      <4> QED
        BY <4>1, <4>2
    <3>3. main' = files /\ UNCHANGED <<tree, forked, running, tags, byHand>>
      BY <1>2, <2>2 DEF OthersMerge, Push, v
    <3> HIDE DEF files
    <3>4. SharedHistory'
      <4>1. /\ forked <= Len(files.entries)
            /\ \A i \in 1 .. forked : files.entries[Len(files.entries) - forked + i]
                                         = tree.entries[Len(tree.entries) - forked + i]
        <5> DEFINE t == <<v>> \o main.entries
        <5>1. /\ forked \in Nat /\ forked <= Len(tree.entries) /\ forked <= Len(main.entries)
              /\ \A i \in 1 .. forked : main.entries[Len(main.entries) - forked + i]
                                           = tree.entries[Len(tree.entries) - forked + i]
          BY DEF Inv, SharedHistory
        <5>2. /\ forked <= Len(t)
              /\ \A i \in 1 .. forked : t[Len(t) - forked + i]
                                           = tree.entries[Len(tree.entries) - forked + i]
          BY <1>t, <3>v, <5>1, SameEnd
        <5> HIDE DEF t
        <5>3. files.entries = t
          BY <3>1 DEF t
        <5> QED
          BY <5>2, <5>3
      <4> QED
        BY <3>3, <4>1 DEF Inv, SharedHistory
    <3>5. Whole(files)
      BY <3>1, <3>2, <1>t DEF Whole
    <3> QED
      BY <2>2, <3>1, <3>2, <3>3, <3>4, <3>5, PushStep DEF files, v, Inv
  <2> QED
    BY <1>2, <2>1, <2>2 DEF OthersMerge
<1>3. CASE Dispatch
  <2>1. Documented(pending)'
    <3>1. PICK version : pending' = Run("publish", version, FALSE)
      BY <1>3 DEF Dispatch
    <3> QED
      BY <3>1 DEF Run, Documented
  <2> QED
    BY <1>3, <2>1 DEF Dispatch, repository, Inv, SharedHistory, Documented, MainIsWhole
<1>4. CASE StartRun
  BY <1>4 DEF StartRun, repository, Inv, SharedHistory, Documented, MainIsWhole
<1>5. CASE TagRelease
  <2>1. tags' \ byHand' \subseteq Range(main.entries)
    BY <1>5 DEF TagRelease, Inv, Documented, MainIsWhole
  <2>2. Documented(running)'
    <3>1. CASE running' = None
      BY <3>1 DEF Documented
    <3>2. CASE running' = [running EXCEPT !.step = "publish"] /\ running.documented
      <4>1. running # None /\ running.version \in Range(main.entries)
        BY <1>5, <3>2 DEF TagRelease, Inv, Documented
      <4>2. running'.version = running.version
        BY <3>2
      <4> QED
        BY <1>5, <4>1, <4>2 DEF TagRelease, repository, Documented
    <3> QED
      BY <1>5, <3>1, <3>2 DEF TagRelease, RunFails
  <2> QED
    BY <1>5, <2>1, <2>2 DEF TagRelease, repository, Inv, SharedHistory, Documented, MainIsWhole
<1>6. CASE PublishToPyPI
  BY <1>6 DEF PublishToPyPI, RunFails, repository, Inv, SharedHistory, Documented, MainIsWhole
<1>7. CASE TagByHand
  BY <1>7 DEF TagByHand, repository, Inv, SharedHistory, Documented, MainIsWhole
<1> QED
  BY <1>1, <1>2, <1>3, <1>4, <1>5, <1>6, <1>7 DEF Release

LEMMA InvNext == Inv /\ [Next]_vars => Inv'
<1> SUFFICES ASSUME Inv, [Next]_vars PROVE Inv'
  OBVIOUS
<1>1. CASE Upload \/ UNCHANGED vars
  <2>1. UNCHANGED <<repository, github>>
    BY <1>1 DEF Upload, StartUpload, ChooseEnv, WriteCache, BuildWheel, PostVersion,
                UploadDone, UploadFails, vars
  <2> QED
    BY <2>1 DEF repository, github, Inv, SharedHistory, Documented, MainIsWhole
<1> QED
  BY <1>1, InvDevelop, InvRelease DEF Next

\* Whatever bump_version.py leaves half done, a hand edits, others merge, a label lets
\* past the gate and the runs of release.yml tag: what the gate let onto main is whole,
\* and main describes every version that was not tagged by hand.
THEOREM MainReleasable == Spec => []MainIsWhole
<1>1. Inv => MainIsWhole
  BY DEF Inv
<1> QED
  BY <1>1, InvNext, InvInit, PTL DEF Spec

-----------------------------------------------------------------------------
(* Tags.  Only the run that made a tag may be between it and the publishing, *)
(* so the property needs of the runs no more than what they are.             *)

TagInv ==
    /\ tree \in FileSets /\ main \in FileSets
    /\ tags \in SUBSET Int
    /\ pending \in Runs \cup {None} /\ running \in Runs \cup {None}
    /\ TaggedIsPublished

LEMMA TagStep == Inv /\ Inv' /\ TagInv /\ [Next]_vars => TagInv'
<1> SUFFICES ASSUME Inv, Inv', TagInv, [Next]_vars PROVE TagInv'
  OBVIOUS
<1>f. tree' \in FileSets /\ main' \in FileSets
  BY DEF Inv
<1>p. tree.pyproject \in Int /\ main.pyproject \in Int
  BY DEF TagInv, FileSets
<1> USE DEF TagInv, TaggedIsPublished
<1>1. CASE Develop \/ Upload \/ UNCHANGED vars
  <2>1. UNCHANGED github
    BY <1>1 DEF Develop, WriteVersion, InsertEntry, Lock, BumpEnds, Checkout, Edit, Rebase,
                Upload, StartUpload, ChooseEnv, WriteCache, BuildWheel, PostVersion,
                UploadDone, UploadFails, repository, vars
  <2> QED
    BY <1>f, <2>1 DEF github
<1>2. CASE Merge \/ OthersMerge
  <2>1. PICK files : Push(files)
    BY <1>2 DEF Merge, OthersMerge
  <2>2. files.pyproject \in Int
    BY <1>f, <2>1 DEF Push, FileSets
  <2>3. pending' \in Runs
    <3>1. PICK found \in Finds(files) : pending' = Run("tag", files.pyproject, found)
      BY <2>1 DEF Push
    <3>2. found \in BOOLEAN
      <4>1. Finds(files) \subseteq BOOLEAN
        <5>1. (files.pyproject \in Range(files.entries)) \in BOOLEAN
          OBVIOUS
        <5>2. (IF files.slip = "malformed" THEN {FALSE} ELSE {}) \subseteq BOOLEAN
          OBVIOUS
        <5> QED
          BY <5>1, <5>2, Zenon DEF Finds
      <4> QED
        BY <4>1
    <3> QED
      BY <2>2, <3>1, <3>2 DEF Run, Runs
  <2>4. UNCHANGED <<running, tags, byHand, published, failed>>
    BY <1>2 DEF Merge, OthersMerge
  <2> QED
    BY <1>f, <2>3, <2>4
<1>3. CASE Dispatch
  <2>1. pending' \in Runs
    BY <1>3, <1>p DEF Dispatch, Run, Runs
  <2> QED
    BY <1>3, <1>f, <2>1 DEF Dispatch
<1>4. CASE TagByHand
  BY <1>4, <1>f, <1>p DEF TagByHand
<1>5. CASE StartRun
  BY <1>5, <1>f DEF StartRun
<1>6. CASE TagRelease
  <2>1. running \in Runs
    BY <1>6 DEF TagRelease
  <2>2. CASE running' = [running EXCEPT !.step = "publish"]
    <3>1. running' \in Runs /\ running'.step = "publish" /\ running'.version = running.version
      BY <2>1, <2>2 DEF Runs
    <3>2. running' # None
      BY <3>1, NoneAssumption
    <3>3. /\ running.version \in Int /\ running.step = "tag"
          /\ tags' = tags \cup {running.version} /\ failed' = failed \ {running.version}
          /\ UNCHANGED <<pending, byHand, published>>
      BY <1>6, <2>1, <3>2 DEF TagRelease, RunFails, Runs
    <3> QED
      BY <1>f, <3>1, <3>2, <3>3
  <2>3. CASE running' = None
    <3>1. /\ running.step = "tag" /\ running.version \in Int
          /\ UNCHANGED <<pending, byHand, published>>
      BY <1>6, <2>1 DEF TagRelease, Runs
    <3>2. \/ tags' = tags /\ failed \subseteq failed'
          \/ /\ tags' = tags \cup {running.version}
             /\ failed' = failed \cup ({running.version} \ published)
      <4>1. [running EXCEPT !.step = "publish"] # None
        BY <2>1, NoneAssumption DEF Runs
      <4> QED
        BY <1>6, <2>3, <4>1 DEF TagRelease, RunFails
    <3> QED
      BY <1>f, <2>3, <3>1, <3>2
  <2> QED
    BY <1>6, <2>2, <2>3 DEF TagRelease, RunFails
<1>7. CASE PublishToPyPI
  BY <1>7, <1>f DEF PublishToPyPI, RunFails
<1> QED
  BY <1>1, <1>2, <1>3, <1>4, <1>5, <1>6, <1>7 DEF Next, Release

\* For any versions and whatever is pushed, dispatched, replaced and tagged by hand
\* meanwhile: a tag of release.yml is followed by its publishing or a failure that shows.
THEOREM TagsArePublished == Spec => []TaggedIsPublished
<1>1. Init => Inv /\ TagInv
  <2> SUFFICES ASSUME Init PROVE TagInv
    BY InvInit
  <2>1. tree \in FileSets /\ main \in FileSets
    BY InvInit DEF Inv
  <2> QED
    BY <2>1, VersionsAssumption DEF Init, TagInv, TaggedIsPublished
<1>2. Inv /\ [Next]_vars => Inv'
  BY InvNext
<1>3. TagInv => TaggedIsPublished
  BY DEF TagInv
<1> QED
  BY <1>1, <1>2, <1>3, TagStep, PTL DEF Spec

-----------------------------------------------------------------------------
(* Personal uploads.  The property says of an upload that is posted what was *)
(* decided when its environment was chosen: the cached environment exists,   *)
(* is nobody's public one, and was kept only for its own installation.       *)

Chosen == upload.stage \in {"remember", "build", "post", "poll", "done"}

PersonalInv ==
    /\ attempts \in Nat
    /\ upload = [stage |-> upload.stage, endpoint |-> upload.endpoint, promote |-> upload.promote,
                 env |-> upload.env, wheel |-> upload.wheel, label |-> upload.label]
    /\ upload.stage # "idle" => attempts > 0
    /\ cache # None => cache \in envs /\ cache.number > 0
    /\ upload.stage = "remember" => ~upload.promote
    /\ Chosen /\ ~upload.promote =>
          upload.env \in envs /\ upload.env.number > 0 /\ upload.env.endpoint = upload.endpoint

LEMMA PersonalStep == PersonalInv /\ [Next]_vars => PersonalInv'
<1> SUFFICES ASSUME PersonalInv, [Next]_vars PROVE PersonalInv'
  OBVIOUS
<1> USE DEF PersonalInv, Chosen
<1>1. CASE Develop \/ Release \/ UNCHANGED vars
  <2>1. UNCHANGED uploads
    BY <1>1 DEF Develop, WriteVersion, InsertEntry, Lock, BumpEnds, Checkout, Edit, Rebase,
                Release, Merge, OthersMerge, Dispatch, TagByHand,
                StartRun, TagRelease, PublishToPyPI, vars
  <2> QED
    BY <2>1 DEF uploads
<1>2. CASE StartUpload
  <2>1. PICK e \in Endpoints, p \in BOOLEAN :
          upload' = [stage |-> "environment", endpoint |-> e, promote |-> p, env |-> None,
                     wheel |-> None, label |-> None]
    BY <1>2 DEF StartUpload, Idle
  <2>2. attempts' = attempts + 1 /\ UNCHANGED <<cache, envs>>
    BY <1>2 DEF StartUpload
  <2>3. /\ upload'.stage = "environment" /\ upload'.endpoint = e /\ upload'.promote = p
        /\ upload'.env = None /\ upload'.wheel = None /\ upload'.label = None
    BY <2>1
  <2> QED
    BY <2>1, <2>2, <2>3
<1>3. CASE ChooseEnv
  <2>1. CASE upload.promote
    BY <1>3, <2>1 DEF ChooseEnv
  <2>2. CASE ~upload.promote /\ Remembered(upload.endpoint)
    BY <1>3, <2>2 DEF ChooseEnv, Remembered
  <2>3. CASE ~upload.promote /\ ~Remembered(upload.endpoint)
    <3> DEFINE created == [endpoint |-> upload.endpoint, number |-> attempts]
    <3>1. /\ envs' = envs \cup {created} /\ UNCHANGED <<cache, attempts>>
          /\ upload' = [upload EXCEPT !.stage = "remember", !.env = created]
      BY <1>3, <2>3 DEF ChooseEnv
    <3>2. created.number > 0 /\ created.endpoint = upload.endpoint
      BY <1>3 DEF ChooseEnv
    <3>3. /\ upload'.env = created /\ upload'.stage = "remember"
          /\ upload'.promote = upload.promote /\ upload'.endpoint = upload.endpoint
          /\ upload'.wheel = upload.wheel /\ upload'.label = upload.label
      BY <3>1
    <3>4. upload' = [stage |-> upload'.stage, endpoint |-> upload'.endpoint,
                     promote |-> upload'.promote, env |-> upload'.env,
                     wheel |-> upload'.wheel, label |-> upload'.label]
      BY <3>1
    <3> QED
      BY <2>3, <3>1, <3>2, <3>3, <3>4, <1>3 DEF ChooseEnv
  <2> QED
    BY <2>1, <2>2, <2>3, <1>3 DEF ChooseEnv
<1>4. CASE WriteCache
  BY <1>4 DEF WriteCache
<1>5. CASE BuildWheel
  <2>1. PICK w : upload' = [upload EXCEPT !.stage = "post", !.wheel = w, !.label = tree.pyproject]
    BY <1>5 DEF BuildWheel
  <2> QED
    BY <1>5, <2>1 DEF BuildWheel
<1>6. CASE PostVersion \/ UploadDone
  BY <1>6 DEF PostVersion, UploadDone
<1>7. CASE UploadFails
  BY <1>7 DEF UploadFails, Idle
<1> QED
  BY <1>1, <1>2, <1>3, <1>4, <1>5, <1>6, <1>7 DEF Next, Upload

\* For any number of installations and uploads, whichever of them stop half-way: without
\* --promote upload_dr_env.py posts to an environment of one's own at the installation
\* asked for.
THEOREM PersonalUploads == Spec => []PersonalStaysPersonal
<1>1. Init => PersonalInv
  BY DEF Init, Idle, PersonalInv, Chosen
<1>2. PersonalInv => PersonalStaysPersonal
  BY DEF PersonalInv, Chosen, PersonalStaysPersonal, Public
<1> QED
  BY <1>1, <1>2, PersonalStep, PTL DEF Spec
=============================================================================
