------------------------------ MODULE Delivery ------------------------------
(***************************************************************************)
(* How a version of fastrag is delivered: scripts/bump_version.py writes   *)
(* it to three files, scripts/check_changelog.py gates the pull request,   *)
(* a merge starts .github/workflows/release.yml, which tags the commit     *)
(* with the notes of scripts/release_notes.py and publishes it; and        *)
(* scripts/upload_dr_env.py uploads a wheel of the working tree as an      *)
(* environment of DataRobot.  tag_and_push_release.sh tags without it.     *)
(*                                                                         *)
(* A command may fail or be interrupted after any step, files stay as they *)
(* are.  One developer works in one tree; others merge meanwhile.          *)
(* Versions are numbers in the order of their releases.                    *)
(***************************************************************************)
EXTENDS Integers, Sequences, Functions

CONSTANTS
    First, Last,   \* the version main starts with, the last one there is
    Endpoints,     \* installations of DataRobot
    MaxUploads,    \* bound of uploads
    MaxEntries,    \* bound of entries in the changelog of the tree
    None

ASSUME VersionsAssumption == First \in Nat /\ Last \in Nat

Runs == [step : {"tag", "publish"}, version : Int, documented : BOOLEAN]

ASSUME NoneAssumption == None \notin Runs

Versions == First .. Last

\* Names of files are compared as text, so 0.2.9 comes after 0.2.10.
NameRank(v) == IF v < 10 THEN 10 * v ELSE v

VARIABLES
    \* the repository
    tree,       \* the developer's files
    forked,     \* the length of the changelog the tree started from
    bump,       \* how far bump_version.py is: "idle", "written", "inserted", "locked"
    main,       \* the files on the branch main
    labelled,   \* they got there by a merge the gate was skipped for
    \* GitHub
    pending,    \* the run of release.yml that waits, or None
    running,    \* the one that runs, or None
    tags,       \* the versions tagged
    byHand,     \* those tagged by tag_and_push_release.sh
    published,  \* the versions on PyPI
    failed,     \* those whose last run of release.yml has failed
    \* upload_dr_env.py
    dist,       \* versions of the wheels in dist/
    cache,      \* personal_env.json, or None
    envs,       \* environments that exist
    upload,     \* the upload under way
    attempts    \* uploads begun
repository == <<tree, forked, bump, main, labelled>>
github == <<pending, running, tags, byHand, published, failed>>
uploads == <<dist, cache, envs, upload, attempts>>
vars == <<repository, github, uploads>>

\* slip: what is wrong with the changelog besides its versions: nothing, the insertion
\* flag is below the newest entry or gone, a heading does not parse, or the newest
\* entry has no body.
Slips == {"none", "flag below", "flag gone", "malformed", "empty"}

Files(version, entries) ==
    [pyproject |-> version, lock |-> version, entries |-> entries,
     slip |-> "none"]

Idle == [stage |-> "idle", endpoint |-> None, promote |-> FALSE, env |-> None,
         wheel |-> None, label |-> None]

\* Every installation has the public environment of env_info.json.
Public(endpoint) == [endpoint |-> endpoint, number |-> 0]

Init ==
    /\ main = Files(First, <<First>>)
    /\ tree = main
    /\ forked = 1
    /\ bump = "idle"
    /\ labelled = FALSE
    /\ pending = None /\ running = None
    /\ byHand = {}
    /\ tags = {First} /\ published = {First} /\ failed = {}
    /\ dist = {}
    /\ cache = None
    /\ envs = {Public(e) : e \in Endpoints}
    /\ upload = Idle
    /\ attempts = 0

-----------------------------------------------------------------------------
(* bump_version.py *)

\* A release of any part is the next version here.
WriteVersion ==
    /\ bump = "idle"
    /\ tree.pyproject < Last /\ Len(tree.entries) < MaxEntries
    /\ tree' = [tree EXCEPT !.pyproject = @ + 1]
    /\ bump' = "written"
    /\ UNCHANGED <<forked, main, labelled, github, uploads>>

\* Without the flag the script exits; the entry is never empty.  Below the flag may be
\* below an older entry: the hand that repairs the flag then moves the new entry too.
InsertEntry ==
    /\ bump = "written"
    /\ IF tree.slip = "flag gone" THEN bump' = "idle" /\ UNCHANGED tree
       ELSE /\ bump' = "inserted"
            /\ tree' = [tree EXCEPT !.entries = <<tree.pyproject>> \o @,
                                    !.slip = IF @ = "empty" THEN "none" ELSE @]
    /\ UNCHANGED <<forked, main, labelled, github, uploads>>

Lock ==
    /\ bump = "inserted"
    /\ tree' = [tree EXCEPT !.lock = tree.pyproject]
    /\ bump' = "locked"
    /\ UNCHANGED <<forked, main, labelled, github, uploads>>

\* uv lock fails, the run is interrupted, or the gate has told what it found.
BumpEnds ==
    /\ bump # "idle"
    /\ bump' = "idle"
    /\ UNCHANGED <<tree, forked, main, labelled, github, uploads>>

-----------------------------------------------------------------------------
(* The pull request, and check_changelog.py *)

\* Whether parse_changelog finds the entry of the files' version: not, perhaps, if a
\* heading does not parse; which one it is is left open.
Finds(files) == {files.pyproject \in Range(files.entries)}
                  \cup (IF files.slip = "malformed" THEN {FALSE} ELSE {})

\* A variant of CheckPasses: uv.lock is not compared.
CheckPassesUnlocked(files, base) ==
    /\ files.slip = "none" /\ files.entries # <<>>
    /\ Head(files.entries) = files.pyproject
    /\ FALSE \in Finds([base EXCEPT !.pyproject = files.pyproject])

\* main(): every check, against a base branch that has been fetched.
CheckPasses(files, base) ==
    /\ files.slip = "none" /\ files.entries # <<>>
    /\ Head(files.entries) = files.pyproject
    /\ files.lock = files.pyproject
    /\ FALSE \in Finds([base EXCEPT !.pyproject = files.pyproject])

Checkout ==
    /\ bump = "idle" /\ upload.stage \in {"idle", "done"}
    /\ tree' = main
    /\ forked' = Len(main.entries)
    /\ UNCHANGED <<bump, main, labelled, github, uploads>>

\* One slip of a hand in the files, or its repair; entries are not taken out.
Edit ==
    /\ bump = "idle" /\ upload.stage \in {"idle", "done"}
    /\ \/ \E slip \in Slips : tree' = [tree EXCEPT !.slip = slip]
       \/ \E v \in Versions : tree' = [tree EXCEPT !.pyproject = v]
    /\ UNCHANGED <<forked, bump, main, labelled, github, uploads>>

\* The branch's entries are put above those main has got meanwhile.
Rebase ==
    /\ bump = "idle" /\ upload.stage \in {"idle", "done"}
    /\ Len(main.entries) > forked
    /\ tree' = [tree EXCEPT !.entries = SubSeq(@, 1, Len(@) - forked) \o main.entries]
    /\ forked' = Len(main.entries)
    /\ UNCHANGED <<bump, main, labelled, github, uploads>>

\* A run of release.yml for a version, whose entry release_notes.py finds or not.
Run(step, version, documented) == [step |-> step, version |-> version, documented |-> documented]

\* A push to main: the run that waited is replaced by its run.
Push(files) ==
    /\ main' = files
    /\ \E found \in Finds(files) : pending' = Run("tag", files.pyproject, found)

\* The changelogs do not conflict, and the gate passes or is skipped for the label
\* skip-changelog, whatever the pull request changes.
Merge ==
    /\ bump = "idle"
    /\ Len(main.entries) = forked
    /\ labelled' \in BOOLEAN
    /\ labelled' \/ CheckPasses(tree, main)
    /\ Push(tree)
    /\ forked' = Len(tree.entries)
    /\ UNCHANGED <<tree, bump, running, tags, byHand, published, failed, uploads>>

\* Someone else's release is merged, or a pull request with the label that leaves
\* these files alone.
OthersMerge ==
    /\ \/ /\ main.pyproject < Last
          /\ main.pyproject + 1 \notin Range(main.entries)
          /\ Push(Files(main.pyproject + 1, <<main.pyproject + 1>> \o main.entries))
          /\ labelled' = FALSE
       \/ Push(main) /\ UNCHANGED labelled
    /\ UNCHANGED <<tree, forked, bump, running, tags, byHand, published, failed, uploads>>

-----------------------------------------------------------------------------
(* release.yml, and tag_and_push_release.sh beside it *)

\* Started by hand on main, or by a release of a tag that someone publishes: no tag is
\* made.  It too replaces the run that waited.
Dispatch ==
    /\ \E version \in tags \cup {main.pyproject} : pending' = Run("publish", version, FALSE)
    /\ UNCHANGED <<repository, running, tags, byHand, published, failed, uploads>>

\* The tag alone, of the working tree's version; the push of one that exists is refused.
TagByHand ==
    /\ tree.pyproject \notin tags
    /\ tags' = tags \cup {tree.pyproject}
    /\ byHand' = byHand \cup {tree.pyproject}
    /\ UNCHANGED <<repository, pending, running, published, failed, uploads>>

\* A variant of StartRun: cancel-in-progress is true.
StartRunCancelling ==
    /\ pending # None
    /\ running' = pending
    /\ pending' = None
    /\ UNCHANGED <<repository, tags, byHand, published, failed, uploads>>

\* One run at a time.
StartRun ==
    /\ pending # None /\ running = None
    /\ running' = pending
    /\ pending' = None
    /\ UNCHANGED <<repository, tags, byHand, published, failed, uploads>>

\* A run ends and shows that its version is not released.
RunFails(version) == running' = None /\ failed' = failed \cup ({version} \ published)

\* A version that has its tag is not released again; one that is new has to be found
\* by release_notes.py.  gh makes the tag and then the release, and may fail before
\* either or between them; publishing is then skipped.
TagRelease ==
    /\ running # None /\ running.step = "tag"
    /\ LET version == running.version
       IN  \/ version \in tags /\ running' = None /\ UNCHANGED <<tags, failed>>
           \/ RunFails(version) /\ UNCHANGED tags
           \/ /\ version \notin tags /\ running.documented
              /\ tags' = tags \cup {version}
              /\ \/ RunFails(version)
                 \/ /\ running' = [running EXCEPT !.step = "publish"]
                    /\ failed' = failed \ {version}
    /\ UNCHANGED <<repository, pending, byHand, published, uploads>>

\* PyPI takes a version once.
PublishToPyPI ==
    /\ running # None /\ running.step = "publish"
    /\ \/ /\ running.version \notin published
          /\ running' = None
          /\ published' = published \cup {running.version}
          /\ failed' = failed \ {running.version}
       \/ RunFails(running.version) /\ UNCHANGED published
    /\ UNCHANGED <<repository, pending, tags, byHand, uploads>>

-----------------------------------------------------------------------------
(* upload_dr_env.py *)

StartUpload ==
    /\ upload.stage \in {"idle", "done"} /\ bump = "idle"
    /\ attempts < MaxUploads
    /\ attempts' = attempts + 1
    /\ \E e \in Endpoints, p \in BOOLEAN :
           upload' = [Idle EXCEPT !.stage = "environment", !.endpoint = e, !.promote = p]
    /\ UNCHANGED <<repository, github, dist, cache, envs>>

\* A variant of Remembered: whatever installation the file is about.
RememberedAnywhere(endpoint) == cache # None

\* personal_env.json names an environment of this installation.
Remembered(endpoint) == cache # None /\ cache.endpoint = endpoint

ChooseEnv ==
    /\ upload.stage = "environment"
    /\ \/ /\ upload.promote
          /\ upload' = [upload EXCEPT !.stage = "build", !.env = Public(upload.endpoint)]
          /\ UNCHANGED envs
       \/ /\ ~upload.promote /\ Remembered(upload.endpoint)
          /\ upload' = [upload EXCEPT !.stage = "build", !.env = cache]
          /\ UNCHANGED envs
       \/ /\ ~upload.promote /\ ~Remembered(upload.endpoint)
          /\ LET created == [endpoint |-> upload.endpoint, number |-> attempts]
             IN  /\ envs' = envs \cup {created}
                 /\ upload' = [upload EXCEPT !.stage = "remember", !.env = created]
    /\ UNCHANGED <<repository, github, dist, cache, attempts>>

WriteCache ==
    /\ upload.stage = "remember"
    /\ cache' = upload.env
    /\ upload' = [upload EXCEPT !.stage = "build"]
    /\ UNCHANGED <<repository, github, dist, envs, attempts>>

\* uv build adds a wheel to dist/; the last name of all is taken, and the label is
\* read from pyproject.toml.
BuildWheel ==
    /\ upload.stage = "build"
    /\ dist' = dist \cup {tree.pyproject}
    /\ upload' = [upload EXCEPT !.stage = "post",
           !.wheel = CHOOSE w \in dist' : \A other \in dist' : NameRank(other) <= NameRank(w),
           !.label = tree.pyproject]
    /\ UNCHANGED <<repository, github, cache, envs, attempts>>

PostVersion ==
    /\ upload.stage = "post"
    /\ upload' = [upload EXCEPT !.stage = "poll"]
    /\ UNCHANGED <<repository, github, dist, cache, envs, attempts>>

\* The build succeeds in time.
UploadDone ==
    /\ upload.stage = "poll"
    /\ upload' = [upload EXCEPT !.stage = "done"]
    /\ UNCHANGED <<repository, github, dist, cache, envs, attempts>>

\* A request or the build fails, the time is over, or the script is interrupted.
UploadFails ==
    /\ upload.stage \notin {"idle", "done"}
    /\ upload' = Idle
    /\ UNCHANGED <<repository, github, dist, cache, envs, attempts>>

-----------------------------------------------------------------------------
Develop == WriteVersion \/ InsertEntry \/ Lock \/ BumpEnds \/ Checkout \/ Edit \/ Rebase
Release == \/ Merge \/ OthersMerge \/ Dispatch \/ TagByHand
           \/ StartRun \/ TagRelease \/ PublishToPyPI
Upload == \/ StartUpload \/ ChooseEnv \/ WriteCache \/ BuildWheel \/ PostVersion
          \/ UploadDone \/ UploadFails

Next == Develop \/ Release \/ Upload

Spec == Init /\ [][Next]_vars

\* A bound for TLC: of the repository an upload sees the version of the tree alone, so
\* uploads are explored before the first merge.
UploadsBeforeReleases ==
    attempts > 0 => main = Files(First, <<First>>) /\ pending = None /\ running = None /\ byHand = {}

\* Another: the tree is worked on while no run is under way.  GitHub sees nothing of it
\* but merges and tags, which are made at any time.
WorkedOnInQuiet == tree' # tree \/ bump' # bump => pending = None /\ running = None

\* A third: a hand's slip and a stale lock are not explored together, for the gate refuses
\* either, and of slips on main only the one that the runs see.
OneFault ==
    /\ tree.slip # "none" => tree.lock = tree.pyproject
    /\ main.slip \in {"none", "malformed"}

-----------------------------------------------------------------------------
(* Properties *)

\* What the gate let onto main can be released: the changelog begins with the version
\* of pyproject.toml, which uv.lock names too, whatever bump_version.py left behind, a
\* hand has edited, others have merged or a label has put there before.  And although
\* a label lets anything onto main, release.yml tags no version without an entry: main
\* describes every version that was not tagged by hand.
MainIsWhole ==
    /\ ~labelled => /\ main.pyproject = main.lock
                    /\ main.slip = "none"
                    /\ main.entries # <<>> /\ Head(main.entries) = main.pyproject
    /\ tags \ byHand \subseteq Range(main.entries)

\* Tagging and publishing are one run, which no other run ends: a version release.yml
\* has tagged is published, or being published, or the run has failed and shows it.  The
\* tag stops later runs from doing it.  A tag made by hand is not followed by anything.
TaggedIsPublished ==
    \A v \in tags \ byHand :
        \/ v \in published \cup failed
        \/ running # None /\ running.step = "publish" /\ running.version = v

\* Without --promote an upload goes to an environment of one's own, which exists at
\* the installation the credentials are for, also after the script has been used
\* with another installation or stopped before it wrote personal_env.json.
PersonalStaysPersonal ==
    upload.stage \in {"poll", "done"} /\ ~upload.promote =>
        /\ upload.env \in envs \ {Public(e) : e \in Endpoints}
        /\ upload.env.endpoint = upload.endpoint

\* The version announced as live is the one in the wheel.
UploadIsLabelled == upload.stage = "done" => upload.label = upload.wheel
=============================================================================
