------------------------------ MODULE ClabRun ------------------------------
(***************************************************************************)
(* One ContainerlabEbgpRun: prepare / up / status / down over its private  *)
(* run directory, the executor that revalidates the directory before every *)
(* command, and the Containerlab lab those commands create and destroy.    *)
(*                                                                         *)
(* A method call is cut where another process can act in between: before   *)
(* each directory entry it creates, and before each command it runs.  The  *)
(* caller is arbitrary here (any method whenever no call is in progress);  *)
(* ClabSmoke restricts it to what the command line does.                   *)
(***************************************************************************)
EXTENDS RunDirectory

CONSTANT MaxInterference     \* bound on outside changes to the run directory

ASSUME InterferenceAssumption == MaxInterference \in Nat

VARIABLES
  tree,              \* the run directory as the pathname shows it
  opened,            \* stamps of the directories prepare() holds open
  built,             \* how many entries of ConstructionOrder prepare() made
  manifest,          \* _artifact_identity.manifest of the minted artifact
  state,             \* ContainerlabEbgpRun.state
  failure,           \* ContainerlabEbgpRun.failure, by its code
  deployAttempted, destroyAttempted,
  lab,               \* the Containerlab lab named by the run
  pc,                \* where the call in progress stands
  inUp,              \* down() runs on behalf of up()
  ret,               \* how the last call ended
  seen,              \* nodes the current status() found Established
  deploys, destroys, \* deploy / destroy commands started (counted up to 2)
  raised,            \* deploy, a probe or destroy raised out of its method
  interference       \* outside changes so far

runVars == <<tree, opened, built, manifest, state, failure, deployAttempted,
             destroyAttempted, lab, pc, inUp, ret, seen, deploys, destroys, raised>>
vars == <<runVars, interference>>

States == {"PREPARED", "DEPLOYED", "VERIFIED", "CLEANED", "CLEANUP_FAILED"}
\* All preflight codes are one here: they share stage and meaning.
Failures == {"none", "PREFLIGHT", "LAB_ENVIRONMENT_UNAVAILABLE", "DEPLOY_FAILED",
             "STATUS_FAILED", "CLEANUP_FAILED", "LAB_ARTIFACT_CLEANUP_FAILED"}
Labs == {"none", "partial", "up"}
Points == {"idle", "construct", "bind", "check", "deploy", "probe", "down", "destroy", "remove"}
\* "error" is ClabPreparationError, "raised" anything a command let escape
\* (undecodable output, KeyboardInterrupt).
Returns == {"none", "true", "false", "error", "raised"}
Count(n) == IF n < 2 THEN n + 1 ELSE 2

Minted == manifest # NoTree

\* Deviation: a failed deploy is taken not to have touched anything.
ResourceMutationButDeploy(f) ==
  f \notin {"none", "PREFLIGHT", "LAB_ENVIRONMENT_UNAVAILABLE", "DEPLOY_FAILED"}

ResourceMutation(f) == f \notin {"none", "PREFLIGHT", "LAB_ENVIRONMENT_UNAVAILABLE"}

RunInit ==
  /\ tree = NoTree
  /\ opened = [d \in {Root} \cup Dirs |-> Absent]
  /\ built = 0
  /\ manifest = NoTree
  /\ state = "PREPARED"
  /\ failure = "none"
  /\ deployAttempted = FALSE
  /\ destroyAttempted = FALSE
  /\ lab = "none"
  /\ pc = "idle"
  /\ inUp = FALSE
  /\ ret = "none"
  /\ seen = {}
  /\ deploys = 0
  /\ destroys = 0
  /\ raised = FALSE

Init == RunInit /\ interference = 0

Return(r) == pc' = "idle" /\ ret' = r
Raise == pc' = "idle" /\ ret' = "raised" /\ raised' = TRUE

(***************************************************************************)
(* up(), first part: prepare()                                             *)
(***************************************************************************)
UpRefused ==
  /\ pc = "idle" /\ state # "PREPARED"
  /\ Return("false")
  /\ UNCHANGED <<tree, opened, built, manifest, state, failure, deployAttempted,
                 destroyAttempted, lab, inUp, seen, deploys, destroys, raised>>

UpAlreadyPrepared ==
  /\ pc = "idle" /\ state = "PREPARED" /\ Minted
  /\ pc' = "check"
  /\ UNCHANGED <<tree, opened, built, manifest, state, failure, deployAttempted,
                 destroyAttempted, lab, inUp, ret, seen, deploys, destroys, raised>>

\* What the three tools print is decoded outside any handler, so that an
\* exception can escape here too.
UpPreflight ==
  /\ pc = "idle" /\ state = "PREPARED" /\ ~Minted
  /\ \/ failure' = "PREFLIGHT" /\ Return("false") /\ UNCHANGED built
     \/ failure' = "none" /\ pc' = "construct" /\ built' = 0 /\ UNCHANGED ret
     \/ Return("raised") /\ UNCHANGED <<failure, built>>
  /\ UNCHANGED <<tree, opened, manifest, state, deployAttempted, destroyAttempted,
                 lab, inUp, seen, deploys, destroys, raised>>

\* prepare()'s handler: forget the artifact, report, re-raise.  Whatever the
\* best-effort removal left behind is t; the descriptors are closed.
PrepareFails(t) ==
  /\ tree' = t
  /\ opened' = [d \in {Root} \cup Dirs |-> Absent]
  /\ manifest' = NoTree
  /\ failure' = "LAB_ENVIRONMENT_UNAVAILABLE"
  /\ built' = 0
  /\ Return("error")

Cleanups(t, rootId, m) == {WithoutFirst(t, k) : k \in RemovablePrefixes(t, rootId, m)}

\* mkdir of the run directory, which must not exist, and its opening; when
\* the opening fails artifact_dir is not set yet, and nothing is removed.
MakeRoot ==
  /\ pc = "construct" /\ built = 0
  /\ LET made == [tree EXCEPT ![Root] = Own] IN
     \/ /\ tree[Root] = Absent
        /\ tree' = made
        /\ opened' = [opened EXCEPT ![Root] = Own]
        /\ built' = 1
        /\ UNCHANGED <<manifest, failure, pc, ret>>
     \/ \E t \in {tree} \cup (IF tree[Root] = Absent
                              THEN {made} \cup Cleanups(made, Own, NoTree) ELSE {}) :
          PrepareFails(t)
  /\ UNCHANGED <<state, deployAttempted, destroyAttempted, lab, inUp, seen,
                 deploys, destroys, raised>>

\* An entry made through a held descriptor shows in the tree while the
\* pathname leads to the held directory; if it was displaced, nowhere.
Reaches(d) == tree[d] # Absent /\ tree[d] \in {opened[d], Unsafe}

Visible(p) ==
  {t \in {[tree EXCEPT ![p] = Own]} : tree[p] = Absent}
    \cup {t \in {tree} : p \in Dirs /\ tree[p] > Absent}

Placed(p) ==
  {t \in Visible(p) : Reaches(Parent[p])}
    \cup {t \in {tree} : tree[Parent[p]] # opened[Parent[p]]}

\* The node directory that is held once p was made or found: what shows at p,
\* or a directory of this run that shows nowhere.
Held(p, t) == IF Reaches(Root) /\ t[p] # Absent THEN t[p] ELSE Own

\* n1, n2, their frr.conf and the topology, in order.  A node directory found
\* in place is adopted; a file found in place is an error.
MakeEntry ==
  /\ pc = "construct" /\ built \in 1..(Entries - 1)
  /\ LET p == ConstructionOrder[built + 1] IN
     \/ \E t \in Placed(p) :
          /\ tree' = t
          /\ opened' = IF p \in Dirs THEN [opened EXCEPT ![p] = Held(p, t)] ELSE opened
          /\ built' = built + 1
          /\ pc' = IF built + 1 = Entries THEN "bind" ELSE "construct"
          /\ UNCHANGED <<manifest, failure, ret>>
     \/ \E made \in {tree} \cup Placed(p) :
          \E t \in Cleanups(made, opened[Root], NoTree) : PrepareFails(t)
  /\ UNCHANGED <<state, deployAttempted, destroyAttempted, lab, inUp, seen,
                 deploys, destroys, raised>>

\* Re-read the whole tree, bind it as the manifest and mint the capability.
BindManifest ==
  /\ pc = "bind"
  /\ \/ /\ ManifestReadable(tree)
        /\ manifest' = tree
        /\ pc' = "check"
        /\ UNCHANGED <<tree, opened, built, failure, ret>>
     \/ \E t \in Cleanups(tree, opened[Root], NoTree) : PrepareFails(t)
  /\ UNCHANGED <<state, deployAttempted, destroyAttempted, lab, inUp, seen,
                 deploys, destroys, raised>>

(***************************************************************************)
(* up(), second part: validate, deploy, and clean up a failed deploy       *)
(***************************************************************************)
\* The validation may also fail on a system call, intact or not.
UpCheck ==
  /\ pc = "check"
  /\ \/ Intact(tree, manifest) /\ pc' = "deploy" /\ UNCHANGED <<failure, ret>>
     \/ failure' = "DEPLOY_FAILED" /\ Return("false")
  /\ UNCHANGED <<tree, opened, built, manifest, state, deployAttempted,
                 destroyAttempted, lab, inUp, seen, deploys, destroys, raised>>

\* What a deploy that reports failure, times out or is cut off leaves.
CutOffDeploys == IF lab = "none" THEN Labs ELSE Labs \ {"none"}

DeployCommand ==
  /\ pc = "deploy"
  /\ \/ /\ Intact(tree, manifest)
        /\ lab' = "up" /\ deploys' = Count(deploys)
        /\ deployAttempted' = TRUE
        /\ state' = "DEPLOYED"
        /\ Return("true")
        /\ UNCHANGED <<failure, inUp, raised>>
     \/ /\ \/ Intact(tree, manifest) /\ lab' \in CutOffDeploys /\ deploys' = Count(deploys)
           \/ UNCHANGED <<lab, deploys>>
        /\ deployAttempted' = TRUE
        /\ failure' = "DEPLOY_FAILED"
        /\ inUp' = TRUE /\ pc' = "down"
        /\ UNCHANGED <<state, ret, raised>>
     \/ /\ Intact(tree, manifest) /\ lab' \in CutOffDeploys /\ deploys' = Count(deploys)
        /\ Raise
        /\ UNCHANGED <<deployAttempted, state, failure, inUp>>
  /\ UNCHANGED <<tree, opened, built, manifest, destroyAttempted, seen, destroys>>

(***************************************************************************)
(* status(): probe n1, then n2, each on a validated tree                   *)
(***************************************************************************)
StatusRefused ==
  /\ pc = "idle" /\ state # "DEPLOYED"
  /\ Return("false")
  /\ UNCHANGED <<tree, opened, built, manifest, state, failure, deployAttempted,
                 destroyAttempted, lab, inUp, seen, deploys, destroys, raised>>

StatusBegins ==
  /\ pc = "idle" /\ state = "DEPLOYED"
  /\ pc' = "probe" /\ seen' = {}
  /\ UNCHANGED <<tree, opened, built, manifest, state, failure, deployAttempted,
                 destroyAttempted, lab, inUp, ret, deploys, destroys, raised>>

NextNode == IF "n1" \in seen THEN "n2" ELSE "n1"

ProbeNode ==
  /\ pc = "probe"
  /\ \/ /\ Intact(tree, manifest) /\ lab = "up"
        /\ seen' = seen \cup {NextNode}
        /\ IF NextNode = "n2" THEN state' = "VERIFIED" /\ Return("true")
                              ELSE UNCHANGED <<state, pc, ret>>
        /\ UNCHANGED <<failure, raised>>
     \/ failure' = "STATUS_FAILED" /\ Return("false") /\ UNCHANGED <<state, seen, raised>>
     \/ Intact(tree, manifest) /\ Raise /\ UNCHANGED <<state, failure, seen>>
  /\ UNCHANGED <<tree, opened, built, manifest, deployAttempted, destroyAttempted, lab,
                 inUp, deploys, destroys>>

(***************************************************************************)
(* down(): one destroy attempt per run, then the directory                 *)
(***************************************************************************)
\* Deviation: up() does not restore its own failure after a cleanup.
DownReturnsOwnFailure(r, f) ==
  /\ inUp' = FALSE
  /\ Return(IF inUp THEN "false" ELSE r)
  /\ failure' = f

\* down() ends: its caller gets r, or up() reports its own deploy failure.
DownReturns(r, f) ==
  /\ inUp' = FALSE
  /\ Return(IF inUp THEN "false" ELSE r)
  /\ failure' = IF inUp /\ r = "true" THEN "DEPLOY_FAILED" ELSE f

\* Deviations: a failed cleanup leaves the state alone; a directory that could
\* not be removed still counts as cleaned.
CleanupFailsQuietly(code) == UNCHANGED state /\ DownReturns("false", code)

CleanupToleratesDirectory(code) ==
  /\ state' = IF code = "LAB_ARTIFACT_CLEANUP_FAILED" THEN "CLEANED" ELSE "CLEANUP_FAILED"
  /\ DownReturns("false", code)

CleanupFails(code) == state' = "CLEANUP_FAILED" /\ DownReturns("false", code)

DownCalled ==
  /\ pc = "idle"
  /\ pc' = "down"
  /\ UNCHANGED <<tree, opened, built, manifest, state, failure, deployAttempted,
                 destroyAttempted, lab, inUp, ret, seen, deploys, destroys, raised>>

DownAlreadyCleaned ==
  /\ pc = "down" /\ state = "CLEANED"
  /\ DownReturns("true", failure)
  /\ UNCHANGED <<tree, opened, built, manifest, state, deployAttempted,
                 destroyAttempted, lab, seen, deploys, destroys, raised>>

DownRefused ==
  /\ pc = "down" /\ state # "CLEANED"
  /\ ~deployAttempted \/ destroyAttempted
  /\ DownReturns("false", failure)
  /\ UNCHANGED <<tree, opened, built, manifest, state, deployAttempted,
                 destroyAttempted, lab, seen, deploys, destroys, raised>>

\* Deviation: destroy_attempted is recorded but not consulted.
DownCheckRepeated ==
  /\ pc = "down" /\ state # "CLEANED" /\ deployAttempted
  /\ destroyAttempted' = TRUE
  /\ \/ Intact(tree, manifest) /\ pc' = "destroy" /\ UNCHANGED <<state, failure, inUp, ret>>
     \/ CleanupFails("CLEANUP_FAILED")
  /\ UNCHANGED <<tree, opened, built, manifest, deployAttempted, lab, seen, deploys,
                 destroys, raised>>

DownCheck ==
  /\ pc = "down" /\ state # "CLEANED" /\ deployAttempted /\ ~destroyAttempted
  /\ destroyAttempted' = TRUE
  /\ \/ Intact(tree, manifest) /\ pc' = "destroy" /\ UNCHANGED <<state, failure, inUp, ret>>
     \/ CleanupFails("CLEANUP_FAILED")
  /\ UNCHANGED <<tree, opened, built, manifest, deployAttempted, lab, seen, deploys,
                 destroys, raised>>

CutOffDestroys == IF lab = "none" THEN {"none"} ELSE {"none", "partial", lab}

\* Deviation: the directory is removed whatever the destroy command reports.
DestroyUnchecked ==
  /\ pc = "destroy" /\ Intact(tree, manifest)
  /\ lab' \in CutOffDestroys /\ destroys' = Count(destroys)
  /\ pc' = "remove"
  /\ UNCHANGED <<tree, opened, built, manifest, state, failure, deployAttempted, destroyAttempted,
                 inUp, ret, seen, deploys, raised>>

DestroyCommand ==
  /\ pc = "destroy"
  /\ \/ /\ Intact(tree, manifest) /\ lab' = "none" /\ destroys' = Count(destroys)
        /\ pc' = "remove"
        /\ UNCHANGED <<state, failure, inUp, ret, raised>>
     \/ /\ \/ Intact(tree, manifest) /\ lab' \in CutOffDestroys /\ destroys' = Count(destroys)
           \/ UNCHANGED <<lab, destroys>>
        /\ CleanupFails("CLEANUP_FAILED")
        /\ UNCHANGED raised
     \/ /\ Intact(tree, manifest) /\ lab' \in CutOffDestroys /\ destroys' = Count(destroys)
        /\ Raise /\ inUp' = FALSE
        /\ UNCHANGED <<state, failure>>
  /\ UNCHANGED <<tree, opened, built, manifest, deployAttempted, destroyAttempted, seen, deploys>>

RemoveArtifact ==
  /\ pc = "remove"
  /\ \E k \in RemovablePrefixes(tree, manifest[Root], manifest) :
       /\ tree' = WithoutFirst(tree, k)
       /\ IF k = Entries THEN state' = "CLEANED" /\ DownReturns("true", "none")
                         ELSE CleanupFails("LAB_ARTIFACT_CLEANUP_FAILED")
  /\ UNCHANGED <<opened, built, manifest, deployAttempted, destroyAttempted, lab, seen,
                 deploys, destroys, raised>>

RecoveryCommandAvailable == state = "CLEANUP_FAILED" /\ Intact(tree, manifest)

(***************************************************************************)
(* The environment                                                         *)
(***************************************************************************)
Interfere ==
  /\ interference < MaxInterference
  /\ tree' \in AlteredTrees(tree, interference + 2)
  /\ interference' = interference + 1
  /\ UNCHANGED <<opened, built, manifest, state, failure, deployAttempted, destroyAttempted,
                 lab, pc, inUp, ret, seen, deploys, destroys, raised>>

\* A node of a running lab stops by itself.
LabDegrades ==
  /\ lab = "up" /\ lab' = "partial"
  /\ UNCHANGED <<tree, opened, built, manifest, state, failure, deployAttempted,
                 destroyAttempted, pc, inUp, ret, seen, deploys, destroys, raised, interference>>

CallUp == UpRefused \/ UpAlreadyPrepared \/ UpPreflight
CallStatus == StatusRefused \/ StatusBegins

RunStep == MakeRoot \/ MakeEntry \/ BindManifest \/ UpCheck \/ DeployCommand \/ ProbeNode
             \/ DownAlreadyCleaned \/ DownRefused \/ DownCheck \/ DestroyCommand \/ RemoveArtifact

Environment == Interfere \/ LabDegrades

Next ==
  \/ (CallUp \/ CallStatus \/ DownCalled \/ RunStep) /\ UNCHANGED interference
  \/ Environment

\* Every method is straight-line code whose commands carry a timeout.
Fairness == WF_vars(RunStep /\ UNCHANGED interference)

Spec == Init /\ [][Next]_vars /\ Fairness
-----------------------------------------------------------------------------
(***************************************************************************)
(* Properties                                                              *)
(***************************************************************************)
Stamps == Unsafe..(MaxInterference + 1)

\* Every variable of the run keeps its type.
TypeOK ==
  /\ tree \in [Paths -> Stamps]
  /\ opened \in [{Root} \cup Dirs -> Stamps]
  /\ built \in 0..Entries
  /\ manifest \in [Paths -> Stamps]
  /\ state \in States
  /\ failure \in Failures
  /\ deployAttempted \in BOOLEAN
  /\ destroyAttempted \in BOOLEAN
  /\ lab \in Labs
  /\ pc \in Points
  /\ inUp \in BOOLEAN
  /\ ret \in Returns
  /\ seen \in SUBSET Dirs
  /\ deploys \in 0..2
  /\ destroys \in 0..2
  /\ raised \in BOOLEAN
  /\ interference \in 0..MaxInterference

\* CLEANED is a promise about the outside: the lab is gone and no object the
\* manifest bound is still at its path, whatever happened in between and
\* whatever the caller asks for afterwards.
CleanedMeansReleased ==
  state = "CLEANED" =>
    /\ lab = "none"
    /\ \A p \in {Root} \cup Layout : tree[p] # manifest[p]

\* One command of each kind per run: however the caller, a failed up() and the
\* cleanup of an earlier failure are interleaved, destroy runs at most once;
\* up() may be repeated after a refused preflight, a failed preparation or a
\* failed validation, but deploy runs at most once too (unless a command
\* raised, which leaves the run PREPARED: see NoSilentLab).
CommandsAtMostOnce == destroys <= 1 /\ (~raised => deploys <= 1)

\* While no call is in progress and no command has raised, a lab that exists
\* shows in the state: it is DEPLOYED, VERIFIED, or owed as CLEANUP_FAILED.
NoSilentLab ==
  pc = "idle" /\ ~raised /\ lab # "none" =>
    state \in {"DEPLOYED", "VERIFIED", "CLEANUP_FAILED"}

\* A lab that cleanup failed to destroy can still be destroyed by hand: unless
\* someone else touched the directory, the run has not damaged the artifact
\* that recovery_destroy_command needs.
LeakedLabIsRecoverable ==
  state = "CLEANUP_FAILED" /\ lab # "none" /\ interference = 0 => RecoveryCommandAvailable

\* A failure record that denies any resource mutation is right about the lab.
NoMutationMeansNoLab ==
  failure # "none" /\ ~ResourceMutation(failure) => lab = "none" /\ deploys = 0

\* What vouches for a removal.  Once the artifact is minted, an entry goes only
\* while the whole tree is what the manifest bound, even if it was changed
\* after the destroy command had validated it.  Before, nothing is compared
\* with what the run made: an entry goes by its name alone, so another
\* process's object under a name of the layout goes too.  What is promised
\* there is the place and the name: the directory at the path is the one this
\* run holds, and the name is one of the layout.
RemovalIsVouched ==
  interference' = interference =>
    \A p \in Paths : tree[p] # Absent /\ tree'[p] = Absent =>
      IF Minted THEN tree = manifest
                ELSE p \notin Strays /\ tree[Root] = opened[Root]

RemovalsVouched == [][RemovalIsVouched]_vars
=============================================================================
