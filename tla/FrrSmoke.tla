------------------------------ MODULE FrrSmoke ------------------------------
(***************************************************************************)
(* One FrrSmokeRun: the direct Docker smoke of the FRR image, its executor *)
(* that only inspects and removes the container it has registered, and the *)
(* Docker daemon.  A method is cut at each docker command; the caller is   *)
(* arbitrary.                                                              *)
(***************************************************************************)
EXTENDS Naturals

CONSTANT Foreign      \* containers of somebody else

Ours == "ours"        \* the container `docker run' creates for this run
NoId == "none"

ASSUME ForeignAssumption == Ours \notin Foreign /\ NoId \notin Foreign

Containers == {Ours} \cup Foreign

VARIABLES
  state,          \* FrrSmokeRun.state
  containerId,    \* FrrSmokeRun.container_id
  registered,     \* SubprocessDockerExecutor._container_id
  docker,         \* what the daemon holds
  pending,        \* a cut-off `docker run' may still create the container
  image,          \* what the cache holds under the pinned reference
  pc,             \* where the call in progress stands
  inStatus,       \* the cleanup runs on behalf of status()
  ret,            \* how the last call ended
  runs,           \* `docker run' commands started (counted up to 2)
  ups             \* up() calls accepted (counted up to 2)

vars == <<state, containerId, registered, docker, pending, image, pc, inStatus, ret, runs, ups>>

States == {"NEW", "CACHE_VERIFIED", "PULLED", "RUNNING", "INSPECTED", "CLEANING",
           "CLEANUP_FAILED", "CLEANED"}
Points == {"idle", "inspectImage", "pull", "verifyImage", "run", "statusInspect",
           "cleanup", "cleanupInspect", "remove"}
Returns == {"none", "PASS", "FAIL", "error", "raised"}
Count(n) == IF n < 2 THEN n + 1 ELSE 2

Init ==
  /\ state = "NEW"
  /\ containerId = NoId /\ registered = NoId
  /\ docker = [c \in Containers |-> IF c = Ours THEN "absent" ELSE "running"]
  /\ pending = FALSE
  /\ image \in {"absent", "match", "mismatch"}
  /\ pc = "idle" /\ inStatus = FALSE /\ ret = "none"
  /\ runs = 0 /\ ups = 0

Return(r) == pc' = "idle" /\ ret' = r

\* Any command may raise out of the executor (output that does not decode,
\* KeyboardInterrupt); the method ends where it stands.
Raise == pc' = "idle" /\ ret' = "raised" /\ inStatus' = FALSE

(***************************************************************************)
(* up()                                                                    *)
(***************************************************************************)
UpRefused ==
  /\ pc = "idle" /\ state # "NEW"
  /\ Return("error")
  /\ UNCHANGED <<state, containerId, registered, docker, pending, image, inStatus, runs, ups>>

UpBegins ==
  /\ pc = "idle" /\ state = "NEW"
  /\ pc' = "inspectImage" /\ ups' = Count(ups)
  /\ UNCHANGED <<state, containerId, registered, docker, pending, image, inStatus, ret, runs>>

InspectImage ==
  /\ pc = "inspectImage"
  /\ \/ image = "match" /\ state' = "CACHE_VERIFIED" /\ pc' = "run" /\ UNCHANGED <<inStatus, ret>>
     \/ pc' = "pull" /\ UNCHANGED <<state, inStatus, ret>>
     \/ Raise /\ UNCHANGED state
  /\ UNCHANGED <<containerId, registered, docker, pending, image, runs, ups>>

PullImage ==
  /\ pc = "pull"
  /\ image' \in {image, "match", "mismatch"}
  /\ \/ state' = "PULLED" /\ pc' = "verifyImage" /\ UNCHANGED <<inStatus, ret>>
     \/ Return("FAIL") /\ UNCHANGED <<state, inStatus>>
     \/ Raise /\ UNCHANGED state
  /\ UNCHANGED <<containerId, registered, docker, pending, runs, ups>>

VerifyImage ==
  /\ pc = "verifyImage"
  /\ \/ image = "match" /\ pc' = "run" /\ UNCHANGED <<inStatus, ret>>
     \/ Return("FAIL") /\ UNCHANGED inStatus
     \/ Raise
  /\ UNCHANGED <<state, containerId, registered, docker, pending, image, runs, ups>>

\* What `docker run' leaves: nothing, a container that exited, or a running one.
AfterRun == {[docker EXCEPT ![Ours] = s] : s \in {"absent", "exited", "running"}}

\* A command cut off before it printed an id may still take effect later.
RunWithoutId ==
  /\ docker' \in AfterRun
  /\ pending' \in {b \in BOOLEAN : b => docker'[Ours] = "absent"}
  /\ UNCHANGED <<containerId, registered>>

\* The id is retained even when the command failed or timed out.
RunWithId(c) ==
  /\ docker' \in {d \in AfterRun : d[Ours] # "absent"}
  /\ containerId' = c /\ registered' = c
  /\ UNCHANGED pending

\* Deviation: the state advances only when the command has returned.
DockerRunThenState ==
  /\ pc = "run"
  /\ runs' = Count(runs)
  /\ \/ \E c \in Containers : RunWithId(c) /\ (Return("PASS") \/ Return("FAIL"))
        /\ state' = "RUNNING" /\ UNCHANGED inStatus
     \/ RunWithoutId /\ Return("FAIL") /\ state' = "RUNNING" /\ UNCHANGED inStatus
     \/ RunWithoutId /\ Raise /\ UNCHANGED state
  /\ UNCHANGED <<image, ups>>

DockerRun ==
  /\ pc = "run"
  /\ state' = "RUNNING"
  /\ runs' = Count(runs)
  /\ \/ \E c \in Containers : RunWithId(c) /\ (Return("PASS") \/ Return("FAIL")) /\ UNCHANGED inStatus
     \/ RunWithoutId /\ Return("FAIL") /\ UNCHANGED inStatus
     \/ RunWithoutId /\ Raise
  /\ UNCHANGED <<image, ups>>

(***************************************************************************)
(* docker inspect of the retained id: it may fail; an answer tells the     *)
(* labels truthfully and, when well-formed, whether the process runs.      *)
(***************************************************************************)
Answered == registered = containerId /\ docker[containerId] # "absent"

\* Deviation: the labels are not compared.
OwnedByName == Answered

Owned == Answered /\ containerId = Ours

(***************************************************************************)
(* status()                                                                *)
(***************************************************************************)
StatusRefused ==
  /\ pc = "idle" /\ (state # "RUNNING" \/ containerId = NoId)
  /\ Return("error")
  /\ UNCHANGED <<state, containerId, registered, docker, pending, image, inStatus, runs, ups>>

StatusBegins ==
  /\ pc = "idle" /\ state = "RUNNING" /\ containerId # NoId
  /\ pc' = "statusInspect"
  /\ UNCHANGED <<state, containerId, registered, docker, pending, image, inStatus, ret, runs, ups>>

StatusInspect ==
  /\ pc = "statusInspect"
  /\ \/ /\ Owned /\ docker[containerId] = "running"
        /\ state' = "INSPECTED" /\ Return("PASS") /\ UNCHANGED inStatus
     \/ /\ Answered /\ ~Owned
        /\ state' = "CLEANUP_FAILED" /\ Return("FAIL") /\ UNCHANGED inStatus
     \/ /\ pc' = "cleanup" /\ inStatus' = TRUE
        /\ UNCHANGED <<state, ret>>
     \/ Raise /\ UNCHANGED state
  /\ UNCHANGED <<containerId, registered, docker, pending, image, runs, ups>>

(***************************************************************************)
(* _cleanup(), called by down() and by a failing status()                  *)
(***************************************************************************)
DownCalled ==
  /\ pc = "idle"
  /\ pc' = "cleanup"
  /\ UNCHANGED <<state, containerId, registered, docker, pending, image, inStatus, ret, runs, ups>>

CleanupReturns(s, r) ==
  /\ state' = s
  /\ inStatus' = FALSE
  /\ Return(IF inStatus THEN "FAIL" ELSE r)

CleanupNothing ==
  /\ pc = "cleanup"
  /\ \/ state = "CLEANED" /\ CleanupReturns("CLEANED", "PASS")
     \/ /\ state # "CLEANED" /\ containerId = NoId
        /\ IF state \in {"NEW", "CACHE_VERIFIED", "PULLED"}
           THEN CleanupReturns("CLEANED", "PASS")
           ELSE CleanupReturns("CLEANUP_FAILED", "FAIL")
  /\ UNCHANGED <<containerId, registered, docker, pending, image, runs, ups>>

CleanupBegins ==
  /\ pc = "cleanup" /\ state # "CLEANED" /\ containerId # NoId
  /\ state' = "CLEANING" /\ pc' = "cleanupInspect"
  /\ UNCHANGED <<containerId, registered, docker, pending, image, inStatus, ret, runs, ups>>

CleanupOwned ==
  /\ pc = "cleanupInspect" /\ Owned
  /\ pc' = "remove"
  /\ UNCHANGED <<state, containerId, registered, docker, pending, image, inStatus, ret, runs, ups>>

\* Deviation: a failed inspection forgets the container.
CleanupForgets ==
  /\ pc = "cleanupInspect"
  /\ CleanupReturns("CLEANUP_FAILED", "FAIL")
  /\ containerId' = NoId
  /\ UNCHANGED <<registered, docker, pending, image, runs, ups>>

CleanupUnproven ==
  /\ pc = "cleanupInspect"
  /\ \/ CleanupReturns("CLEANUP_FAILED", "FAIL")
     \/ Raise /\ UNCHANGED state
  /\ UNCHANGED <<containerId, registered, docker, pending, image, runs, ups>>

RemoveDone ==
  /\ pc = "remove" /\ registered = containerId
  /\ docker' = [docker EXCEPT ![containerId] = "absent"]
  /\ CleanupReturns("CLEANED", "PASS")
  /\ UNCHANGED <<containerId, registered, pending, image, runs, ups>>

\* A removal that fails, times out or is cut off may have removed it or not.
RemoveFails ==
  /\ pc = "remove"
  /\ docker' \in {docker, [docker EXCEPT ![containerId] = "absent"]}
  /\ \/ CleanupReturns("CLEANUP_FAILED", "FAIL")
     \/ Raise /\ UNCHANGED state
  /\ UNCHANGED <<containerId, registered, pending, image, runs, ups>>

(***************************************************************************)
(* The daemon and its other users                                          *)
(***************************************************************************)
LateCreation ==
  /\ pending
  /\ pending' = FALSE
  /\ docker' \in {d \in AfterRun : d[Ours] # "absent"}
  /\ UNCHANGED <<state, containerId, registered, image, pc, inStatus, ret, runs, ups>>

ContainerExits ==
  /\ \E c \in Containers : docker[c] = "running" /\ docker' = [docker EXCEPT ![c] = "exited"]
  /\ UNCHANGED <<state, containerId, registered, pending, image, pc, inStatus, ret, runs, ups>>

CallUp == UpRefused \/ UpBegins
RunStep == InspectImage \/ PullImage \/ VerifyImage \/ DockerRun \/ StatusInspect
             \/ CleanupNothing \/ CleanupBegins \/ CleanupOwned \/ CleanupUnproven
             \/ RemoveDone \/ RemoveFails

Next == CallUp \/ StatusRefused \/ StatusBegins \/ DownCalled \/ RunStep
          \/ LateCreation \/ ContainerExits

\* Every docker command carries a timeout, so a call in progress proceeds.
Fairness == WF_vars(RunStep)

Spec == Init /\ [][Next]_vars /\ Fairness
-----------------------------------------------------------------------------
\* Every variable keeps its type.
TypeOK ==
  /\ state \in States
  /\ containerId \in Containers \cup {NoId} /\ registered \in Containers \cup {NoId}
  /\ docker \in [Containers -> {"absent", "exited", "running"}]
  /\ pending \in BOOLEAN
  /\ image \in {"absent", "match", "mismatch"}
  /\ pc \in Points /\ inStatus \in BOOLEAN /\ ret \in Returns
  /\ runs \in 0..2 /\ ups \in 0..2

\* CLEANED is a promise about the daemon: the run's container does not exist
\* and no cut-off `docker run' can still create it.
CleanedMeansNoContainer == state = "CLEANED" => docker[Ours] = "absent" /\ ~pending

\* However often up() is tried, one run starts at most one container.
RunAtMostOnce == runs <= 1

\* A PASS of status() is about the run's own container.
InspectedMeansOurs == state = "INSPECTED" => containerId = Ours

\* Somebody else's container is never removed, whatever id the run holds.
ForeignSurvives ==
  [][\A c \in Foreign : docker[c] # "absent" => docker'[c] # "absent"]_vars

=============================================================================
