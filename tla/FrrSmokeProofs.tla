-------------------------- MODULE FrrSmokeProofs --------------------------
(***************************************************************************)
(* Theorems about one FRR smoke run, for any set of other containers, any  *)
(* order of calls and any outcome of the docker commands, and about the    *)
(* command that drives one or two of them.                                 *)
(***************************************************************************)
EXTENDS FrrCommand, TLAPS

BeforeRun == {"NEW", "CACHE_VERIFIED", "PULLED"}

\* Where a call can stand, given the state and the retained id.
CallInv ==
  /\ registered = containerId
  /\ pc \in {"inspectImage", "pull"} => state = "NEW"
  /\ pc \in {"verifyImage", "run"} => state \in {"CACHE_VERIFIED", "PULLED"}
  /\ pc = "statusInspect" => state = "RUNNING" /\ containerId # NoId
  /\ pc \in {"cleanupInspect", "remove"} => state = "CLEANING" /\ containerId # NoId
  /\ pc = "remove" => containerId = Ours

\* Before docker run there is no container and no id; the id, once known,
\* rules out that the container is still to come.
ContainerInv ==
  /\ state \in BeforeRun => runs = 0 /\ containerId = NoId /\ ~pending /\ docker[Ours] = "absent"
  /\ runs <= 1
  /\ containerId # NoId => ~pending
  /\ state = "CLEANED" => docker[Ours] = "absent" /\ ~pending
  /\ state = "INSPECTED" => containerId = Ours

IInv == TypeOK /\ CallInv /\ ContainerInv
-----------------------------------------------------------------------------
LEMMA InitIInv == Init => IInv
<1> SUFFICES ASSUME Init  PROVE IInv
  OBVIOUS
<1>1. TypeOK
  <2>1. docker \in [Containers -> {"absent", "exited", "running"}]
    BY DEF Init
  <2>2. containerId \in Containers \cup {NoId} /\ registered \in Containers \cup {NoId}
    BY DEF Init
  <2>3. image \in {"absent", "match", "mismatch"} /\ pending \in BOOLEAN
    BY DEF Init
  <2>4. state \in States /\ pc \in Points /\ ret \in Returns /\ inStatus \in BOOLEAN
    <3>1. state = "NEW" /\ pc = "idle" /\ ret = "none" /\ inStatus = FALSE
      BY DEF Init
    <3> QED  BY <3>1 DEF States, Points, Returns
  <2>5. runs \in 0..2 /\ ups \in 0..2
    BY DEF Init
  <2> QED  BY <2>1, <2>2, <2>3, <2>4, <2>5 DEF TypeOK
<1>2. CallInv /\ ContainerInv
  BY DEF Init, CallInv, ContainerInv, BeforeRun, Containers
<1> QED  BY <1>1, <1>2 DEF IInv

\* up() until docker run, and the calls that are refused or only begin.
LEMMA QuietSteps ==
  ASSUME IInv,
         \/ UpRefused \/ UpBegins \/ InspectImage \/ PullImage \/ VerifyImage
         \/ StatusRefused \/ StatusBegins \/ DownCalled
         \/ CleanupBegins \/ CleanupOwned \/ CleanupUnproven
  PROVE  IInv'
<1> USE ForeignAssumption DEF Return, Raise
<1>1. CASE UpRefused \/ UpBegins
  <2>1. TypeOK'  BY <1>1 DEF UpRefused, UpBegins, Count, IInv, TypeOK, Points, Returns
  <2>2. CallInv'  BY <1>1 DEF UpRefused, UpBegins, IInv, CallInv
  <2>3. ContainerInv'  BY <1>1 DEF UpRefused, UpBegins, IInv, ContainerInv
  <2> QED  BY <2>1, <2>2, <2>3 DEF IInv
<1>2. CASE InspectImage
  <2>1. TypeOK'  BY <1>2 DEF InspectImage, IInv, TypeOK, States, Points, Returns
  <2>2. CallInv'  BY <1>2 DEF InspectImage, IInv, CallInv
  <2>3. ContainerInv'  BY <1>2 DEF InspectImage, IInv, CallInv, ContainerInv, BeforeRun
  <2> QED  BY <2>1, <2>2, <2>3 DEF IInv
<1>3. CASE PullImage
  <2>1. TypeOK'  BY <1>3 DEF PullImage, IInv, TypeOK, States, Points, Returns
  <2>2. CallInv'  BY <1>3 DEF PullImage, IInv, CallInv
  <2>3. ContainerInv'  BY <1>3 DEF PullImage, IInv, CallInv, ContainerInv, BeforeRun
  <2> QED  BY <2>1, <2>2, <2>3 DEF IInv
<1>4. CASE VerifyImage
  <2>1. TypeOK'  BY <1>4 DEF VerifyImage, IInv, TypeOK, Points, Returns
  <2>2. CallInv'  BY <1>4 DEF VerifyImage, IInv, CallInv
  <2>3. ContainerInv'  BY <1>4 DEF VerifyImage, IInv, ContainerInv
  <2> QED  BY <2>1, <2>2, <2>3 DEF IInv
<1>5. CASE StatusRefused \/ StatusBegins \/ DownCalled
  <2>1. TypeOK'  BY <1>5 DEF StatusRefused, StatusBegins, DownCalled, IInv, TypeOK, Points, Returns
  <2>2. CallInv'  BY <1>5 DEF StatusRefused, StatusBegins, DownCalled, IInv, CallInv
  <2>3. ContainerInv'  BY <1>5 DEF StatusRefused, StatusBegins, DownCalled, IInv, ContainerInv
  <2> QED  BY <2>1, <2>2, <2>3 DEF IInv
<1>6. CASE CleanupBegins \/ CleanupOwned
  <2>1. TypeOK'  BY <1>6 DEF CleanupBegins, CleanupOwned, IInv, TypeOK, States, Points
  <2>2. CallInv'  BY <1>6 DEF CleanupBegins, CleanupOwned, Owned, IInv, CallInv
  <2>3. ContainerInv'  BY <1>6 DEF CleanupBegins, CleanupOwned, IInv, ContainerInv, BeforeRun
  <2> QED  BY <2>1, <2>2, <2>3 DEF IInv
<1>7. CASE CleanupUnproven
  <2>1. TypeOK'  BY <1>7 DEF CleanupUnproven, CleanupReturns, IInv, TypeOK, States, Points, Returns
  <2>2. CallInv'  BY <1>7 DEF CleanupUnproven, CleanupReturns, IInv, CallInv
  <2>3. ContainerInv'
    BY <1>7 DEF CleanupUnproven, CleanupReturns, IInv, CallInv, ContainerInv, BeforeRun
  <2> QED  BY <2>1, <2>2, <2>3 DEF IInv
<1> QED  BY <1>1, <1>2, <1>3, <1>4, <1>5, <1>6, <1>7

\* docker run starts from a state without container and leaves it for good.
LEMMA DockerRunStep == IInv /\ DockerRun => IInv'
<1> SUFFICES ASSUME IInv, DockerRun  PROVE IInv'
  OBVIOUS
<1>1. state' = "RUNNING" /\ pc' = "idle" /\ ret' \in Returns /\ inStatus' \in BOOLEAN
  BY DEF DockerRun, Return, Raise, Returns, IInv, TypeOK
<1>2. \/ RunWithoutId
      \/ \E c \in Containers : RunWithId(c)
  BY DEF DockerRun
<1>3. docker' \in [Containers -> {"absent", "exited", "running"}]
  BY <1>2 DEF RunWithoutId, RunWithId, AfterRun, IInv, TypeOK
<1>4. runs = 0 /\ runs' = 1 /\ containerId = NoId /\ ~pending
  BY DEF DockerRun, Count, IInv, CallInv, ContainerInv, BeforeRun
<1>5. /\ containerId' \in Containers \cup {NoId} /\ registered' = containerId'
      /\ pending' \in BOOLEAN /\ (containerId' # NoId => ~pending')
  <2>1. CASE RunWithoutId
    <3>1. containerId' = NoId /\ registered' = NoId
      BY <2>1, <1>4 DEF RunWithoutId, IInv, CallInv
    <3>2. pending' \in BOOLEAN
      BY <2>1 DEF RunWithoutId
    <3> QED  BY <3>1, <3>2
  <2>2. ASSUME NEW c \in Containers, RunWithId(c)
        PROVE  /\ containerId' \in Containers \cup {NoId} /\ registered' = containerId'
               /\ pending' \in BOOLEAN /\ ~pending'
    <3>1. containerId' = c /\ registered' = c /\ pending' = pending
      BY <2>2 DEF RunWithId
    <3> QED  BY <3>1, <1>4 DEF IInv, TypeOK
  <2> QED  BY <1>2, <2>1, <2>2
<1>6. TypeOK'
  BY <1>1, <1>3, <1>4, <1>5 DEF DockerRun, IInv, TypeOK, States, Points
<1>7. CallInv'
  BY <1>1, <1>5 DEF CallInv
<1>8. ContainerInv'
  BY <1>1, <1>4, <1>5 DEF ContainerInv, BeforeRun
<1> QED  BY <1>6, <1>7, <1>8 DEF IInv

\* A PASS of status() has compared the labels.
LEMMA StatusInspectStep == IInv /\ StatusInspect => IInv'
<1> SUFFICES ASSUME IInv, StatusInspect  PROVE IInv'
  OBVIOUS
<1> USE DEF Return, Raise
<1>1. TypeOK'
  BY DEF StatusInspect, IInv, TypeOK, States, Points, Returns
<1>2. CallInv'
  BY DEF StatusInspect, IInv, CallInv
<1>3. ContainerInv'
  BY DEF StatusInspect, Owned, IInv, CallInv, ContainerInv, BeforeRun
<1> QED  BY <1>1, <1>2, <1>3 DEF IInv

\* The ends of a cleanup.
LEMMA CleanupEnds ==
  ASSUME IInv, CleanupNothing \/ RemoveDone \/ RemoveFails
  PROVE  IInv'
<1> USE DEF CleanupReturns, Return, Raise
<1>1. CASE CleanupNothing
  <2>1. TypeOK'  BY <1>1 DEF CleanupNothing, IInv, TypeOK, States, Points, Returns
  <2>2. CallInv'  BY <1>1 DEF CleanupNothing, IInv, CallInv
  <2>3. ContainerInv'  BY <1>1 DEF CleanupNothing, IInv, ContainerInv, BeforeRun
  <2> QED  BY <2>1, <2>2, <2>3 DEF IInv
<1>2. CASE RemoveDone
  <2>1. TypeOK'  BY <1>2 DEF RemoveDone, IInv, TypeOK, States, Points, Returns
  <2>2. CallInv'  BY <1>2 DEF RemoveDone, IInv, CallInv
  <2>3. ContainerInv'
    <3>1. containerId = Ours /\ ~pending /\ Ours \in Containers
      BY <1>2 DEF RemoveDone, IInv, CallInv, ContainerInv, Containers
    <3>2. docker'[Ours] = "absent" /\ ~pending' /\ state' = "CLEANED"
      BY <1>2, <3>1 DEF RemoveDone, IInv, TypeOK
    <3> QED  BY <1>2, <3>1, <3>2 DEF RemoveDone, IInv, ContainerInv, BeforeRun
  <2> QED  BY <2>1, <2>2, <2>3 DEF IInv
<1>3. CASE RemoveFails
  <2>1. TypeOK'  BY <1>3 DEF RemoveFails, IInv, TypeOK, States, Points, Returns
  <2>2. CallInv'  BY <1>3 DEF RemoveFails, IInv, CallInv
  <2>3. ContainerInv'  BY <1>3 DEF RemoveFails, IInv, CallInv, ContainerInv, BeforeRun
  <2> QED  BY <2>1, <2>2, <2>3 DEF IInv
<1> QED  BY <1>1, <1>2, <1>3

\* The daemon: a container comes late only while one is pending.
LEMMA DaemonSteps ==
  ASSUME IInv, LateCreation \/ ContainerExits
  PROVE  IInv'
<1>1. CASE LateCreation
  <2>1. TypeOK'  BY <1>1 DEF LateCreation, AfterRun, IInv, TypeOK
  <2>2. CallInv'  BY <1>1 DEF LateCreation, IInv, CallInv
  <2>3. ContainerInv'  BY <1>1 DEF LateCreation, IInv, ContainerInv
  <2> QED  BY <2>1, <2>2, <2>3 DEF IInv
<1>2. CASE ContainerExits
  <2>1. TypeOK'  BY <1>2 DEF ContainerExits, IInv, TypeOK
  <2>2. CallInv'  BY <1>2 DEF ContainerExits, IInv, CallInv
  <2>3. ContainerInv'
    <3>1. docker[Ours] = "absent" => docker'[Ours] = "absent"
      BY <1>2 DEF ContainerExits, IInv, TypeOK, Containers
    <3> QED  BY <1>2, <3>1 DEF ContainerExits, IInv, ContainerInv
  <2> QED  BY <2>1, <2>2, <2>3 DEF IInv
<1> QED  BY <1>1, <1>2

LEMMA NextIInv == IInv /\ [Next]_vars => IInv'
<1>1. ASSUME IInv, UNCHANGED vars  PROVE IInv'
  BY <1>1 DEF vars, IInv, TypeOK, CallInv, ContainerInv
<1> QED
  BY <1>1, QuietSteps, DockerRunStep, StatusInspectStep, CleanupEnds, DaemonSteps
  DEF Next, CallUp, RunStep

\* The inductive invariant holds in every behaviour.
THEOREM Invariance == Spec => []IInv
  BY InitIInv, NextIInv, PTL DEF Spec

(***************************************************************************)
(* The properties                                                          *)
(***************************************************************************)
\* Every variable keeps its type.
THEOREM TypeCorrect == Spec => []TypeOK
<1>1. IInv => TypeOK
  BY DEF IInv
<1> QED  BY <1>1, Invariance, PTL

\* A CLEANED run has no container, and none will come.
THEOREM CleanedIsGone == Spec => []CleanedMeansNoContainer
<1>1. IInv => CleanedMeansNoContainer
  BY DEF IInv, ContainerInv, CleanedMeansNoContainer
<1> QED  BY <1>1, Invariance, PTL

\* One run starts at most one container.
THEOREM RunsOnce == Spec => []RunAtMostOnce
<1>1. IInv => RunAtMostOnce
  BY DEF IInv, ContainerInv, RunAtMostOnce
<1> QED  BY <1>1, Invariance, PTL

\* A run that was inspected holds the id of its own container.
THEOREM InspectsOurs == Spec => []InspectedMeansOurs
<1>1. IInv => InspectedMeansOurs
  BY DEF IInv, ContainerInv, InspectedMeansOurs
<1> QED  BY <1>1, Invariance, PTL

ForeignStay == \A c \in Foreign : docker[c] # "absent" => docker'[c] # "absent"

\* No step of a run removes somebody else's container.
LEMMA StepsSpareForeign ==
  ASSUME IInv, Next
  PROVE  ForeignStay
<1> SUFFICES ASSUME NEW c \in Foreign, docker[c] # "absent"
             PROVE  docker'[c] # "absent"
  BY DEF ForeignStay
<1>1. c \in Containers /\ c # Ours
  BY ForeignAssumption DEF Containers
<1>2. CASE docker' \in AfterRun
  <2>1. PICK s \in {"absent", "exited", "running"} : docker' = [docker EXCEPT ![Ours] = s]
    BY <1>2 DEF AfterRun
  <2> QED  BY <1>1, <2>1 DEF IInv, TypeOK
<1>3. CASE RemoveDone \/ RemoveFails
  <2>1. containerId = Ours
    BY <1>3 DEF RemoveDone, RemoveFails, IInv, CallInv
  <2>2. docker' \in {docker, [docker EXCEPT ![Ours] = "absent"]}
    BY <1>3, <2>1 DEF RemoveDone, RemoveFails
  <2> QED  BY <1>1, <2>2 DEF IInv, TypeOK
<1>4. CASE ContainerExits
  BY <1>1, <1>4 DEF ContainerExits, IInv, TypeOK
<1>5. CASE docker' = docker
  BY <1>5
<1>6. DockerRun \/ LateCreation => docker' \in AfterRun
  BY DEF DockerRun, LateCreation, RunWithId, RunWithoutId
<1>7. \/ DockerRun \/ LateCreation \/ RemoveDone \/ RemoveFails \/ ContainerExits
      \/ docker' = docker
  BY DEF Next, CallUp, RunStep, UpRefused, UpBegins, InspectImage, PullImage, VerifyImage,
       StatusRefused, StatusBegins, DownCalled, StatusInspect, CleanupNothing, CleanupBegins,
       CleanupOwned, CleanupUnproven
<1> QED  BY <1>2, <1>3, <1>4, <1>5, <1>6, <1>7

\* No step removes somebody else's container.
THEOREM ForeignStays == Spec => ForeignSurvives
<1>1. IInv /\ [Next]_vars => [ForeignStay]_vars
  BY StepsSpareForeign
<1> QED  BY <1>1, Invariance, PTL DEF Spec, ForeignSurvives, ForeignStay

-----------------------------------------------------------------------------
(***************************************************************************)
(* The command                                                             *)
(***************************************************************************)
\* Between two calls the run is idle, an earlier iteration has left nothing,
\* and status 0 was given to a last iteration that ended CLEANED.
CommandInv ==
  /\ cli \in {"up", "status", "down", "record", "done"} => pc = "idle"
  /\ left = FALSE
  /\ exit = "0" => cli = "done" /\ results = Repeat /\ state = "CLEANED"

CIInv == IInv /\ CommandInv

LEMMA InitCIInv == CommandInit => CIInv
BY InitIInv DEF CommandInit, CIInv, CommandInv, Init

\* A step of the command is a step of the run, leaves the run alone, or puts a
\* new run in its place.
LEMMA CommandStepsRun ==
  ASSUME CommandNext
  PROVE  Next \/ UNCHANGED vars \/ CliNextIteration
BY DEF CommandNext, CliStep, CliUp, CliStatus, CliDown, Call, CliUpEnds, CliStatusEnds, CliDownEnds,
   CliEscapes, CliExits, OtherCalls, RunContinues, Daemon, Done, commandVars, Next

LEMMA FreshRunIInv ==
  ASSUME IInv, FreshRun, UNCHANGED image
  PROVE  IInv'
<1>1. TypeOK'
  <2>1. docker' \in [Containers -> {"absent", "exited", "running"}]
    BY DEF FreshRun, IInv, TypeOK
  <2>2. pending' \in BOOLEAN /\ inStatus' \in BOOLEAN
    BY DEF FreshRun
  <2>3. runs' \in 0..2 /\ ups' \in 0..2
    BY DEF FreshRun
  <2> QED  BY <2>1, <2>2, <2>3 DEF FreshRun, IInv, TypeOK, States, Points, Returns
<1>2. docker'[Ours] = "absent"
  BY DEF FreshRun, IInv, TypeOK, Containers
<1>3. CallInv' /\ ContainerInv'
  BY <1>2 DEF FreshRun, CallInv, ContainerInv, BeforeRun
<1> QED  BY <1>1, <1>3 DEF IInv

LEMMA CommandKeepsRun ==
  ASSUME IInv, [CommandNext]_commandVars
  PROVE  IInv'
<1>1. CASE CliNextIteration
  BY <1>1, FreshRunIInv DEF CliNextIteration
<1>2. CASE [Next]_vars
  BY <1>2, NextIInv
<1> QED  BY <1>1, <1>2, CommandStepsRun DEF commandVars

\* RunStep and the daemon, while no call is in progress.
LEMMA IdleRunStands ==
  ASSUME pc = "idle"
  PROVE  ~RunStep
BY DEF RunStep, InspectImage, PullImage, VerifyImage, DockerRun, StatusInspect, CleanupNothing,
   CleanupBegins, CleanupOwned, CleanupUnproven, RemoveDone, RemoveFails

LEMMA CommandKeepsOwn ==
  ASSUME CIInv, [CommandNext]_commandVars
  PROVE  CommandInv'
<1> USE DEF CIInv, CommandInv
<1>1. CASE CliUp \/ CliStatus \/ CliDown
  BY <1>1 DEF CliUp, CliStatus, CliDown, Call
<1>2. CASE CliUpEnds \/ CliStatusEnds \/ CliDownEnds
  BY <1>2 DEF CliUpEnds, CliStatusEnds, CliDownEnds, vars
<1>3. CASE CliEscapes
  BY <1>3 DEF CliEscapes, vars
<1>4. CASE CliExits
  BY <1>4 DEF CliExits, Succeeded, vars
<1>5. CASE CliNextIteration
  BY <1>5 DEF CliNextIteration, FreshRun, Succeeded, Remains, IInv, ContainerInv
<1>6. CASE OtherCalls
  BY <1>6 DEF OtherCalls, cliVars
<1>7. CASE RunContinues
  BY <1>7, IdleRunStands DEF RunContinues, cliVars
<1>8. CASE Daemon
  BY <1>8 DEF Daemon, LateCreation, ContainerExits, cliVars
<1>9. CASE UNCHANGED commandVars
  BY <1>9 DEF commandVars, cliVars, vars
<1> QED
  BY <1>1, <1>2, <1>3, <1>4, <1>5, <1>6, <1>7, <1>8, <1>9 DEF CommandNext, CliStep, Done

THEOREM CommandInvariance == CommandSpec => []CIInv
<1>1. CIInv /\ [CommandNext]_commandVars => CIInv'
  BY CommandKeepsRun, CommandKeepsOwn DEF CIInv
<1> QED  BY <1>1, InitCIInv, PTL DEF CommandSpec

\* Under the command too, a CLEANED run has no container and none will come.
THEOREM CommandCleanedIsGone == CommandSpec => []CleanedMeansNoContainer
<1>1. CIInv => CleanedMeansNoContainer
  BY DEF CIInv, IInv, ContainerInv, CleanedMeansNoContainer
<1> QED  BY <1>1, CommandInvariance, PTL

\* Exit status 0 of `lab frr-smoke' is given only when every iteration ran and
\* none of their containers exists or may still be created.
THEOREM ExitZeroIsClean == CommandSpec => []ExitZeroLeavesNoContainer
<1>1. CIInv => ExitZeroLeavesNoContainer
  BY DEF CIInv, CommandInv, IInv, ContainerInv, ExitZeroLeavesNoContainer, Remains
<1> QED  BY <1>1, CommandInvariance, PTL

\* No step of the command removes somebody else's container.
THEOREM CommandSparesForeign == CommandSpec => ForeignSurvives
<1>1. CIInv /\ [CommandNext]_commandVars => [ForeignStay]_vars
  <2> SUFFICES ASSUME IInv, CommandNext, ~UNCHANGED vars  PROVE ForeignStay
    BY DEF CIInv, commandVars
  <2>1. CASE CliNextIteration
    BY <2>1, ForeignAssumption DEF CliNextIteration, FreshRun, IInv, TypeOK, Containers, ForeignStay
  <2> QED  BY <2>1, StepsSpareForeign, CommandStepsRun
<1> QED  BY <1>1, CommandInvariance, PTL DEF CommandSpec, ForeignSurvives, ForeignStay

-----------------------------------------------------------------------------
(***************************************************************************)
(* What the command leaves, and that it advances                           *)
(***************************************************************************)
CliPoints ==
  {"up", "upped", "status", "statused", "down", "downed", "record", "done", "off"}

\* A run whose down() has returned is CLEANED or CLEANUP_FAILED; the only way
\* around it is an exception, and that is remembered.
CleanupAnswered == state \in {"CLEANED", "CLEANUP_FAILED"}

SettledInv ==
  /\ cli \in CliPoints
  /\ cli = "downed" =>
       /\ pc \in {"idle", "cleanup", "cleanupInspect", "remove"}
       /\ pc = "idle" => CleanupAnswered \/ ret = "raised"
  /\ cli \in {"record", "done"} => CleanupAnswered \/ lifecycleError \/ escaping
  /\ cli = "done" /\ escaping => exit = "exception"

LEMMA CommandKeepsSettled ==
  ASSUME CIInv, SettledInv, [CommandNext]_commandVars
  PROVE  SettledInv'
<1> USE DEF SettledInv, CliPoints, CleanupAnswered
<1>1. CASE CliUp
  BY <1>1 DEF CliUp, Call
<1>2. CASE CliStatus
  BY <1>2 DEF CliStatus, Call
<1>3. CASE CliDown
  BY <1>3 DEF CliDown, Call, DownCalled
<1>4. CASE CliUpEnds \/ CliStatusEnds
  <2>1. cli' \in {"status", "down"}  BY <1>4 DEF CliUpEnds, CliStatusEnds
  <2> QED  BY <2>1
<1>5. CASE CliDownEnds
  <2>1. cli = "downed" /\ pc = "idle" /\ cli' = "record" /\ state' = state
    BY <1>5 DEF CliDownEnds, vars
  <2>2. CASE state \in {"CLEANED", "CLEANUP_FAILED"}
    BY <2>1, <2>2
  <2>3. CASE ret = "raised"
    <3>1. Answer = "none"  BY <2>3 DEF Answer
    <3>2. lifecycleError' \/ escaping'  BY <1>5, <3>1 DEF CliDownEnds, Swallows
    <3> QED  BY <2>1, <3>2
  <2> QED  BY <2>1, <2>2, <2>3
<1>6. CASE CliEscapes \/ CliExits
  BY <1>6 DEF CliEscapes, CliExits, vars
<1>7. CASE CliNextIteration
  BY <1>7 DEF CliNextIteration
<1>8. CASE OtherCalls
  BY <1>8 DEF OtherCalls, cliVars
<1>9. CASE RunContinues
  <2>1. UNCHANGED cliVars /\ pc # "idle"
    BY <1>9, IdleRunStands DEF RunContinues
  <2>2. cli \in {"upped", "statused", "downed", "off"}
    BY <2>1 DEF CIInv, CommandInv
  <2>3. CASE cli # "downed"
    BY <2>1, <2>2, <2>3 DEF cliVars
  <2>4. CASE cli = "downed"
    <3>1. CleanupNothing \/ CleanupBegins \/ CleanupOwned \/ CleanupUnproven \/ RemoveDone \/ RemoveFails
      BY <1>9, <2>1, <2>4 DEF RunContinues, RunStep, InspectImage, PullImage, VerifyImage,
         DockerRun, StatusInspect
    <3>2. /\ pc' \in {"idle", "cleanup", "cleanupInspect", "remove"}
          /\ pc' = "idle" => state' \in {"CLEANED", "CLEANUP_FAILED"} \/ ret' = "raised"
      BY <3>1 DEF CleanupNothing, CleanupBegins, CleanupOwned, CleanupUnproven, RemoveDone,
         RemoveFails, CleanupReturns, Return, Raise
    <3> QED  BY <2>1, <2>4, <3>2 DEF cliVars
  <2> QED  BY <2>3, <2>4
<1>10. CASE Daemon
  BY <1>10 DEF Daemon, LateCreation, ContainerExits, cliVars
<1>11. CASE UNCHANGED commandVars
  BY <1>11 DEF commandVars, cliVars, vars
<1> QED
  BY <1>1, <1>2, <1>3, <1>4, <1>5, <1>6, <1>7, <1>8, <1>9, <1>10, <1>11
  DEF CommandNext, CliStep, Done

LEMMA CommandSettled == CommandSpec => []SettledInv
<1>1. CommandInit => SettledInv
  BY DEF CommandInit, SettledInv, CliPoints
<1>2. CIInv /\ SettledInv /\ [CommandNext]_commandVars => SettledInv'
  BY CommandKeepsSettled
<1> QED  BY <1>1, <1>2, CommandInvariance, PTL DEF CommandSpec

\* When the command has ended, the last run's container does not exist and cannot
\* be created any more, is owed by a run that says CLEANUP_FAILED, or an
\* exception was recorded or told the caller.
SettledAtTheEnd ==
  cli = "done" => ~Remains \/ state = "CLEANUP_FAILED" \/ lifecycleError \/ exit = "exception"

\* The command never ends in silence over a container, not even over one that
\* a cut-off `docker run' will only create later.
THEOREM EndIsSettled == CommandSpec => []SettledAtTheEnd
<1>1. CIInv /\ SettledInv => SettledAtTheEnd
  BY DEF CIInv, IInv, ContainerInv, SettledInv, CleanupAnswered, SettledAtTheEnd, Remains
<1> QED  BY <1>1, CommandInvariance, CommandSettled, PTL

\* The loop records at most Repeat iterations, and goes on only below that.
ResultsInv == results \in 0..Repeat /\ (cli # "done" => results < Repeat)

LEMMA ResultsBounded == CommandSpec => []ResultsInv
<1>1. CommandInit => ResultsInv
  BY RepeatAssumption DEF CommandInit, ResultsInv
<1>2. ResultsInv /\ [CommandNext]_commandVars => ResultsInv'
  <2> SUFFICES ASSUME ResultsInv, [CommandNext]_commandVars
               PROVE  ResultsInv'
    OBVIOUS
  <2>1. CASE CliNextIteration \/ CliExits
    <3>1. results < Repeat /\ results' = results + 1 /\ (cli' = "done" \/ results + 1 < Repeat)
      BY <2>1 DEF ResultsInv, CliNextIteration, CliExits
    <3> QED  BY <3>1, RepeatAssumption DEF ResultsInv
  <2>2. CASE ~CliNextIteration /\ ~CliExits
    <3>1. results' = results /\ (cli' # "done" => cli # "done")
      BY <2>2 DEF CommandNext, CliStep, OtherCalls, RunContinues, Daemon, Done, Call, CliUp,
         CliUpEnds, CliStatus, CliStatusEnds, CliDown, CliDownEnds, CliEscapes, commandVars, cliVars
    <3> QED  BY <3>1 DEF ResultsInv
  <2> QED  BY <2>1, <2>2
<1> QED  BY <1>1, <1>2, PTL DEF CommandSpec

\* How many docker commands a method in progress may still give, at most.
RunLeft ==
  CASE pc = "idle" -> 0
    [] pc \in {"run", "remove"} -> 1
    [] pc \in {"verifyImage", "cleanupInspect"} -> 2
    [] pc \in {"pull", "cleanup"} -> 3
    [] pc \in {"inspectImage", "statusInspect"} -> 4

\* The statements left, each with room for the method it calls.
CliLeft ==
  CASE cli = "up" -> 7 [] cli = "upped" -> 6 [] cli = "status" -> 5 [] cli = "statused" -> 4
    [] cli = "down" -> 3 [] cli = "downed" -> 2 [] cli = "record" -> 1 [] cli = "done" -> 0

CommandLeft == 80 * (Repeat - results) + 10 * CliLeft + RunLeft

\* Every step of a method brings its end nearer, whatever docker answers.
LEMMA RunStepAdvances ==
  ASSUME RunStep
  PROVE  RunLeft' < RunLeft
<1> USE DEF RunLeft, Return, Raise, CleanupReturns
<1>1. CASE InspectImage \/ PullImage \/ VerifyImage
  BY <1>1 DEF InspectImage, PullImage, VerifyImage
<1>2. CASE DockerRun
  <2>1. pc = "run" /\ pc' = "idle"  BY <1>2 DEF DockerRun
  <2> QED  BY <2>1
<1>3. CASE StatusInspect
  BY <1>3 DEF StatusInspect
<1>4. CASE CleanupNothing \/ CleanupBegins \/ CleanupOwned \/ CleanupUnproven
  BY <1>4 DEF CleanupNothing, CleanupBegins, CleanupOwned, CleanupUnproven
<1>5. CASE RemoveDone \/ RemoveFails
  <2>1. pc = "remove" /\ pc' = "idle"  BY <1>5 DEF RemoveDone, RemoveFails
  <2> QED  BY <2>1
<1> QED  BY <1>1, <1>2, <1>3, <1>4, <1>5 DEF RunStep

\* The command spends a natural number: each of its steps and each step of the
\* method it waits for takes some of it, and the daemon gives none back.
CommandAdvances ==
  /\ cli # "off" /\ (CliStep \/ RunContinues) => CommandLeft' \in Nat /\ CommandLeft' < CommandLeft
  /\ Daemon => CommandLeft' = CommandLeft

LEMMA StepsAdvanceCommand ==
  ASSUME CIInv, CIInv', SettledInv, SettledInv', ResultsInv, ResultsInv',
         cli # "off", CliStep \/ RunContinues
  PROVE  CommandLeft' \in Nat /\ CommandLeft' < CommandLeft
<1>1. RunLeft \in 0..4 /\ RunLeft' \in 0..4
  <2>1. pc \in Points /\ pc' \in Points  BY DEF CIInv, IInv, TypeOK
  <2> QED  BY <2>1 DEF RunLeft, Points
<1>2. results \in 0..Repeat /\ results' \in 0..Repeat
  BY DEF ResultsInv
<1>3. CliLeft \in 0..7 /\ CliLeft' \in 0..7
  <2>1. cli' # "off"
    BY DEF CliStep, Call, CliUp, CliUpEnds, CliStatus, CliStatusEnds, CliDown, CliDownEnds,
       CliEscapes, CliExits, CliNextIteration, RunContinues, cliVars
  <2> QED  BY <2>1 DEF CliLeft, SettledInv, CliPoints
<1>4. /\ CommandLeft' \in Nat
      /\ \/ results < results'
         \/ results = results' /\ CliLeft' < CliLeft
         \/ results = results' /\ CliLeft' = CliLeft /\ RunLeft' < RunLeft
         => CommandLeft' < CommandLeft
  <2> DEFINE i == results
             j == results'
             c == CliLeft
             d == CliLeft'
             a == RunLeft
             b == RunLeft'
             after == 80 * (Repeat - j) + 10 * d + b
             before == 80 * (Repeat - i) + 10 * c + a
  <2>1. CommandLeft = before /\ CommandLeft' = after  BY DEF CommandLeft
  <2>2. /\ i \in 0..Repeat /\ j \in 0..Repeat /\ c \in 0..7 /\ d \in 0..7
        /\ a \in 0..4 /\ b \in 0..4
    BY <1>1, <1>2, <1>3
  <2> HIDE DEF i, j, c, d, a, b
  \* Less of the run, an earlier statement and any run, or the next iteration: each
  \* weighs more than what comes after it can give back.
  <2>3. /\ after \in Nat
        /\ i < j \/ (i = j /\ d < c) \/ (i = j /\ d = c /\ b < a) => after < before
    BY <2>2, RepeatAssumption
  <2> HIDE DEF after, before
  <2> QED  BY <2>1, <2>3 DEF i, j, c, d, a, b
<1>5. CASE RunContinues
  <2>1. RunLeft' < RunLeft  BY <1>5, RunStepAdvances DEF RunContinues
  <2>2. cli' = cli /\ results' = results  BY <1>5 DEF RunContinues, cliVars
  <2>3. CliLeft' = CliLeft  BY <2>2 DEF CliLeft
  <2> QED  BY <1>4, <2>1, <2>2, <2>3
<1>6. CASE CliNextIteration \/ CliExits
  <2>1. results' = results + 1  BY <1>6 DEF CliNextIteration, CliExits
  <2>2. results < results'  BY <1>2, <2>1, RepeatAssumption
  <2> QED  BY <1>4, <2>2
<1>7. CASE CliStep /\ ~CliNextIteration /\ ~CliExits
  <2>1. /\ results' = results
        /\ \/ cli = "up" /\ cli' = "upped"
           \/ cli = "upped" /\ cli' \in {"status", "down"}
           \/ cli = "status" /\ cli' = "statused"
           \/ cli = "statused" /\ cli' = "down"
           \/ cli = "down" /\ cli' = "downed"
           \/ cli = "downed" /\ cli' = "record"
           \/ cli = "record" /\ cli' = "done"
    BY <1>7 DEF CliStep, Call, CliUp, CliUpEnds, CliStatus, CliStatusEnds, CliDown, CliDownEnds,
       CliEscapes
  <2>2. CliLeft' < CliLeft  BY <2>1 DEF CliLeft
  <2> QED  BY <1>4, <2>1, <2>2
<1> QED  BY <1>4, <1>5, <1>6, <1>7

\* The half of the command's termination that needs no fairness: it cannot go on for
\* ever, whichever way the docker commands go and whatever the daemon does.
THEOREM CommandCannotRunForever == CommandSpec => [][CommandAdvances]_commandVars
<1>1. ASSUME CIInv, CIInv', SettledInv, SettledInv', ResultsInv, ResultsInv',
             [CommandNext]_commandVars
      PROVE  [CommandAdvances]_commandVars
  <2>1. ASSUME Daemon
        PROVE  CommandLeft' = CommandLeft
    <3>1. UNCHANGED <<pc, cli, results>>
      BY <2>1 DEF Daemon, LateCreation, ContainerExits, cliVars
    <3> QED  BY <3>1 DEF CommandLeft, RunLeft, CliLeft
  <2> QED  BY <1>1, <2>1, StepsAdvanceCommand DEF CommandAdvances
<1> QED  BY <1>1, CommandInvariance, CommandSettled, ResultsBounded, PTL DEF CommandSpec

-----------------------------------------------------------------------------
(***************************************************************************)
(* Retrying a cleanup                                                      *)
(***************************************************************************)
\* Once the run knows the id of its container it keeps it, for itself and for its
\* executor, and a container that is gone stays gone.
RetryKeepsGround ==
  containerId = Ours =>
    /\ containerId' = Ours /\ registered' = Ours
    /\ docker[Ours] = "absent" => docker'[Ours] = "absent"

LEMMA StepsKeepGround ==
  ASSUME IInv, Next, containerId = Ours
  PROVE  /\ containerId' = Ours /\ registered' = Ours
         /\ docker[Ours] = "absent" => docker'[Ours] = "absent"
<1>1. registered = Ours /\ ~pending /\ state \notin BeforeRun /\ Ours # NoId
  BY ForeignAssumption DEF IInv, CallInv, ContainerInv, Containers, Ours, NoId
<1>2. ~DockerRun /\ ~LateCreation
  BY <1>1 DEF DockerRun, LateCreation, IInv, CallInv, BeforeRun
<1>3. containerId' = containerId /\ registered' = registered
  BY <1>2 DEF Next, CallUp, RunStep, UpRefused, UpBegins, InspectImage, PullImage, VerifyImage,
     StatusRefused, StatusBegins, DownCalled, StatusInspect, CleanupNothing, CleanupBegins,
     CleanupOwned, CleanupUnproven, RemoveDone, RemoveFails, ContainerExits
<1>4. CASE RemoveDone \/ RemoveFails
  <2>1. docker' \in {docker, [docker EXCEPT ![Ours] = "absent"]}
    BY <1>4 DEF RemoveDone, RemoveFails
  <2> QED  BY <1>1, <1>3, <2>1 DEF IInv, TypeOK
<1>5. CASE ContainerExits
  BY <1>1, <1>3, <1>5 DEF ContainerExits, IInv, TypeOK, Containers
<1>6. CASE ~RemoveDone /\ ~RemoveFails /\ ~ContainerExits
  <2>1. docker' = docker
    BY <1>2, <1>6 DEF Next, CallUp, RunStep, UpRefused, UpBegins, InspectImage, PullImage,
       VerifyImage, StatusRefused, StatusBegins, DownCalled, StatusInspect, CleanupNothing,
       CleanupBegins, CleanupOwned, CleanupUnproven
  <2> QED  BY <1>1, <1>3, <2>1
<1> QED  BY <1>4, <1>5, <1>6

\* What RetryRemoves needs besides a daemon that once answers: a caller who repeats
\* down() after any failure still addresses the container, which no step brings back.
THEOREM RetryNeverLosesContainer == CommandSpec => [][cli = "off" => RetryKeepsGround]_commandVars
<1>1. ASSUME CIInv, [CommandNext]_commandVars, cli = "off"
      PROVE  RetryKeepsGround
  <2>1. CASE UNCHANGED vars
    <3>1. containerId = Ours => registered = Ours  BY <1>1 DEF CIInv, IInv, CallInv
    <3> QED  BY <2>1, <3>1 DEF vars, RetryKeepsGround
  <2>2. ~CliNextIteration  BY <1>1 DEF CliNextIteration
  <2>3. CASE Next
    BY <1>1, <2>3, StepsKeepGround DEF RetryKeepsGround, CIInv
  <2> QED  BY <1>1, <2>1, <2>2, <2>3, CommandStepsRun DEF commandVars
<1> QED  BY <1>1, CommandInvariance, PTL DEF CommandSpec
=============================================================================
