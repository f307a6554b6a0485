----------------------------- MODULE FrrCommand -----------------------------
(***************************************************************************)
(* `wireproof lab frr-smoke <change id> --repeat N': the command line      *)
(* drives one FrrSmokeRun per iteration through up, status and down,       *)
(* swallows what they raise, and stops at the first iteration that did not *)
(* succeed.  The run's steps are those of FrrSmoke; cli = "off" is any     *)
(* other caller of the class.                                              *)
(***************************************************************************)
EXTENDS FrrSmoke

CONSTANT Repeat     \* --repeat, 1 or 2

ASSUME RepeatAssumption == Repeat \in 1..2

VARIABLES
  cli,               \* the statement _smoke_result is at
  results,           \* iterations recorded so far
  up, status, down,  \* what the three calls answered, "none" when not called
  lifecycleError,    \* an exception was swallowed
  escaping,          \* an exception that is no Exception is propagating
  left,              \* a container of an earlier iteration exists, or may yet
  exit               \* how the command ended

cliVars == <<cli, results, up, status, down, lifecycleError, escaping, left, exit>>
commandVars == <<vars, cliVars>>

CommandInit ==
  /\ Init
  /\ cli \in {"up", "off"} /\ results = 0
  /\ up = "none" /\ status = "none" /\ down = "none"
  /\ lifecycleError = FALSE /\ escaping = FALSE
  /\ left = FALSE
  /\ exit = "none"

\* A method is called; its answer is picked up once the run is idle again.
Call(here, there, Method) ==
  /\ cli = here /\ cli' = there
  /\ Method
  /\ UNCHANGED <<results, up, status, down, lifecycleError, escaping, left, exit>>

\* Deviation: down() is called only after an up() that passed.
CliDownAfterPass == Call("down", "downed", IF up = "PASS" THEN DownCalled ELSE UNCHANGED vars)

CliUp == Call("up", "upped", CallUp)
CliStatus == Call("status", "statused", StatusRefused \/ StatusBegins)
CliDown == Call("down", "downed", DownCalled)

\* A call ended.  A raised exception gives no answer; `except Exception'
\* swallows it unless it is a KeyboardInterrupt.
Answer == IF ret \in {"PASS", "FAIL"} THEN ret ELSE "none"

Swallows ==
  IF Answer # "none" THEN UNCHANGED <<lifecycleError, escaping>>
  ELSE \/ lifecycleError' = TRUE /\ UNCHANGED escaping
       \/ ret = "raised" /\ escaping' = TRUE /\ UNCHANGED lifecycleError

CliUpEnds ==
  /\ cli = "upped" /\ pc = "idle"
  /\ up' = Answer /\ Swallows
  /\ cli' = IF up' = "PASS" THEN "status" ELSE "down"
  /\ UNCHANGED <<vars, results, status, down, left, exit>>

CliStatusEnds ==
  /\ cli = "statused" /\ pc = "idle"
  /\ status' = Answer /\ Swallows
  /\ cli' = "down"
  /\ UNCHANGED <<vars, results, up, down, left, exit>>

\* down() runs in the finally clause.
CliDownEnds ==
  /\ cli = "downed" /\ pc = "idle"
  /\ down' = Answer /\ Swallows
  /\ cli' = "record"
  /\ UNCHANGED <<vars, results, up, status, left, exit>>

\* Deviation: what down() answered is not asked.
SucceededBeforeDown == ~lifecycleError /\ up = "PASS" /\ status = "PASS"

Succeeded ==
  ~lifecycleError /\ up = "PASS" /\ status = "PASS" /\ down = "PASS" /\ state = "CLEANED"

CliEscapes ==
  /\ cli = "record" /\ escaping
  /\ exit' = "exception" /\ cli' = "done"
  /\ UNCHANGED <<vars, results, up, status, down, lifecycleError, escaping, left>>

CliExits ==
  /\ cli = "record" /\ ~escaping /\ (~Succeeded \/ results + 1 = Repeat)
  /\ results' = results + 1
  /\ exit' = IF Succeeded THEN "0" ELSE "1"
  /\ cli' = "done"
  /\ UNCHANGED <<vars, up, status, down, lifecycleError, escaping, left>>

\* The next iteration: a new run, a new executor, the same daemon.
Remains == docker[Ours] # "absent" \/ pending

FreshRun ==
  /\ state' = "NEW" /\ containerId' = NoId /\ registered' = NoId
  /\ docker' = [docker EXCEPT ![Ours] = "absent"] /\ pending' = FALSE
  /\ pc' = "idle" /\ inStatus' = FALSE /\ ret' = "none" /\ runs' = 0 /\ ups' = 0

CliNextIteration ==
  /\ cli = "record" /\ ~escaping /\ Succeeded /\ results + 1 < Repeat
  /\ FreshRun
  /\ left' = (left \/ Remains)
  /\ results' = results + 1
  /\ up' = "none" /\ status' = "none" /\ down' = "none" /\ lifecycleError' = FALSE
  /\ cli' = "up"
  /\ UNCHANGED <<image, escaping, exit>>

OtherCalls ==
  /\ cli = "off"
  /\ CallUp \/ StatusRefused \/ StatusBegins \/ DownCalled
  /\ UNCHANGED cliVars

RunContinues == RunStep /\ UNCHANGED cliVars
Daemon == (LateCreation \/ ContainerExits) /\ UNCHANGED cliVars
Done == cli = "done" /\ UNCHANGED commandVars

CliStep == CliUp \/ CliUpEnds \/ CliStatus \/ CliStatusEnds \/ CliDown \/ CliDownEnds
             \/ CliEscapes \/ CliExits \/ CliNextIteration

CommandNext == CliStep \/ OtherCalls \/ RunContinues \/ Daemon \/ Done

\* The command is straight-line code over calls that time out.  The other
\* caller, when it retries down(), meets now and then a daemon that answers.
CommandFairness ==
  /\ WF_commandVars(CliStep)
  /\ WF_commandVars(RunContinues)
  /\ SF_commandVars(cli = "off" /\ DownCalled /\ UNCHANGED cliVars)
  /\ SF_commandVars(cli = "off" /\ CleanupOwned /\ UNCHANGED cliVars)
  /\ SF_commandVars(cli = "off" /\ RemoveDone /\ UNCHANGED cliVars)

CommandSpec == CommandInit /\ [][CommandNext]_commandVars /\ CommandFairness
-----------------------------------------------------------------------------
\* Exit status 0 vouches for the daemon, not only for the answers: every
\* iteration ran, none of their containers exists and no cut-off `docker run'
\* can still create one.
ExitZeroLeavesNoContainer == exit = "0" => results = Repeat /\ ~left /\ ~Remains

\* CLEANUP_FAILED is retryable: while its id is known, a container that is
\* still there is removed by a caller who repeats down() once Docker answers.
RetryRemoves ==
  (cli = "off" /\ containerId = Ours /\ docker[Ours] # "absent") ~> docker[Ours] = "absent"

\* A container the command started is not forgotten: it is removed, or owed by
\* a record that says CLEANUP_FAILED, or by an exception.
ContainerIsSettled ==
  (cli # "off" /\ docker[Ours] # "absent") ~>
    (docker[Ours] = "absent" \/ state = "CLEANUP_FAILED" \/ lifecycleError \/ exit = "exception")
=============================================================================
