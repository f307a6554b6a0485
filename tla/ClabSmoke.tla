----------------------------- MODULE ClabSmoke -----------------------------
(***************************************************************************)
(* `wireproof lab frr-smoke clab-ebgp-v4 --repeat N': the command line     *)
(* drives one fresh ContainerlabEbgpRun per iteration, cleans up in a      *)
(* `finally', records the outcome and stops at the first unclean run.      *)
(* The run's own steps are those of ClabRun; here the order of the calls   *)
(* is the command's and the earlier runs are remembered by what they left  *)
(* behind.  The class can also be used without the command: cli = "off" is *)
(* any other caller, who calls any method whenever none is in progress.    *)
(***************************************************************************)
EXTENDS ClabRun

CONSTANT Repeat     \* --repeat, 1 or 2

ASSUME RepeatAssumption == Repeat \in 1..2

VARIABLES
  cli,          \* the statement _clab_ebgp_smoke is at
  iteration,    \* how many runs it has created
  upOk, statusOk, downOk,
  escaping,     \* an exception the except clause does not name is propagating
  labsLeft,     \* labs of finished iterations that still exist
  dirsLeft,     \* run directories of finished iterations that still exist
  exit          \* how the command ended

cliVars == <<cli, iteration, upOk, statusOk, downOk, escaping, labsLeft, dirsLeft, exit>>
smokeVars == <<vars, cliVars>>

SmokeInit ==
  /\ Init
  /\ cli \in {"up", "off"} /\ iteration = 1
  /\ upOk = FALSE /\ statusOk = FALSE /\ downOk = FALSE
  /\ escaping = FALSE
  /\ labsLeft = 0 /\ dirsLeft = 0
  /\ exit = "none"

\* A method is called when the command reaches it; its result is picked up
\* once the run is idle again (cli = "...ed").
Call(here, there, Method) ==
  /\ cli = here /\ cli' = there
  /\ Method
  /\ UNCHANGED <<interference, iteration, upOk, statusOk, downOk, escaping, labsLeft,
                 dirsLeft, exit>>

CliUp == Call("up", "upped", CallUp)
CliStatus == Call("status", "statused", CallStatus)
CliDown == Call("finally", "downed", deployAttempted /\ DownCalled)

\* The except clause swallows ClabPreparationError; anything else escapes
\* after the finally clause.
CliUpEnds ==
  /\ cli = "upped" /\ pc = "idle"
  /\ upOk' = (ret = "true")
  /\ escaping' = (ret = "raised")
  /\ cli' = IF ret = "true" THEN "status" ELSE "finally"
  /\ UNCHANGED <<vars, iteration, statusOk, downOk, labsLeft, dirsLeft, exit>>

CliStatusEnds ==
  /\ cli = "statused" /\ pc = "idle"
  /\ statusOk' = (ret = "true")
  /\ escaping' = (ret = "raised")
  /\ cli' = "finally"
  /\ UNCHANGED <<vars, iteration, upOk, downOk, labsLeft, dirsLeft, exit>>

\* Deviation: the finally clause cleans only verified runs.
CliCleansVerifiedOnly ==
  /\ cli = "finally" /\ ~(deployAttempted /\ statusOk)
  /\ cli' = "record"
  /\ UNCHANGED <<vars, iteration, upOk, statusOk, downOk, escaping, labsLeft, dirsLeft, exit>>

CliNothingToClean ==
  /\ cli = "finally" /\ ~deployAttempted
  /\ cli' = "record"
  /\ UNCHANGED <<vars, iteration, upOk, statusOk, downOk, escaping, labsLeft, dirsLeft, exit>>

CliDownEnds ==
  /\ cli = "downed" /\ pc = "idle"
  /\ downOk' = (ret = "true")
  /\ escaping' = (escaping \/ ret = "raised")
  /\ cli' = "record"
  /\ UNCHANGED <<vars, iteration, upOk, statusOk, labsLeft, dirsLeft, exit>>

\* Deviation: an iteration is clean when its answers were.
CleanByAnswers == upOk /\ statusOk

Clean == upOk /\ statusOk /\ downOk /\ state = "CLEANED"

CliEscapes ==
  /\ cli = "record" /\ escaping
  /\ exit' = "exception" /\ cli' = "done"
  /\ UNCHANGED <<vars, iteration, upOk, statusOk, downOk, escaping, labsLeft, dirsLeft>>

\* Deviation: the exit status follows the answers alone.
CliExitsByAnswers ==
  /\ cli = "record" /\ ~escaping /\ (~Clean \/ iteration = Repeat)
  /\ exit' = IF upOk /\ statusOk THEN "0" ELSE "1"
  /\ cli' = "done"
  /\ UNCHANGED <<vars, iteration, upOk, statusOk, downOk, escaping, labsLeft, dirsLeft>>

CliExits ==
  /\ cli = "record" /\ ~escaping /\ (~Clean \/ iteration = Repeat)
  /\ exit' = IF Clean THEN "0" ELSE "1"
  /\ cli' = "done"
  /\ UNCHANGED <<vars, iteration, upOk, statusOk, downOk, escaping, labsLeft, dirsLeft>>

\* The next iteration: a new run with new identifiers and a new directory.
FreshRun ==
  /\ tree' = NoTree /\ opened' = [d \in {Root} \cup Dirs |-> Absent] /\ built' = 0
  /\ manifest' = NoTree /\ state' = "PREPARED" /\ failure' = "none"
  /\ deployAttempted' = FALSE /\ destroyAttempted' = FALSE
  /\ lab' = "none" /\ pc' = "idle" /\ inUp' = FALSE /\ ret' = "none" /\ seen' = {}
  /\ deploys' = 0 /\ destroys' = 0 /\ raised' = FALSE

CliNextIteration ==
  /\ cli = "record" /\ ~escaping /\ Clean /\ iteration < Repeat
  /\ FreshRun
  /\ labsLeft' = labsLeft + (IF lab = "none" THEN 0 ELSE 1)
  /\ dirsLeft' = dirsLeft + (IF tree[Root] = Own THEN 1 ELSE 0)
  /\ iteration' = iteration + 1
  /\ upOk' = FALSE /\ statusOk' = FALSE /\ downOk' = FALSE
  /\ cli' = "up"
  /\ UNCHANGED <<interference, escaping, exit>>

\* Any other caller of the class.
OtherCalls ==
  /\ cli = "off"
  /\ CallUp \/ CallStatus \/ DownCalled
  /\ UNCHANGED <<interference, cliVars>>

RunContinues == RunStep /\ UNCHANGED <<interference, cliVars>>
Outside == Environment /\ UNCHANGED cliVars
Done == cli = "done" /\ UNCHANGED smokeVars

CliStep == CliUp \/ CliUpEnds \/ CliStatus \/ CliStatusEnds \/ CliDown \/ CliDownEnds
             \/ CliNothingToClean \/ CliEscapes \/ CliExits \/ CliNextIteration

SmokeNext == CliStep \/ OtherCalls \/ RunContinues \/ Outside \/ Done

SmokeFairness == WF_smokeVars(CliStep) /\ WF_smokeVars(RunContinues)

SmokeSpec == SmokeInit /\ [][SmokeNext]_smokeVars /\ SmokeFairness
-----------------------------------------------------------------------------
\* RemovalsVouched of every run: within an iteration nothing disappears from a
\* minted directory that is not the manifest's, nor, from an unminted one, what
\* has no name of the layout or lies in another directory than the run's own.
\* (The next iteration has a directory of its own.)
RunRemovalsVouched == [][iteration' = iteration => RemovalIsVouched]_smokeVars

\* ADR-003: a second iteration starts only after the first has cleaned up.
\* What that is for: the two labs and the two directories never coexist.
IterationsDoNotOverlap == iteration > 1 => labsLeft = 0 /\ dirsLeft = 0

\* Exit status 0 vouches for the host, not only for the answers: no lab and
\* no run directory of any iteration is left.
ExitZeroLeavesNothing ==
  exit = "0" => iteration = Repeat /\ lab = "none" /\ labsLeft = 0 /\ tree[Root] # Own

\* A failed deploy is still the recorded failure after its own successful
\* cleanup, and after the second, redundant down() of the finally clause.
DeployFailureSurvivesCleanup ==
  exit = "1" /\ state = "CLEANED" /\ ~upOk => failure = "DEPLOY_FAILED" /\ downOk

\* Every deploy is eventually followed by the destruction of the lab, by a
\* recorded cleanup failure, or by an exception that escapes the command.
LabIsSettled ==
  cli # "off" /\ lab # "none" ~>
    (lab = "none" \/ state = "CLEANUP_FAILED" \/ exit = "exception")

\* "Any deploy attempt receives the exact closed destroy attempt."  At the
\* least, no lab that a deploy left may outlive the command without one.
DeployAttemptGetsDestroyAttempt ==
  cli = "done" /\ deploys > 0 /\ lab # "none" => destroyAttempted
=============================================================================
