------------------------------- MODULE LabRun -------------------------------
(***************************************************************************)
(* Several LabRuns over one runner.  A call of a run is a step; test() is  *)
(* two, with its predicate in between: the predicate may call any run, so  *)
(* tests nest.  A refused call changes nothing and has no action.          *)
(***************************************************************************)
EXTENDS Naturals, Sequences

CONSTANTS
  Run,            \* the runs, each named by its run_id
  Stranger,       \* run ids of resources no run here stands for
  RunnerRaises    \* FakeRunner only answers; another CommandRunner may raise

ASSUME StrangerAssumption == Run \cap Stranger = {}
ASSUME RunnerAssumption == RunnerRaises \in BOOLEAN

Label == [managed_by : {"wireproof", "other"}, run_id : Run \cup Stranger]
Own(r) == [managed_by |-> "wireproof", run_id |-> r]

VARIABLES
  state,       \* LabRun.state
  last,        \* the latest evidence record: "PASS", a reason code, or none yet
  resources,   \* FakeRunner.resources, as labels
  stack,       \* the runs whose test predicate is executing, innermost last
  escaped      \* runs whose latest call ended in an exception half-way

vars == <<state, last, resources, stack, escaped>>

States == {"NEW", "DEPLOYING", "RUNNING", "TESTING", "TEST_FAILED", "FAILED",
           "CLEANING", "CLEANUP_FAILED", "CLEANED"}
Records == {"none", "PASS", "DEPLOY_FAILED", "STATUS_FAILED", "TEST_FAILED", "CLEANUP_FAILED"}

Init ==
  /\ state = [r \in Run |-> "NEW"]
  /\ last = [r \in Run |-> "none"]
  /\ resources \in SUBSET Label
  /\ stack = << >>
  /\ escaped = {}

Becomes(r, s, record) ==
  /\ state' = [state EXCEPT ![r] = s]
  /\ last' = [last EXCEPT ![r] = record]

Answers(r, s, record) == Becomes(r, s, record) /\ escaped' = escaped \ {r}
Raises(r, s, record) == Becomes(r, s, record) /\ escaped' = escaped \cup {r}

(***************************************************************************)
(* _cleanup()                                                              *)
(***************************************************************************)
\* Deviation: destroy looks at the manager only.
WithoutManaged(r) == {l \in resources : l.managed_by # "wireproof"}

Without(r) == {l \in resources : ~(l.managed_by = "wireproof" /\ l.run_id = r)}

\* Deviation: the answer of the destroy command is not looked at.
DestroyUnchecked(r, before) ==
  /\ Answers(r, "CLEANED", "PASS")
  /\ resources' \in {resources, Without(r)}

\* A run that is CLEANING issues its destroy; `before' is the record made last.
Destroy(r, before) ==
  \/ Answers(r, "CLEANED", "PASS") /\ resources' = Without(r)
  \/ Answers(r, "CLEANUP_FAILED", "CLEANUP_FAILED") /\ UNCHANGED resources
  \/ /\ RunnerRaises
     /\ Raises(r, "CLEANING", before)
     /\ resources' \in {resources, Without(r)}

HasTarget(r) == \E l \in resources : l.managed_by = "wireproof" /\ l.run_id = r

Cleanup(r) ==
  \/ ~HasTarget(r) /\ Answers(r, "CLEANED", "PASS") /\ UNCHANGED resources
  \/ HasTarget(r) /\ Destroy(r, last[r])

(***************************************************************************)
(* The calls                                                               *)
(***************************************************************************)
\* Deviation: a failed deploy is recorded and left as it is.
UpLeavesFailure(r) ==
  /\ state[r] = "NEW"
  /\ \/ Answers(r, "RUNNING", "PASS") /\ resources' = resources \cup {Own(r)}
     \/ Answers(r, "FAILED", "DEPLOY_FAILED") /\ UNCHANGED resources
  /\ UNCHANGED stack

Up(r) ==
  /\ state[r] = "NEW"
  /\ \/ Answers(r, "RUNNING", "PASS") /\ resources' = resources \cup {Own(r)}
     \/ Destroy(r, "DEPLOY_FAILED")
     \/ /\ RunnerRaises
        /\ Raises(r, "DEPLOYING", last[r])
        /\ resources' \in {resources, resources \cup {Own(r)}}
  /\ UNCHANGED stack

Status(r) ==
  /\ state[r] = "RUNNING"
  /\ \/ Answers(r, "RUNNING", "PASS") /\ UNCHANGED resources
     \/ Destroy(r, "STATUS_FAILED")
  /\ UNCHANGED stack

TestBegins(r) ==
  /\ state[r] = "RUNNING"
  /\ state' = [state EXCEPT ![r] = "TESTING"]
  /\ stack' = Append(stack, r)
  /\ UNCHANGED <<last, resources, escaped>>

Innermost == stack[Len(stack)]
Unwind == stack' = SubSeq(stack, 1, Len(stack) - 1)

TestReturns ==
  /\ stack # << >>
  /\ \/ Answers(Innermost, "RUNNING", "PASS") /\ UNCHANGED resources
     \/ Destroy(Innermost, "TEST_FAILED")
  /\ Unwind

PredicateRaises ==
  /\ stack # << >>
  /\ escaped' = escaped \cup {Innermost}
  /\ Unwind
  /\ UNCHANGED <<state, last, resources>>

\* test() of a ready EventuallyResult.  A failure whose numbers no evidence
\* record accepts (negative attempts or time) ends in an exception.
TestOfResult(r) ==
  /\ state[r] = "RUNNING"
  /\ \/ Answers(r, "RUNNING", "PASS") /\ UNCHANGED resources
     \/ Destroy(r, "TEST_FAILED")
     \/ Raises(r, "TEST_FAILED", last[r]) /\ UNCHANGED resources
  /\ UNCHANGED stack

\* Deviation: a run may be taken down while it is being tested.
DownAlsoTesting == {"NEW", "DEPLOYING", "RUNNING", "TESTING", "TEST_FAILED", "FAILED", "CLEANUP_FAILED"}

\* Deviation: a failed cleanup cannot be repeated.
DownNoRetry == {"NEW", "DEPLOYING", "RUNNING", "TEST_FAILED", "FAILED"}

DownAllowed == {"NEW", "DEPLOYING", "RUNNING", "TEST_FAILED", "FAILED", "CLEANUP_FAILED"}

Down(r) ==
  /\ \/ state[r] = "CLEANED" /\ Answers(r, "CLEANED", "PASS") /\ UNCHANGED resources
     \/ state[r] \in DownAllowed /\ Cleanup(r)
  /\ UNCHANGED stack

Next ==
  \/ \E r \in Run : Up(r) \/ Status(r) \/ TestBegins(r) \/ TestOfResult(r) \/ Down(r)
  \/ TestReturns
  \/ PredicateRaises

DownSucceeds(r) == Down(r) /\ state'[r] = "CLEANED"

\* A caller repeats down() and the runner does not fail it for ever.
Fairness == \A r \in Run : WF_vars(DownSucceeds(r))

Spec == Init /\ [][Next]_vars /\ Fairness
-----------------------------------------------------------------------------
\* Every variable keeps its type.
TypeOK ==
  /\ state \in [Run -> States]
  /\ last \in [Run -> Records]
  /\ resources \in SUBSET Label
  /\ stack \in Seq(Run)
  /\ escaped \in SUBSET Run

Tested == {stack[i] : i \in DOMAIN stack}

\* A CLEANED run has nothing left in the runner, whatever other runs do and
\* however cleanup got there (no target, forced, retried).
CleanedMeansReleased ==
  \A r \in Run : state[r] = "CLEANED" => Own(r) \notin resources

\* While a predicate executes, its run keeps its lab and stays in TESTING:
\* nothing the predicate calls, on this run or on others, takes it away.
TestedLabStays ==
  \A r \in Tested : state[r] = "TESTING" /\ Own(r) \in resources

\* Cleanup removes the resource of the run it is called for and no other
\* run's, nor one another tool manages: all that disappears carries the
\* wireproof label and the id of a run that ends CLEANED or CLEANING.
OnlyOwnDestroyed ==
  [][\A l \in resources \ resources' :
        \E r \in Run : l = Own(r) /\ state'[r] \in {"CLEANED", "CLEANING"}]_vars

\* Between calls of a run its latest record tells the truth: PASS means a lab
\* that is there or one that is released, and a recorded failure of deploy,
\* status or test has been followed by a cleanup.
LastRecordIsTrue ==
  \A r \in Run \ (Tested \cup escaped) :
    /\ last[r] = "PASS" => IF Own(r) \in resources THEN state[r] = "RUNNING"
                                                   ELSE state[r] = "CLEANED"
    /\ last[r] # "PASS" => state[r] = IF last[r] = "none" THEN "NEW" ELSE "CLEANUP_FAILED"

\* CLEANUP_FAILED is retryable: repeating down() releases the run, unless the
\* runner raises out of the retry.
RetryReleases ==
  \A r \in Run : state[r] = "CLEANUP_FAILED" ~> state[r] = "CLEANED" \/ r \in escaped

\* "Lifecycle failures attempt cleanup": between calls, a run whose lab exists
\* has been cleaned up or can still be taken down.
LabCanBeReleased ==
  \A r \in Run \ Tested : Own(r) \in resources => state[r] \in DownAllowed
=============================================================================
