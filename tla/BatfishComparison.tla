-------------------------- MODULE BatfishComparison --------------------------
(***************************************************************************)
(* The advisory comparison of two Batfish snapshots: an adapter answers a  *)
(* query plan for one snapshot, the answer is accepted or rejected by its  *)
(* model, and two accepted results are compared query by query.  What a    *)
(* query asks is never read by the comparison and left out: a plan is the  *)
(* set of its query ids, an answer stands for its canonical JSON and hash. *)
(***************************************************************************)
EXTENDS Naturals, FiniteSets

CONSTANTS
  QueryId,
  Results,        \* query results an executor may give
  Null,           \* the null answer
  MaxSnapshots    \* bound on the snapshot results that are held

ASSUME SnapshotAssumption == MaxSnapshots \in Nat

Unanswered == {"UNKNOWN", "ERROR"}
QueryStatus == {"PASS", "FAIL"} \cup Unanswered

ASSUME ResultsAssumption == \A r \in Results : r.status \in QueryStatus

VARIABLES
  held,           \* the snapshot results accepted so far
  pair,           \* the two results last handed to assess_batfish_advisory
  assessment      \* its answer, as a tuple: empty before the call and when it raises

compareVars == <<held, pair, assessment>>

CompareInit == held = {} /\ pair = <<>> /\ assessment = <<>>

\* A result is a record of its status, its answer and whether a reason is given.
QueryResultValid(r) == r.status \in Unanswered => r.reason

\* Anything but one valid result for every planned query raises.
Accepted(plan, results) ==
  DOMAIN results = plan /\ \A q \in DOMAIN results : QueryResultValid(results[q])

\* `supported': every configuration file of the snapshot was parsed.
Executed(role, supported, plan, results) ==
  /\ Cardinality(held) < MaxSnapshots
  /\ Accepted(plan, results)
  /\ held' = held \cup {[role |-> role, supported |-> supported, plan |-> plan,
                         results |-> results]}
  /\ UNCHANGED <<pair, assessment>>

Plans == SUBSET QueryId \ {{}}
Roles == {"baseline", "candidate"}

MissingFixture == [status |-> "UNKNOWN", answer |-> Null, reason |-> TRUE]

\* FakeBatfishAdapter answers every planned query from its fixtures.
FakeExecutes ==
  \E role \in Roles, supported \in BOOLEAN, plan \in Plans :
    \E known \in SUBSET plan : \E fixtures \in [known -> Results] :
      Executed(role, supported, plan,
               [q \in plan |-> IF q \in known THEN fixtures[q] ELSE MissingFixture])

\* Another executor may answer other queries than it was asked.
OtherExecutes ==
  \E role \in Roles, supported \in BOOLEAN, plan, answered \in Plans :
    \E results \in [answered -> Results] : Executed(role, supported, plan, results)

(***************************************************************************)
(* compare_snapshots and assess_batfish_advisory                           *)
(***************************************************************************)
ResultDebt(s, r) ==
  {d \in Unanswered : r.status = d}
    \cup {d \in {"null"} : r.answer = Null}
    \cup {d \in {"not parsed"} : ~s.supported}

QueryDebt(s, q) ==
  IF q \in DOMAIN s.results THEN ResultDebt(s, s.results[q]) ELSE {"missing"}

Debt(b, c, q) ==
  ({"baseline"} \X QueryDebt(b, q)) \cup ({"candidate"} \X QueryDebt(c, q))
    \cup ({"plan"} \X {d \in {"asymmetric"} : q \notin b.plan \cap c.plan})

\* Status, answer and reason decide.
Verdict(b, c, q) ==
  IF Debt(b, c, q) # {} THEN "DEBT"
  ELSE IF b.results[q] = c.results[q] THEN "MATCH" ELSE "DELTA"

\* Deviation: only what the baseline was asked is compared.
ComparedOfBaseline(b, c) == b.plan

Compared(b, c) == b.plan \cup c.plan

Assessment(b, c) ==
  [coverage |-> IF b.plan = c.plan THEN "COMPLETE" ELSE "INCOMPLETE",
   comparisons |-> [q \in Compared(b, c) |-> Verdict(b, c, q)],
   debt |-> UNION {{q} \X Debt(b, c, q) : q \in Compared(b, c)}]

\* The roles are checked; the two content hashes differ whenever they do.
RolesAreRight(b, c) == b.role = "baseline" /\ c.role = "candidate"

Assess ==
  \E b, c \in held :
    /\ pair' = <<b, c>>
    /\ assessment' = IF RolesAreRight(b, c) THEN <<Assessment(b, c)>> ELSE <<>>
    /\ UNCHANGED held

CompareNext == FakeExecutes \/ OtherExecutes \/ Assess

CompareSpec == CompareInit /\ [][CompareNext]_compareVars
-----------------------------------------------------------------------------
\* What a query has in a snapshot that may be compared at all.
Answers(s, q) ==
  /\ s.supported /\ q \in DOMAIN s.results
  /\ s.results[q].status \in {"PASS", "FAIL"} /\ s.results[q].answer # Null

\* No silent gap: a query that either snapshot leaves unanswered, unplanned or
\* unparsed appears in the debt of the assessment under its own id, and one
\* that is reported as MATCH or DELTA was answered on both sides, the same or
\* differently.  An assessment without debt compared every query of both plans.
GapsAreVisible ==
  assessment # <<>> =>
    LET b == pair[1] c == pair[2] answer == assessment[1] IN
    /\ b.role # c.role
    /\ \A q \in b.plan \cup c.plan :
         /\ ~(Answers(b, q) /\ Answers(c, q)) => \E d \in answer.debt : d[1] = q
         /\ answer.comparisons[q] = "MATCH" =>
              Answers(b, q) /\ Answers(c, q) /\ b.results[q] = c.results[q]
         /\ answer.comparisons[q] = "DELTA" =>
              Answers(b, q) /\ Answers(c, q) /\ b.results[q] # c.results[q]
    /\ answer.debt = {} => answer.coverage = "COMPLETE"
=============================================================================
