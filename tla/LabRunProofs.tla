---------------------------- MODULE LabRunProofs ----------------------------
(***************************************************************************)
(* Theorems about LabRuns over one runner, for any number of runs, any     *)
(* nesting of tests, any seeded resources and a runner that may raise.     *)
(***************************************************************************)
EXTENDS LabRun, TLAPS

\* A run occurs on the stack once, and is TESTING while it does.
StackInv ==
  /\ \A i \in DOMAIN stack : state[stack[i]] = "TESTING"
  /\ \A i, j \in DOMAIN stack : stack[i] = stack[j] => i = j

\* A lab that runs or is tested is in the runner; a released one is not.
LabInv ==
  /\ \A r \in Run : state[r] \in {"RUNNING", "TESTING"} => Own(r) \in resources
  /\ \A r \in Run : state[r] = "CLEANED" => Own(r) \notin resources

IInv == TypeOK /\ StackInv /\ LabInv /\ LastRecordIsTrue

\* What an answered call leaves in state, record and runner.
Settled(r, s, record) ==
  \/ s = "RUNNING" /\ record = "PASS" /\ Own(r) \in resources'
  \/ s = "CLEANED" /\ record = "PASS" /\ Own(r) \notin resources'
  \/ s = "CLEANUP_FAILED" /\ record = "CLEANUP_FAILED"

\* What any call of run r does to the variables other than the stack.
Outcome(r) ==
  /\ \E s \in States, record \in Records :
       /\ Becomes(r, s, record)
       /\ \/ escaped' = escaped \ {r} /\ Settled(r, s, record)
          \/ escaped' = escaped \cup {r} /\ s \notin {"RUNNING", "TESTING", "CLEANED"}
       /\ s \in {"CLEANED", "CLEANING"} \/ resources \subseteq resources'
  /\ resources' \subseteq Label
  /\ \A l \in Label : l # Own(r) => (l \in resources' <=> l \in resources)
-----------------------------------------------------------------------------
(***************************************************************************)
(* Labels                                                                  *)
(***************************************************************************)
LEMMA OwnLabels ==
  ASSUME NEW r \in Run
  PROVE  /\ Own(r) \in Label
         /\ \A q \in Run : Own(q) = Own(r) => q = r
         /\ \A l \in Label : l.managed_by = "wireproof" /\ l.run_id = r <=> l = Own(r)
BY DEF Label, Own

LEMMA WithoutRemovesOwn ==
  ASSUME TypeOK, NEW r \in Run
  PROVE  Without(r) = resources \ {Own(r)}
BY OwnLabels DEF Without, TypeOK

LEMMA TargetIsOwn ==
  ASSUME TypeOK, NEW r \in Run
  PROVE  HasTarget(r) <=> Own(r) \in resources
BY OwnLabels DEF HasTarget, TypeOK

(***************************************************************************)
(* What the calls do                                                       *)
(***************************************************************************)
LEMMA DestroyOutcome ==
  ASSUME TypeOK, NEW r \in Run, NEW before \in Records, Destroy(r, before)
  PROVE  Outcome(r)
<1>1. Without(r) = resources \ {Own(r)} /\ Own(r) \in Label
  BY WithoutRemovesOwn, OwnLabels
<1>2. resources' \in {resources, resources \ {Own(r)}}
  BY <1>1 DEF Destroy
<1>3. \E s \in States, record \in Records :
        /\ Becomes(r, s, record)
        /\ \/ escaped' = escaped \ {r} /\ Settled(r, s, record)
           \/ escaped' = escaped \cup {r} /\ s \notin {"RUNNING", "TESTING", "CLEANED"}
        /\ s \in {"CLEANED", "CLEANING"} \/ resources \subseteq resources'
  <2>1. CASE Answers(r, "CLEANED", "PASS") /\ resources' = Without(r)
    BY <2>1, <1>1 DEF Answers, Settled, States, Records
  <2>2. CASE Answers(r, "CLEANUP_FAILED", "CLEANUP_FAILED") /\ UNCHANGED resources
    BY <2>2 DEF Answers, Settled, States, Records
  <2>3. CASE Raises(r, "CLEANING", before)
    BY <2>3 DEF Raises, States
  <2> QED  BY <2>1, <2>2, <2>3 DEF Destroy
<1> QED  BY <1>2, <1>3 DEF Outcome, TypeOK

\* An answer that leaves the runner's resources alone, or adds the lab.
LEMMA AnswerOutcome ==
  ASSUME TypeOK, NEW r \in Run, NEW s \in States, NEW record \in Records,
         Answers(r, s, record), Settled(r, s, record),
         resources' \in {resources, resources \cup {Own(r)}}
  PROVE  Outcome(r)
BY OwnLabels DEF Answers, Outcome, TypeOK

LEMMA RaiseOutcome ==
  ASSUME TypeOK, NEW r \in Run, NEW s \in States, NEW record \in Records,
         Raises(r, s, record), s \notin {"RUNNING", "TESTING", "CLEANED"},
         resources' \in {resources, resources \cup {Own(r)}}
  PROVE  Outcome(r)
BY OwnLabels DEF Raises, Outcome, TypeOK

LEMMA PassOutcome ==
  ASSUME TypeOK, NEW r \in Run, Answers(r, "RUNNING", "PASS"),
         Own(r) \in resources', resources' \in {resources, resources \cup {Own(r)}}
  PROVE  Outcome(r)
<1>1. "RUNNING" \in States /\ "PASS" \in Records /\ Settled(r, "RUNNING", "PASS")
  BY DEF States, Records, Settled
<1> QED  BY <1>1, AnswerOutcome

LEMMA CallOutcome ==
  ASSUME IInv, NEW r \in Run, Up(r) \/ Status(r) \/ TestOfResult(r) \/ Down(r)
  PROVE  Outcome(r) /\ r \notin Tested /\ stack' = stack
<1>1. /\ TypeOK /\ last[r] \in Records
      /\ {"DEPLOY_FAILED", "STATUS_FAILED", "TEST_FAILED", "CLEANUP_FAILED"} \subseteq Records
      /\ {"DEPLOYING", "TEST_FAILED", "CLEANED"} \subseteq States
  BY DEF IInv, TypeOK, Records, States
<1>2. stack' = stack
  BY DEF Up, Status, TestOfResult, Down
<1>3. r \notin Tested
  <2>1. state[r] # "TESTING"
    BY DEF Up, Status, TestOfResult, Down, DownAllowed
  <2> QED  BY <2>1 DEF Tested, IInv, StackInv
<1>4. state[r] = "RUNNING" => Own(r) \in resources
  BY DEF IInv, LabInv
<1>5. ASSUME Up(r)  PROVE Outcome(r)
  <2>1. CASE Answers(r, "RUNNING", "PASS") /\ resources' = resources \cup {Own(r)}
    BY <2>1, <1>1, PassOutcome
  <2>2. CASE Destroy(r, "DEPLOY_FAILED")
    BY <2>2, <1>1, DestroyOutcome
  <2>3. CASE /\ Raises(r, "DEPLOYING", last[r])
             /\ resources' \in {resources, resources \cup {Own(r)}}
    BY <2>3, <1>1, RaiseOutcome
  <2> QED  BY <1>5, <2>1, <2>2, <2>3 DEF Up
<1>6. ASSUME Status(r)  PROVE Outcome(r)
  <2>1. CASE Answers(r, "RUNNING", "PASS") /\ UNCHANGED resources
    BY <2>1, <1>1, <1>4, <1>6, PassOutcome DEF Status
  <2>2. CASE Destroy(r, "STATUS_FAILED")
    BY <2>2, <1>1, DestroyOutcome
  <2> QED  BY <1>6, <2>1, <2>2 DEF Status
<1>7. ASSUME TestOfResult(r)  PROVE Outcome(r)
  <2>1. CASE Answers(r, "RUNNING", "PASS") /\ UNCHANGED resources
    BY <2>1, <1>1, <1>4, <1>7, PassOutcome DEF TestOfResult
  <2>2. CASE Destroy(r, "TEST_FAILED")
    BY <2>2, <1>1, DestroyOutcome
  <2>3. CASE Raises(r, "TEST_FAILED", last[r]) /\ UNCHANGED resources
    BY <2>3, <1>1, RaiseOutcome
  <2> QED  BY <1>7, <2>1, <2>2, <2>3 DEF TestOfResult
<1>8. ASSUME Down(r)  PROVE Outcome(r)
  <2>1. CASE /\ Own(r) \notin resources
             /\ Answers(r, "CLEANED", "PASS") /\ UNCHANGED resources
    <3>1. "PASS" \in Records /\ Settled(r, "CLEANED", "PASS")
      BY <2>1 DEF Records, Settled
    <3> QED  BY <2>1, <3>1, <1>1, AnswerOutcome
  <2>2. CASE Destroy(r, last[r])
    BY <2>2, <1>1, DestroyOutcome
  <2>3. state[r] = "CLEANED" => Own(r) \notin resources
    BY DEF IInv, LabInv
  <2>4. HasTarget(r) <=> Own(r) \in resources
    BY <1>1, TargetIsOwn
  <2> QED  BY <1>8, <2>1, <2>2, <2>3, <2>4 DEF Down, Cleanup
<1> QED  BY <1>2, <1>3, <1>5, <1>6, <1>7, <1>8

LEMMA ReturnOutcome ==
  ASSUME IInv, TestReturns
  PROVE  Innermost \in Run /\ Outcome(Innermost)
<1>1. /\ TypeOK /\ Innermost \in Run /\ "TEST_FAILED" \in Records
      /\ Len(stack) \in DOMAIN stack
  BY DEF IInv, TypeOK, TestReturns, Innermost, Records
<1>2. Own(Innermost) \in resources
  BY <1>1 DEF IInv, StackInv, LabInv, Innermost
<1>3. CASE Answers(Innermost, "RUNNING", "PASS") /\ UNCHANGED resources
  BY <1>1, <1>2, <1>3, PassOutcome
<1>4. CASE Destroy(Innermost, "TEST_FAILED")
  BY <1>1, <1>4, DestroyOutcome
<1> QED  BY <1>1, <1>3, <1>4 DEF TestReturns

(***************************************************************************)
(* The inductive invariant                                                 *)
(***************************************************************************)
LEMMA InitIInv == Init => IInv
<1> SUFFICES ASSUME Init  PROVE IInv
  OBVIOUS
<1>1. TypeOK
  BY DEF Init, TypeOK, States, Records
<1>2. StackInv
  BY DEF Init, StackInv
<1>3. LabInv /\ LastRecordIsTrue
  BY DEF Init, LabInv, LastRecordIsTrue
<1> QED  BY <1>1, <1>2, <1>3 DEF IInv

\* Leaving a predicate: the innermost run is on the stack no more.
LEMMA Unwinding ==
  ASSUME IInv, stack # << >>, Unwind
  PROVE  /\ stack' \in Seq(Run)
         /\ \A i \in DOMAIN stack' : /\ i \in DOMAIN stack
                                     /\ stack'[i] = stack[i]
                                     /\ stack'[i] # Innermost
         /\ \A r \in Run : r \in Tested' <=> r \in Tested /\ r # Innermost
<1>1. stack \in Seq(Run) /\ Len(stack) \in Nat \ {0} /\ stack' = SubSeq(stack, 1, Len(stack) - 1)
  BY DEF IInv, TypeOK, Unwind
<1>2. /\ stack' \in Seq(Run) /\ DOMAIN stack' = 1..(Len(stack) - 1)
      /\ DOMAIN stack = 1..Len(stack)
      /\ \A i \in 1..(Len(stack) - 1) : stack'[i] = stack[i]
  BY <1>1
<1>3. \A i \in 1..(Len(stack) - 1) : stack[i] # Innermost
  BY <1>1, <1>2 DEF IInv, StackInv, Innermost
<1>4. \A i \in DOMAIN stack : i \in DOMAIN stack' \/ stack[i] = Innermost
  BY <1>1, <1>2 DEF Innermost
<1> QED  BY <1>1, <1>2, <1>3, <1>4 DEF Tested

LEMMA OutcomePreserves ==
  ASSUME IInv, NEW r \in Run, Outcome(r), r \notin Tested',
         stack' \in Seq(Run),
         \A i \in DOMAIN stack' : i \in DOMAIN stack /\ stack'[i] = stack[i],
         \A q \in Run : q # r => (q \in Tested' <=> q \in Tested)
  PROVE  IInv'
<1>1. PICK s \in States, record \in Records :
        /\ Becomes(r, s, record)
        /\ \/ escaped' = escaped \ {r} /\ Settled(r, s, record)
           \/ escaped' = escaped \cup {r} /\ s \notin {"RUNNING", "TESTING", "CLEANED"}
  BY DEF Outcome
<1>2. /\ state' = [state EXCEPT ![r] = s] /\ last' = [last EXCEPT ![r] = record]
      /\ state \in [Run -> States] /\ last \in [Run -> Records]
  BY <1>1 DEF Becomes, IInv, TypeOK
<1>3. /\ state'[r] = s /\ last'[r] = record
      /\ \A q \in Run : q # r => state'[q] = state[q] /\ last'[q] = last[q]
  BY <1>2
<1>4. \A q \in Run : q # r => (Own(q) \in resources' <=> Own(q) \in resources)
  BY OwnLabels DEF Outcome
<1>5. TypeOK'
  <2>1. state' \in [Run -> States] /\ last' \in [Run -> Records]
    BY <1>2
  <2>2. escaped' \subseteq Run
    BY <1>1 DEF IInv, TypeOK
  <2> QED  BY <2>1, <2>2 DEF TypeOK, Outcome
<1>6. StackInv'
  <2>1. ASSUME NEW i \in DOMAIN stack'  PROVE state'[stack'[i]] = "TESTING"
    <3>1. stack'[i] \in Run /\ stack'[i] # r
      BY <2>1 DEF Tested
    <3>2. state[stack'[i]] = "TESTING"
      BY <2>1 DEF IInv, StackInv
    <3> QED  BY <3>1, <3>2, <1>3
  <2>2. \A i, j \in DOMAIN stack' : stack'[i] = stack'[j] => i = j
    BY DEF IInv, StackInv
  <2> QED  BY <2>1, <2>2 DEF StackInv
<1>7. LabInv'
  <2> SUFFICES ASSUME NEW q \in Run
               PROVE  /\ state'[q] \in {"RUNNING", "TESTING"} => Own(q) \in resources'
                      /\ state'[q] = "CLEANED" => Own(q) \notin resources'
    BY DEF LabInv, Own
  <2>1. CASE q = r
    BY <2>1, <1>1, <1>3 DEF Settled
  <2>2. CASE q # r
    BY <2>2, <1>3, <1>4 DEF IInv, LabInv
  <2> QED  BY <2>1, <2>2
<1>8. LastRecordIsTrue'
  <2> DEFINE True(q) ==
        /\ last'[q] = "PASS" => IF Own(q) \in resources' THEN state'[q] = "RUNNING"
                                                         ELSE state'[q] = "CLEANED"
        /\ last'[q] # "PASS" => state'[q] = IF last'[q] = "none" THEN "NEW" ELSE "CLEANUP_FAILED"
  <2>1. ASSUME NEW q \in Run \ (Tested' \cup escaped')  PROVE True(q)
    <3>1. CASE q = r
      BY <3>1, <2>1, <1>1, <1>3 DEF Settled
    <3>2. CASE q # r
      <4>1. q \in Run \ (Tested \cup escaped)
        BY <3>2, <2>1, <1>1
      <4> QED  BY <3>2, <4>1, <1>3, <1>4 DEF IInv, LastRecordIsTrue
    <3> QED  BY <3>1, <3>2
  <2> QED  BY <2>1 DEF LastRecordIsTrue, Own
<1> QED  BY <1>5, <1>6, <1>7, <1>8 DEF IInv

LEMMA TestBeginsStep ==
  ASSUME IInv, NEW r \in Run, TestBegins(r)
  PROVE  IInv'
<1>1. /\ state \in [Run -> States] /\ state' = [state EXCEPT ![r] = "TESTING"]
      /\ stack \in Seq(Run) /\ stack' = Append(stack, r)
      /\ UNCHANGED <<last, resources, escaped>>
  BY DEF TestBegins, IInv, TypeOK
<1>2. /\ stack' \in Seq(Run) /\ DOMAIN stack = 1..Len(stack) /\ Len(stack) \in Nat
      /\ DOMAIN stack' = 1..(Len(stack) + 1)
      /\ stack'[Len(stack) + 1] = r
      /\ \A i \in 1..Len(stack) : stack'[i] = stack[i]
  BY <1>1
<1>3. \A i \in 1..Len(stack) : stack[i] \in Run /\ stack[i] # r
  BY <1>1, <1>2 DEF TestBegins, IInv, StackInv
<1>4. Tested' = Tested \cup {r}
  <2>1. ASSUME NEW q  PROVE q \in Tested' <=> q \in Tested \cup {r}
    <3>1. q \in Tested' <=> \E i \in 1..(Len(stack) + 1) : stack'[i] = q
      BY <1>2 DEF Tested
    <3>2. q \in Tested <=> \E i \in 1..Len(stack) : stack[i] = q
      BY <1>2 DEF Tested
    <3> QED  BY <3>1, <3>2, <1>2
  <2> QED  BY <2>1
<1>5. TypeOK'
  <2>1. state' \in [Run -> States]
    BY <1>1 DEF States
  <2> QED  BY <2>1, <1>1, <1>2 DEF IInv, TypeOK
<1>6. StackInv'
  <2>1. ASSUME NEW i \in DOMAIN stack'  PROVE state'[stack'[i]] = "TESTING"
    <3>1. CASE i = Len(stack) + 1
      BY <3>1, <1>1, <1>2
    <3>2. CASE i \in 1..Len(stack)
      BY <3>2, <1>1, <1>2, <1>3 DEF IInv, StackInv
    <3> QED  BY <2>1, <1>2, <3>1, <3>2
  <2>2. ASSUME NEW i \in DOMAIN stack', NEW j \in DOMAIN stack', stack'[i] = stack'[j]
        PROVE  i = j
    BY <2>2, <1>2, <1>3 DEF IInv, StackInv
  <2> QED  BY <2>1, <2>2 DEF StackInv
<1>7. LabInv'
  BY <1>1 DEF TestBegins, IInv, LabInv, Own
<1>8. LastRecordIsTrue'
  BY <1>1, <1>4 DEF IInv, LastRecordIsTrue, Own
<1> QED  BY <1>5, <1>6, <1>7, <1>8 DEF IInv

LEMMA PredicateRaisesStep ==
  ASSUME IInv, PredicateRaises
  PROVE  IInv'
<1>1. /\ stack # << >> /\ Unwind /\ escaped' = escaped \cup {Innermost}
      /\ UNCHANGED <<state, last, resources>>
  BY DEF PredicateRaises
<1>2. /\ stack' \in Seq(Run)
      /\ \A i \in DOMAIN stack' : i \in DOMAIN stack /\ stack'[i] = stack[i]
      /\ \A r \in Run : r \in Tested' <=> r \in Tested /\ r # Innermost
  BY <1>1, Unwinding
<1>3. Innermost \in Run
  BY <1>1 DEF IInv, TypeOK, Innermost
<1>4. TypeOK'
  BY <1>1, <1>2, <1>3 DEF IInv, TypeOK
<1>5. StackInv' /\ LabInv'
  BY <1>1, <1>2 DEF IInv, StackInv, LabInv, Own
<1>6. LastRecordIsTrue'
  BY <1>1, <1>2 DEF IInv, LastRecordIsTrue, Own
<1> QED  BY <1>4, <1>5, <1>6 DEF IInv

LEMMA TestReturnsStep ==
  ASSUME IInv, TestReturns
  PROVE  IInv'
<1>1. stack # << >> /\ Unwind
  BY DEF TestReturns
<1>2. Innermost \in Run /\ Outcome(Innermost)
  BY ReturnOutcome
<1>3. /\ stack' \in Seq(Run)
      /\ \A i \in DOMAIN stack' : i \in DOMAIN stack /\ stack'[i] = stack[i]
      /\ \A r \in Run : r \in Tested' <=> r \in Tested /\ r # Innermost
  BY <1>1, Unwinding
<1> QED  BY <1>2, <1>3, OutcomePreserves

LEMMA NextIInv == IInv /\ [Next]_vars => IInv'
<1> SUFFICES ASSUME IInv, [Next]_vars  PROVE IInv'
  OBVIOUS
<1>1. ASSUME NEW r \in Run, Up(r) \/ Status(r) \/ TestOfResult(r) \/ Down(r)
      PROVE  IInv'
  <2>1. Outcome(r) /\ r \notin Tested /\ stack' = stack
    BY <1>1, CallOutcome
  <2>2. Tested' = Tested /\ stack \in Seq(Run)
    BY <2>1 DEF Tested, IInv, TypeOK
  <2> QED  BY <2>1, <2>2, OutcomePreserves
<1>2. CASE UNCHANGED vars
  BY <1>2 DEF vars, IInv, TypeOK, StackInv, LabInv, LastRecordIsTrue, Tested, Own
<1> QED
  BY <1>1, <1>2, TestBeginsStep, TestReturnsStep, PredicateRaisesStep DEF Next

\* The inductive invariant holds in every behaviour.
THEOREM Invariance == Spec => []IInv
  BY InitIInv, NextIInv, PTL DEF Spec

(***************************************************************************)
(* The properties                                                          *)
(***************************************************************************)
\* Every variable keeps its type.
THEOREM TypeCorrect == Spec => []TypeOK
<1>1. IInv => TypeOK
  BY DEF IInv
<1> QED  BY <1>1, Invariance, PTL

\* A CLEANED run has nothing left in the runner.
THEOREM CleanedReleases == Spec => []CleanedMeansReleased
<1>1. IInv => CleanedMeansReleased
  BY DEF IInv, LabInv, CleanedMeansReleased
<1> QED  BY <1>1, Invariance, PTL

\* A run keeps its lab while its predicate executes.
THEOREM TestKeepsLab == Spec => []TestedLabStays
<1>1. ASSUME IInv  PROVE TestedLabStays
  <2> SUFFICES ASSUME NEW i \in DOMAIN stack
               PROVE  state[stack[i]] = "TESTING" /\ Own(stack[i]) \in resources
    BY DEF TestedLabStays, Tested
  <2>1. stack[i] \in Run
    BY <1>1 DEF IInv, TypeOK
  <2> QED  BY <1>1, <2>1 DEF IInv, StackInv, LabInv
<1> QED  BY <1>1, Invariance, PTL

\* The latest record of a run tells the truth about its lab.
THEOREM RecordsTrue == Spec => []LastRecordIsTrue
<1>1. IInv => LastRecordIsTrue
  BY DEF IInv
<1> QED  BY <1>1, Invariance, PTL

\* No call removes a resource of another run or of another tool.
THEOREM DestroysOwn == Spec => OnlyOwnDestroyed
<1> DEFINE OwnOnly == \A l \in resources \ resources' :
                        \E r \in Run : l = Own(r) /\ state'[r] \in {"CLEANED", "CLEANING"}
<1>1. ASSUME IInv, NEW r \in Run, Outcome(r)  PROVE OwnOnly
  <2>1. PICK s \in States, record \in Records :
          Becomes(r, s, record) /\ (s \in {"CLEANED", "CLEANING"} \/ resources \subseteq resources')
    BY <1>1 DEF Outcome
  <2>2. state'[r] = s
    BY <2>1, <1>1 DEF Becomes, IInv, TypeOK
  <2>3. \A l \in resources \ resources' : l = Own(r)
    BY <1>1 DEF Outcome, IInv, TypeOK
  <2> QED  BY <2>1, <2>2, <2>3
<1>2. ASSUME IInv, Next  PROVE OwnOnly
  <2>1. ASSUME NEW r \in Run, Up(r) \/ Status(r) \/ TestOfResult(r) \/ Down(r)  PROVE OwnOnly
    BY <1>2, <2>1, <1>1, CallOutcome
  <2>2. CASE TestReturns
    BY <1>2, <2>2, <1>1, ReturnOutcome
  <2>3. CASE PredicateRaises \/ \E r \in Run : TestBegins(r)
    BY <2>3 DEF PredicateRaises, TestBegins
  <2> QED  BY <1>2, <2>1, <2>2, <2>3 DEF Next
<1> QED  BY <1>2, Invariance, PTL DEF Spec, OnlyOwnDestroyed

\* A lab that its run can no longer take down was stranded by an exception out of
\* the runner, the predicate or an evidence record: answered calls never do it.
StrandedByException ==
  \A r \in Run \ Tested : Own(r) \in resources /\ state[r] \notin DownAllowed => r \in escaped

\* The converse of LabCanBeReleased, which fails: only an exception strands a lab.
THEOREM OnlyExceptionsStrand == Spec => []StrandedByException
<1>1. ASSUME IInv  PROVE StrandedByException
  <2> SUFFICES ASSUME NEW r \in Run \ (Tested \cup escaped), Own(r) \in resources
               PROVE  state[r] \in DownAllowed
    BY DEF StrandedByException
  <2>1. last[r] = "PASS" => state[r] = "RUNNING"
    BY <1>1 DEF IInv, LastRecordIsTrue
  <2>2. last[r] # "PASS" => state[r] \in {"NEW", "CLEANUP_FAILED"}
    BY <1>1 DEF IInv, LastRecordIsTrue
  <2> QED  BY <2>1, <2>2 DEF DownAllowed
<1> QED  BY <1>1, Invariance, PTL

\* No call of any run takes back what a cleanup has reached: a CLEANED run stays
\* CLEANED, and one whose cleanup failed stays retryable until it is CLEANED,
\* unless the runner raises out of the retry.
CleanupKeepsGround ==
  \A r \in Run :
    /\ state[r] = "CLEANED" => state'[r] = "CLEANED"
    /\ state[r] = "CLEANUP_FAILED" =>
         \/ state'[r] \in {"CLEANUP_FAILED", "CLEANED"}
         \/ RunnerRaises /\ state'[r] = "CLEANING" /\ r \in escaped'

\* A call moves its own run only, and a run that a cleanup has reached only by
\* another cleanup.
LEMMA CallsKeepGround ==
  ASSUME TypeOK, NEW q \in Run, NEW r \in Run, state[r] \in {"CLEANED", "CLEANUP_FAILED"},
         Up(q) \/ Status(q) \/ TestBegins(q) \/ TestOfResult(q) \/ Down(q)
  PROVE  /\ state[r] = "CLEANED" => state'[r] = "CLEANED"
         /\ state[r] = "CLEANUP_FAILED" =>
              \/ state'[r] \in {"CLEANUP_FAILED", "CLEANED"}
              \/ RunnerRaises /\ state'[r] = "CLEANING" /\ r \in escaped'
<1>1. state \in [Run -> States]  BY DEF TypeOK
<1>2. CASE q # r
  <2>1. \E s \in {state'[q]} : state' = [state EXCEPT ![q] = s]
    BY <1>1 DEF Up, Status, TestBegins, TestOfResult, Down, Cleanup, Destroy, Answers, Raises, Becomes
  <2> QED  BY <1>1, <1>2, <2>1
<1>3. CASE q = r
  <2>1. Down(r)  BY <1>3 DEF Up, Status, TestBegins, TestOfResult
  <2>2. state[r] = "CLEANED" => Answers(r, "CLEANED", "PASS")
    BY <2>1 DEF Down, DownAllowed
  <2>3. state[r] = "CLEANUP_FAILED" =>
          \/ \E s \in {"CLEANED", "CLEANUP_FAILED"}, record \in {"PASS", "CLEANUP_FAILED"} :
                Answers(r, s, record)
          \/ RunnerRaises /\ Raises(r, "CLEANING", last[r])
    BY <2>1 DEF Down, Cleanup, Destroy
  <2> QED  BY <1>1, <2>2, <2>3 DEF Answers, Raises, Becomes
<1> QED  BY <1>2, <1>3

\* What RetryReleases needs besides a runner that once answers: no call loses ground.
THEOREM CleanupNeverRegresses == Spec => [][CleanupKeepsGround]_vars
<1>1. ASSUME IInv, Next  PROVE CleanupKeepsGround
  <2> SUFFICES ASSUME NEW r \in Run, state[r] \in {"CLEANED", "CLEANUP_FAILED"}
               PROVE  /\ state[r] = "CLEANED" => state'[r] = "CLEANED"
                      /\ state[r] = "CLEANUP_FAILED" =>
                           \/ state'[r] \in {"CLEANUP_FAILED", "CLEANED"}
                           \/ RunnerRaises /\ state'[r] = "CLEANING" /\ r \in escaped'
    BY DEF CleanupKeepsGround
  <2>1. ASSUME NEW q \in Run, Up(q) \/ Status(q) \/ TestBegins(q) \/ TestOfResult(q) \/ Down(q)
        PROVE  /\ state[r] = "CLEANED" => state'[r] = "CLEANED"
               /\ state[r] = "CLEANUP_FAILED" =>
                    \/ state'[r] \in {"CLEANUP_FAILED", "CLEANED"}
                    \/ RunnerRaises /\ state'[r] = "CLEANING" /\ r \in escaped'
    BY <1>1, <2>1, CallsKeepGround DEF IInv
  <2>2. CASE TestReturns
    <3>1. Innermost \in Run /\ state[Innermost] = "TESTING" /\ state \in [Run -> States]
      BY <1>1, <2>2 DEF IInv, TypeOK, StackInv, TestReturns, Innermost
    <3>2. \E s \in {state'[Innermost]} : state' = [state EXCEPT ![Innermost] = s]
      BY <2>2, <3>1 DEF TestReturns, Destroy, Answers, Raises, Becomes
    <3> QED  BY <3>1, <3>2
  <2>3. CASE PredicateRaises
    BY <2>3 DEF PredicateRaises
  <2> QED  BY <1>1, <2>1, <2>2, <2>3 DEF Next
<1> QED  BY <1>1, Invariance, PTL DEF Spec
=============================================================================
