--------------------------- MODULE LabTestProofs ---------------------------
(***************************************************************************)
(* Theorems about LabTest: the wait of eventually() for every timeout,     *)
(* interval and lateness, what its success rests on for any collectors,    *)
(* and the reach of the frame parser for every frame.                      *)
(***************************************************************************)
EXTENDS LabTest, TLAPS

-----------------------------------------------------------------------------
(***************************************************************************)
(* The wait                                                                *)
(***************************************************************************)
\* When the current call of the predicate began.
Began == now - spent

\* Where the clock can be.  Attempt n begins no earlier than n - 1 intervals,
\* unless the deadline cut the last sleep short.
ClockInv ==
  /\ polling \in {"predicate", "sampled", "sleep"} => timeout > 0 /\ interval > 0 /\ attempts > 0
  /\ polling \in {"predicate", "sampled"} =>
       /\ 0 <= Began /\ Began <= timeout + MaxOversleep
       /\ (attempts - 1) * interval <= Began \/ Began >= timeout
       /\ (attempts - 2) * interval < timeout
  /\ polling = "sleep" =>
       /\ wake <= timeout /\ now <= wake + MaxOversleep
       /\ attempts * interval <= wake \/ wake = timeout
       /\ (attempts - 1) * interval < timeout
  /\ polling = "called" => now = 0 /\ attempts = 0

\* A predicate that saw the condition fail saw it after it had begun.
SeenInv ==
  polling = "sampled" /\ ~seen /\ holds => since >= Began

ResultInv ==
  /\ result # "none" => polling = "done"
  /\ StableConditionIsNoticed
  /\ OverrunIsBounded

WaitInv == EventuallyTypeOK /\ ClockInv /\ SeenInv /\ ResultInv

\* A bound survives a late wake-up.
LEMMA LeqPlus == \A a, b, c \in Nat : a <= b => a <= b + c
OBVIOUS

\* The first look.
LEMMA FirstPollKeeps ==
  ASSUME WaitInv, RejectsArguments \/ FirstPoll
  PROVE  WaitInv'
<1>1. CASE RejectsArguments
  BY <1>1, TimeAssumption DEF WaitInv, RejectsArguments, EventuallyTypeOK, ClockInv, SeenInv, ResultInv,
     StableConditionIsNoticed, OverrunIsBounded, Began, callVars, conditionVars
<1>2. CASE FirstPoll
  <2>1. attempts' = 1 /\ now' = 0 /\ spent' = 0 /\ polling' = "predicate"
        /\ timeout > 0 /\ interval > 0 /\ result' = result /\ result = "none"
    BY <1>2, TimeAssumption DEF WaitInv, FirstPoll, Attempt, MaxAttempts, EventuallyTypeOK,
       ClockInv, ResultInv
  <2> QED
    BY <1>2, <2>1, TimeAssumption DEF WaitInv, FirstPoll, MaxAttempts, EventuallyTypeOK, ClockInv, SeenInv,
       ResultInv, StableConditionIsNoticed, OverrunIsBounded, Began, callVars, conditionVars
<1> QED BY <1>1, <1>2

\* The predicate looks.
LEMMA SampleKeeps ==
  ASSUME WaitInv, Sample
  PROVE  WaitInv'
BY TimeAssumption DEF WaitInv, Sample, EventuallyTypeOK, ClockInv, SeenInv, ResultInv,
   StableConditionIsNoticed, OverrunIsBounded, Began, callVars, conditionVars

\* The loop returns, or sleeps until the next look or the deadline.
LEMMA PredicateReturnsKeeps ==
  ASSUME WaitInv, PredicateReturns
  PROVE  WaitInv'
<1> USE DEF WaitInv, EventuallyTypeOK, Began
<1>1. UNCHANGED <<timeout, interval, now, attempts, spent, seen, holds, since>>
  BY DEF PredicateReturns, callVars, conditionVars
<1>2. ASSUME seen \/ TimeIsUp, polling' = "done", elapsed' = now, UNCHANGED wake,
             result' = IF seen THEN "PASS" ELSE "FAIL"
      PROVE  WaitInv'
  <2>1. elapsed' <= timeout + MaxOversleep + MaxPoll /\ (attempts - 2) * interval < timeout
    BY <1>2, TimeAssumption DEF ClockInv, PredicateReturns
  <2>2. ~seen /\ holds => since >= timeout - MaxPoll
    BY <1>2, TimeAssumption DEF SeenInv, TimeIsUp, PredicateReturns
  <2>3. OverrunIsBounded' BY <1>1, <2>1 DEF OverrunIsBounded
  <2>4. StableConditionIsNoticed' BY <1>1, <1>2, <2>2 DEF StableConditionIsNoticed
  <2>5. ClockInv' /\ SeenInv' BY <1>2 DEF ClockInv, SeenInv
  <2>6. EventuallyTypeOK' BY <1>1, <1>2
  <2> QED BY <1>2, <2>3, <2>4, <2>5, <2>6 DEF ResultInv
<1>3. ASSUME ~seen, ~TimeIsUp, polling' = "sleep", SleepsUntilDue, UNCHANGED <<result, elapsed>>
      PROVE  WaitInv'
  <2>1. /\ timeout > 0 /\ interval > 0 /\ attempts > 0 /\ now < timeout
        /\ (attempts - 1) * interval <= now
    BY <1>3, TimeAssumption DEF ClockInv, PredicateReturns, TimeIsUp
  <2>2. /\ wake' \in Nat /\ now <= wake' /\ wake' <= timeout
        /\ wake' = now + interval \/ wake' = timeout
    BY <1>3, <2>1, TimeAssumption DEF SleepsUntilDue
  <2>3. attempts * interval = (attempts - 1) * interval + interval
    BY TimeAssumption DEF MaxAttempts
  <2>4. (attempts - 1) * interval \in Int BY TimeAssumption DEF MaxAttempts
  <2>5. attempts * interval <= wake' \/ wake' = timeout
    BY <2>1, <2>2, <2>3, <2>4
  <2>6. (attempts - 1) * interval < timeout BY <2>1, <2>4
  <2>7. result = "none" BY <1>3 DEF ResultInv, PredicateReturns
  <2>8. ClockInv'
    <3>1. /\ timeout' > 0 /\ interval' > 0 /\ attempts' > 0
          /\ wake' <= timeout' /\ now' <= wake' + MaxOversleep
      <4>0. now \in Nat /\ MaxOversleep \in Nat BY TimeAssumption
      <4>1. now <= wake' /\ wake' \in Nat BY ONLY <2>2, <4>0
      <4>2. now <= wake' + MaxOversleep BY ONLY <4>0, <4>1, LeqPlus
      <4>3. timeout > 0 /\ interval > 0 /\ attempts > 0 /\ wake' <= timeout BY <2>1, <2>2
      <4> QED BY ONLY <1>1, <4>2, <4>3
    <3>2. attempts' * interval' <= wake' \/ wake' = timeout' BY ONLY <1>1, <2>5
    <3>3. (attempts' - 1) * interval' < timeout' BY ONLY <1>1, <2>6
    <3> QED BY ONLY <1>3, <3>1, <3>2, <3>3 DEF ClockInv
  <2>9. EventuallyTypeOK' BY <1>1, <1>3, <2>2
  <2> QED BY <1>1, <1>3, <2>7, <2>8, <2>9 DEF ResultInv, SeenInv, StableConditionIsNoticed, OverrunIsBounded
<1> QED BY <1>2, <1>3 DEF PredicateReturns, Returns

\* The next look.
LEMMA SleeperReturnsKeeps ==
  ASSUME WaitInv, SleeperReturns
  PROVE  WaitInv'
<1> USE DEF WaitInv, EventuallyTypeOK, Began
<1>1. /\ UNCHANGED <<timeout, interval, now, seen, wake, result, elapsed, holds, since>>
      /\ polling = "sleep" /\ now >= wake /\ polling' = "predicate" /\ spent' = 0
      /\ attempts' \in {attempts, attempts + 1} /\ attempts' \in 0..MaxAttempts
  BY TimeAssumption DEF SleeperReturns, callVars, conditionVars, Attempt, MaxAttempts
<1>2. /\ timeout > 0 /\ interval > 0 /\ attempts > 0 /\ attempts * interval \in Int
      /\ (attempts - 1) * interval \in Int
      /\ now <= timeout + MaxOversleep
      /\ attempts * interval <= now \/ now >= timeout
      /\ (attempts - 1) * interval < timeout
  BY <1>1, TimeAssumption DEF ClockInv, MaxAttempts
<1>3. /\ (attempts - 1) * interval <= attempts * interval
      /\ (attempts - 2) * interval <= (attempts - 1) * interval
      /\ ((attempts + 1) - 1) * interval = attempts * interval
      /\ ((attempts + 1) - 2) * interval = (attempts - 1) * interval
      /\ (attempts - 2) * interval \in Int
  <2>1. attempts \in Int /\ interval \in Int BY TimeAssumption DEF MaxAttempts
  <2> QED BY ONLY <1>2, <2>1
<1>4. /\ (attempts' - 1) * interval <= now \/ now >= timeout
      /\ (attempts' - 2) * interval < timeout
  <2>1. timeout \in Int /\ now \in Int BY TimeAssumption
  <2>2. CASE attempts' = attempts BY ONLY <1>2, <1>3, <2>1, <2>2
  <2>3. CASE attempts' = attempts + 1
    <3>1. /\ (attempts' - 1) * interval = attempts * interval
          /\ (attempts' - 2) * interval = (attempts - 1) * interval
      BY ONLY <1>3, <2>3
    <3> QED BY ONLY <1>2, <2>1, <3>1
  <2> QED BY <1>1, <2>2, <2>3
<1>5. ClockInv'
  <2>1. Began' = now /\ 0 <= now BY <1>1
  <2>2. timeout' > 0 /\ interval' > 0 /\ attempts' > 0 BY <1>1, <1>2
  <2>3. 0 <= Began' /\ Began' <= timeout' + MaxOversleep
    <3>1. now <= timeout + MaxOversleep BY ONLY <1>2
    <3>2. timeout' + MaxOversleep = timeout + MaxOversleep BY ONLY <1>1
    <3> QED BY ONLY <2>1, <3>1, <3>2
  <2>4. /\ (attempts' - 1) * interval' <= Began' \/ Began' >= timeout'
        /\ (attempts' - 2) * interval' < timeout'
    BY ONLY <1>1, <1>4, <2>1
  <2> QED BY ONLY <1>1, <2>2, <2>3, <2>4 DEF ClockInv
<1>6. result = "none" BY <1>1 DEF ResultInv
<1>7. EventuallyTypeOK' BY <1>1, TimeAssumption
<1> QED BY <1>1, <1>5, <1>6, <1>7 DEF ResultInv, SeenInv, StableConditionIsNoticed, OverrunIsBounded

\* Time passes within the bounds of the predicate and of the sleeper.
LEMMA TimePassesKeeps ==
  ASSUME WaitInv, TimePasses
  PROVE  WaitInv'
<1>1. /\ UNCHANGED <<timeout, interval, attempts, polling, seen, wake, result, elapsed, holds, since>>
      /\ now' = now + 1 /\ result = "none"
  BY DEF TimePasses, callVars, conditionVars, WaitInv, ResultInv
<1>2. CASE polling \in {"predicate", "sampled"} /\ spent < MaxPoll /\ spent' = spent + 1
  <2>1. Began' = Began /\ EventuallyTypeOK'
    BY <1>1, <1>2, TimeAssumption DEF WaitInv, EventuallyTypeOK, Began, MaxAttempts
  <2>2. ClockInv' /\ SeenInv' BY <1>1, <1>2, <2>1 DEF WaitInv, ClockInv, SeenInv
  <2> QED BY <1>1, <2>1, <2>2 DEF WaitInv, ResultInv, StableConditionIsNoticed, OverrunIsBounded
<1>3. CASE polling = "sleep" /\ now < wake + MaxOversleep /\ UNCHANGED spent
  BY <1>1, <1>3, TimeAssumption DEF WaitInv, EventuallyTypeOK, Began, ClockInv, SeenInv, ResultInv,
     StableConditionIsNoticed, OverrunIsBounded, MaxAttempts
<1> QED BY <1>2, <1>3 DEF TimePasses

\* The condition changes, or keeps its value, while the loop stands still.
LEMMA ConditionKeeps ==
  ASSUME WaitInv, NEW b \in BOOLEAN, polling # "done", ConditionBecomes(b),
         UNCHANGED <<callVars, now, pollVars>>
  PROVE  WaitInv'
<1>1. UNCHANGED <<timeout, interval, now, attempts, polling, spent, seen, wake, result, elapsed>>
  BY DEF callVars, pollVars
<1>2. holds' = b /\ since' = IF b /\ ~holds THEN now ELSE since
  BY DEF ConditionBecomes
<1>3. EventuallyTypeOK' BY <1>1, <1>2 DEF WaitInv, EventuallyTypeOK
<1>4. SeenInv'
  BY <1>1, <1>2, TimeAssumption DEF WaitInv, EventuallyTypeOK, SeenInv, Began
<1> QED
  BY <1>1, <1>3, <1>4 DEF WaitInv, ClockInv, Began, ResultInv, StableConditionIsNoticed, OverrunIsBounded

\* Every step of a test keeps the wait's invariant.
LEMMA StepKeepsWait ==
  ASSUME WaitInv, [TestNext]_testVars
  PROVE  WaitInv'
<1>1. CASE Polls
  BY <1>1, FirstPollKeeps, SampleKeeps, PredicateReturnsKeeps, SleeperReturnsKeeps DEF Polls, PollStep
<1>2. CASE Waits
  BY <1>2, TimePassesKeeps DEF Waits
<1>3. CASE DocumentChanges
  <2>1. Agrees(expected, doc') \in BOOLEAN BY DEF Agrees
  <2> QED BY <1>3, <2>1, ConditionKeeps DEF DocumentChanges
<1>4. CASE UNCHANGED eventuallyVars
  BY <1>4 DEF eventuallyVars, callVars, pollVars, conditionVars, WaitInv, EventuallyTypeOK, ClockInv, Began,
     SeenInv, ResultInv, StableConditionIsNoticed, OverrunIsBounded
<1> QED BY <1>1, <1>2, <1>3, <1>4 DEF TestNext, ParseFrame, testVars

LEMMA InitWaits ==
  ASSUME TestInit
  PROVE  WaitInv
<1>1. Agrees(expected, doc) \in BOOLEAN BY DEF Agrees
<1>2. PollInit /\ since = 0 /\ polling \in {"called", "done"} /\ holds \in BOOLEAN
  BY <1>1 DEF TestInit
<1>3. EventuallyTypeOK
  <2>1. /\ timeout \in 0..MaxTime /\ interval \in 0..MaxTime
        /\ now \in Nat /\ attempts \in 0..MaxAttempts
        /\ spent \in 0..MaxPoll /\ wake \in Nat /\ since \in Nat /\ elapsed \in Nat
    BY <1>2, TimeAssumption DEF PollInit, MaxAttempts
  <2>2. seen \in BOOLEAN /\ holds \in BOOLEAN BY <1>2 DEF PollInit
  <2> QED BY <1>2, <2>1, <2>2 DEF PollInit, EventuallyTypeOK
<1> QED BY <1>2, <1>3 DEF PollInit, WaitInv, ClockInv, SeenInv, ResultInv, StableConditionIsNoticed,
        OverrunIsBounded

\* The wait keeps its invariant in every state of a test.
LEMMA Waiting == TestSpec => []WaitInv
<1>1. TestInit => WaitInv BY InitWaits
<1>2. WaitInv /\ [TestNext]_testVars => WaitInv' BY StepKeepsWait
<1> QED BY <1>1, <1>2, PTL DEF TestSpec

\* eventually() keeps every variable of the wait within its type, and its count of
\* attempts within MaxTime + 2, whatever the condition does.
THEOREM WaitTypeCorrect == TestSpec => []EventuallyTypeOK
<1>1. WaitInv => EventuallyTypeOK BY DEF WaitInv
<1> QED BY <1>1, Waiting, PTL

\* After a FAIL of eventually() the condition does not hold, or it came true no
\* earlier than the last call of the predicate could have looked.
THEOREM ConditionNoticed == TestSpec => []StableConditionIsNoticed
<1>1. WaitInv => StableConditionIsNoticed BY DEF WaitInv, ResultInv
<1> QED BY <1>1, Waiting, PTL

\* eventually() ends at most one late wake-up and one call of the predicate after
\* its timeout, and polls no more often than the interval allows.
THEOREM OverrunBounded == TestSpec => []OverrunIsBounded
<1>1. WaitInv => OverrunIsBounded BY DEF WaitInv, ResultInv
<1> QED BY <1>1, Waiting, PTL

\* The time at which the longest wait is over.
Deadline == timeout + MaxOversleep + MaxPoll

\* What the loop may still do before the clock must move: a sleeper that is due
\* returns, the predicate looks and answers, and the next sleep is not due yet.
Stage ==
  CASE polling = "called" -> 3
    [] polling = "sleep" -> IF now >= wake THEN 3 ELSE 0
    [] polling = "predicate" -> 2
    [] polling = "sampled" -> 1
    [] polling = "done" -> 0

WaitLeft == 4 * (Deadline - now) + Stage

\* The wait spends a natural number with each step and each tick, however often the
\* condition changes in between.
WaitAdvances ==
  /\ Polls \/ Waits => WaitLeft' \in Nat /\ WaitLeft' < WaitLeft
  /\ DocumentChanges => WaitLeft' = WaitLeft

DeadlineInv == polling # "done" => now <= Deadline

LEMMA ClockBeforeDeadline ==
  ASSUME WaitInv
  PROVE  DeadlineInv
<1>1. /\ timeout \in Nat /\ MaxOversleep \in Nat /\ MaxPoll \in Nat /\ now \in Nat /\ wake \in Nat
      /\ spent \in 0..MaxPoll
  BY TimeAssumption DEF WaitInv, EventuallyTypeOK
<1>2. polling \in {"predicate", "sampled"} => now <= timeout + MaxOversleep + spent
  BY <1>1 DEF WaitInv, ClockInv, Began
<1>3. polling = "sleep" => now <= timeout + MaxOversleep
  BY <1>1 DEF WaitInv, ClockInv
<1> QED  BY <1>1, <1>2, <1>3 DEF DeadlineInv, Deadline, WaitInv, EventuallyTypeOK, ClockInv

LEMMA PollsAdvance ==
  ASSUME WaitInv, PollStep
  PROVE  timeout' = timeout /\ now' = now /\ Stage' < Stage /\ Stage' \in 0..3
<1> USE DEF Stage
<1>1. CASE RejectsArguments
  BY <1>1 DEF RejectsArguments, callVars
<1>2. CASE FirstPoll
  BY <1>2 DEF FirstPoll, callVars
<1>3. CASE Sample
  BY <1>3 DEF Sample, callVars
<1>4. CASE PredicateReturns
  <2>1. polling = "sampled" /\ now' = now /\ timeout' = timeout
    BY <1>4 DEF PredicateReturns, callVars
  <2>2. CASE polling' = "done"
    BY <2>1, <2>2
  <2>3. CASE polling' # "done"
    <3>1. polling' = "sleep" /\ ~TimeIsUp /\ SleepsUntilDue
      BY <1>4, <2>3 DEF PredicateReturns, Returns
    <3>2. interval \in Nat /\ interval > 0 /\ now \in Nat /\ timeout \in Nat
      BY <2>1, TimeAssumption DEF WaitInv, EventuallyTypeOK, ClockInv
    <3>3. wake' > now'
      BY <2>1, <3>1, <3>2 DEF TimeIsUp, SleepsUntilDue
    <3>4. ~(now' >= wake')
      <4>1. now' \in Nat /\ wake' \in Nat
        BY <2>1, <3>1, <3>2 DEF TimeIsUp, SleepsUntilDue
      <4> QED  BY <3>3, <4>1
    <3> QED  BY <2>1, <3>1, <3>4
  <2> QED  BY <2>2, <2>3
<1>5. CASE SleeperReturns
  BY <1>5 DEF SleeperReturns, callVars
<1> QED  BY <1>1, <1>2, <1>3, <1>4, <1>5 DEF PollStep

\* Four for a tick outweigh any change of stage.
LEMMA WaitSpends ==
  ASSUME Deadline \in Nat, Deadline' = Deadline, now \in Nat, now' \in Nat, now' <= Deadline,
         Stage \in 0..3, Stage' \in 0..3,
         (now' = now /\ Stage' < Stage) \/ now' = now + 1
  PROVE  WaitLeft' \in Nat /\ WaitLeft' < WaitLeft
<1> DEFINE D == Deadline
           n == now
           m == now'
           s == Stage
           t == Stage'
           before == 4 * (D - n) + s
           after == 4 * (D - m) + t
<1>1. WaitLeft = before /\ WaitLeft' = after  BY DEF WaitLeft
<1>2. /\ D \in Nat /\ n \in Nat /\ m \in Nat /\ m <= D /\ s \in 0..3 /\ t \in 0..3
      /\ (m = n /\ t < s) \/ m = n + 1
  OBVIOUS
<1> HIDE DEF D, n, m, s, t
<1>3. after \in Nat /\ after < before  BY <1>2
<1> HIDE DEF before, after
<1> QED  BY <1>1, <1>3

\* The half of PollingEnds that needs no fairness: the loop of eventually() cannot
\* go on for ever, nor spin without the clock moving.
THEOREM WaitCannotRunForever == TestSpec => [][WaitAdvances]_testVars
<1>1. ASSUME WaitInv, WaitInv', DeadlineInv, DeadlineInv'  PROVE WaitAdvances
  <2>1. /\ timeout \in Nat /\ MaxOversleep \in Nat /\ MaxPoll \in Nat
        /\ now \in Nat /\ now' \in Nat
    BY <1>1, TimeAssumption DEF WaitInv, EventuallyTypeOK
  <2>2. Stage \in 0..3
    BY <1>1 DEF WaitInv, EventuallyTypeOK, Stage
  <2>3. Deadline \in Nat  BY <2>1 DEF Deadline
  <2>4. ASSUME Polls  PROVE WaitLeft' \in Nat /\ WaitLeft' < WaitLeft
    <3>1. timeout' = timeout /\ now' = now /\ Stage' < Stage /\ Stage' \in 0..3
      BY <1>1, <2>4, PollsAdvance DEF Polls
    <3>2. Deadline' = Deadline  BY <3>1 DEF Deadline
    <3>3. polling # "done"
      BY <2>4 DEF Polls, PollStep, RejectsArguments, FirstPoll, Sample, PredicateReturns, SleeperReturns
    <3>4. now <= Deadline  BY <1>1, <3>3 DEF DeadlineInv
    <3> QED  BY <2>1, <2>3, <2>2, <3>1, <3>2, <3>4, WaitSpends
  <2>5. ASSUME Waits  PROVE WaitLeft' \in Nat /\ WaitLeft' < WaitLeft
    <3>1. timeout' = timeout /\ now' = now + 1 /\ polling' = polling /\ polling # "done"
      BY <2>5 DEF Waits, TimePasses, callVars
    <3>2. Deadline' = Deadline  BY <3>1 DEF Deadline
    <3>3. now' <= Deadline'  BY <1>1, <3>1 DEF DeadlineInv
    <3>4. Stage' \in 0..3
      BY <1>1 DEF WaitInv, EventuallyTypeOK, Stage
    <3> QED  BY <2>1, <2>3, <2>2, <3>1, <3>2, <3>3, <3>4, WaitSpends
  <2>6. ASSUME DocumentChanges  PROVE WaitLeft' = WaitLeft
    <3>1. UNCHANGED <<timeout, now, polling, wake>>
      BY <2>6 DEF DocumentChanges, callVars, pollVars
    <3> QED  BY <3>1 DEF WaitLeft, Deadline, Stage
  <2> QED  BY <2>4, <2>5, <2>6 DEF WaitAdvances
<1>2. WaitInv => DeadlineInv  BY ClockBeforeDeadline
<1> QED  BY <1>1, <1>2, Waiting, PTL DEF TestSpec

-----------------------------------------------------------------------------
(***************************************************************************)
(* What a success rests on                                                 *)
(***************************************************************************)
Unanimous(e, d) ==
  /\ \A i \in Slot : d[i].envelope /\ \A r \in Elements(d[i].routes) : RouteValid(r)
  /\ \A i, j \in Slot : i # j => d[i].source # d[j].source
  /\ \A i \in Slot : \E x \in Elements(e) : x.routes = Elements(d[i].routes)
  /\ \A x \in Elements(e) : \E i \in Slot : x.routes = Elements(d[i].routes)

\* What compare_gobgp_snapshots() accepts.
LEMMA ComparisonPasses ==
  ASSUME NEW e, NEW o, CompareReason(e, o) = "none"
  PROVE  Distinct(Sources(o)) /\ RouteSets(e) = RouteSets(o)
BY DEF CompareReason

\* What the parser accepts.
LEMMA DocumentPasses ==
  ASSUME NEW d, DocumentReason(d) = "none"
  PROVE  d.envelope /\ \A r \in Elements(d.routes) : RouteValid(r)
BY DEF DocumentReason

LEMMA AgreementIsUnanimous ==
  ASSUME NEW e, NEW d, Agrees(e, d)
  PROVE  Unanimous(e, d)
<1> DEFINE o == [i \in Slot |-> Snapshot(d[i])]
<1>1. Distinct(Sources(o)) /\ RouteSets(e) = RouteSets(o)
  BY ComparisonPasses DEF Agrees
<1>2. \A i \in Slot : o[i].source = d[i].source /\ o[i].routes = Elements(d[i].routes)
  BY DEF Snapshot
<1>3. \A i, j \in Slot : i # j => d[i].source # d[j].source
  <2>1. DOMAIN Sources(o) = Slot /\ \A i \in Slot : Sources(o)[i] = d[i].source
    BY <1>2 DEF Sources
  <2>2. \A i, j \in DOMAIN Sources(o) : i # j => Sources(o)[i] # Sources(o)[j]
    BY <1>1 DEF Distinct
  <2> HIDE DEF o
  <2> QED BY <2>1, <2>2
<1>4. RouteSets(o) = {Elements(d[i].routes) : i \in Slot}
  <2>1. Elements(o) = {o[i] : i \in Slot} BY DEF Elements
  <2> HIDE DEF o
  <2>2. RouteSets(o) = {o[i].routes : i \in Slot} BY <2>1 DEF RouteSets
  <2> QED BY <1>2, <2>2
<1>5. RouteSets(e) = {x.routes : x \in Elements(e)}
  BY DEF RouteSets
<1>6. /\ \A i \in Slot : \E x \in Elements(e) : x.routes = Elements(d[i].routes)
      /\ \A x \in Elements(e) : \E i \in Slot : x.routes = Elements(d[i].routes)
  <2> HIDE DEF o
  <2> QED BY <1>1, <1>4, <1>5
<1>7. \A i \in Slot : d[i].envelope /\ \A r \in Elements(d[i].routes) : RouteValid(r)
  BY DocumentPasses DEF Agrees
<1> QED BY <1>3, <1>6, <1>7 DEF Unanimous

\* The condition is the agreement of what is served now; a predicate that saw
\* it hold, and the PASS that follows, have read documents that agreed.
RouteInv ==
  test = "routes" =>
    /\ holds = Agrees(expected, doc)
    /\ polling = "sampled" /\ seen => Agrees(expected, sampled)
    /\ result = "PASS" => polling = "done" /\ Agrees(expected, sampled)

LEMMA InitRoutes ==
  ASSUME TestInit
  PROVE  RouteInv
BY DEF TestInit, PollInit, RouteInv

LEMMA StepKeepsRoutes ==
  ASSUME RouteInv, [TestNext]_testVars
  PROVE  RouteInv'
<1> SUFFICES ASSUME test' = "routes"
             PROVE  /\ holds' = Agrees(expected', doc')
                    /\ polling' = "sampled" /\ seen' => Agrees(expected', sampled')
                    /\ result' = "PASS" => polling' = "done" /\ Agrees(expected', sampled')
  BY DEF RouteInv
<1> USE DEF RouteInv
<1>1. CASE Polls
  <2>1. UNCHANGED <<test, expected, doc>> BY <1>1 DEF Polls
  <2>2. CASE RejectsArguments \/ FirstPoll \/ SleeperReturns
    BY <1>1, <2>1, <2>2 DEF Polls, RejectsArguments, FirstPoll, SleeperReturns, conditionVars
  <2>3. CASE Sample
    BY <1>1, <2>1, <2>3 DEF Polls, Sample, conditionVars
  <2>4. CASE PredicateReturns
    BY <1>1, <2>1, <2>4 DEF Polls, PredicateReturns, Returns, conditionVars
  <2> QED BY <1>1, <2>2, <2>3, <2>4 DEF Polls, PollStep
<1>2. CASE Waits
  BY <1>2 DEF Waits, TimePasses, conditionVars, routeVars
<1>3. CASE DocumentChanges
  BY <1>3 DEF DocumentChanges, ConditionBecomes, pollVars
<1>4. CASE ParseFrame \/ UNCHANGED testVars
  BY <1>4 DEF ParseFrame, testVars, eventuallyVars, pollVars, conditionVars, routeVars
<1> QED BY <1>1, <1>2, <1>3, <1>4 DEF TestNext

\* A wait on the collectors ends with PASS only when each of them gave a
\* well-formed snapshot under a name of its own, one of those expected, and none
\* that was expected was missing.
THEOREM SuccessUnanimous == TestSpec => []SuccessIsUnanimous
<1>1. TestInit => RouteInv BY InitRoutes
<1>2. RouteInv /\ [TestNext]_testVars => RouteInv' BY StepKeepsRoutes
<1>3. RouteInv => SuccessIsUnanimous
  BY AgreementIsUnanimous DEF RouteInv, SuccessIsUnanimous, Unanimous
<1> QED BY <1>1, <1>2, <1>3, PTL DEF TestSpec

-----------------------------------------------------------------------------
(***************************************************************************)
(* The frame parser                                                        *)
(***************************************************************************)
\* How many tags are read before the capture, or the limit of two, ends them.
LEMMA TagsAreRead ==
  ASSUME NEW f, {f.len, f.tags, f.header, f.ip, f.udp} \subseteq Nat, f.len >= 14
  PROVE  TagsRead(f) \in 0..2 /\ 14 + 4 * TagsRead(f) <= f.len
<1> DEFINE P(k) == /\ k <= f.tags /\ 14 + 4 * k <= f.len
                   /\ k < 2 => k + 1 > f.tags \/ 14 + 4 * (k + 1) > f.len
<1>1. P(0) \/ P(1) \/ P(2) OBVIOUS
<1>2. \E k \in 0..2 : P(k) BY <1>1
<1> QED BY <1>2 DEF TagsRead

\* No byte beyond the capture is read.
LEMMA ParserReadsInside ==
  ASSUME NEW f, {f.len, f.tags, f.header, f.ip, f.udp} \subseteq Nat
  PROVE  /\ BytesRead(f) <= f.len
         /\ FramePasses(f) => InnerFrame(f)[2] <= f.len
<1> USE DEF LinkEnd
<1>1. CASE f.len < 14
  BY <1>1 DEF BytesRead, FramePasses, LinkAccepted
<1>2. CASE f.len >= 14 /\ ~LinkAccepted(f)
  BY <1>2, TagsAreRead DEF BytesRead, FramePasses
<1>3. CASE LinkAccepted(f) /\ ~IpAccepted(f)
  BY <1>3 DEF LinkAccepted, FixedHeaderCaptured, BytesRead, FramePasses
<1>4. CASE LinkAccepted(f) /\ IpAccepted(f)
  <2>1. /\ f.type \in {"ipv4", "ipv6"} /\ FixedHeaderCaptured(f)
        /\ UdpStart(f) \in Nat /\ IpPayload(f) \in Int /\ UdpStart(f) + 8 <= f.len
    BY <1>4 DEF IpAccepted, IpLengthAccepted, UdpStart, IpPayload
  <2>2. CASE ~UdpAccepted(f)
    BY <1>4, <2>1, <2>2 DEF LinkAccepted, BytesRead, FramePasses
  <2>3. CASE UdpAccepted(f)
    <3>1. UdpStart(f) + f.udp <= f.len BY <2>3 DEF UdpAccepted
    <3> QED BY <1>4, <2>1, <2>3, <3>1 DEF LinkAccepted, BytesRead, InnerFrame
  <2> QED BY <2>2, <2>3
<1> QED BY <1>1, <1>2, <1>3, <1>4 DEF LinkAccepted

FrameInv ==
  test = "frame" =>
    /\ frame \in Frames
    /\ verdict # "none" => (verdict = "PASS" <=> FramePasses(frame))

LEMMA StepKeepsFrame ==
  ASSUME FrameInv, [TestNext]_testVars
  PROVE  FrameInv'
<1>1. CASE ParseFrame
  BY <1>1 DEF FrameInv, ParseFrame
<1>2. CASE UNCHANGED <<test, frame, verdict>>
  BY <1>2 DEF FrameInv
<1> QED BY <1>1, <1>2 DEF TestNext, Polls, Waits, DocumentChanges, frameVars, testVars

\* parse_captured_vxlan_ethernet_frame() reads no byte beyond the capture, whatever the length
\* fields say and wherever the frame was cut.
THEOREM ReadsInside == TestSpec => []ReadsInsideFrame
<1>1. TestInit => FrameInv BY DEF TestInit, FrameInv
<1>2. FrameInv /\ [TestNext]_testVars => FrameInv' BY StepKeepsFrame
<1>3. FrameInv => ReadsInsideFrame
  BY ParserReadsInside, FramesAssumption DEF FrameInv, ReadsInsideFrame
<1> QED BY <1>1, <1>2, <1>3, PTL DEF TestSpec

\* Where the sender's UDP datagram starts and ends is where the parser looks for
\* it, if the header lengths are those of the frame.
LEMMA SentPlaces ==
  ASSUME NEW f \in Frames, f.type \in {"ipv4", "ipv6"}
  PROVE  /\ UdpStart(f) = LinkEnd(f) + f.header
         /\ f.sent.end = UdpStart(f) + f.sent.udp
         /\ f.sent.udp = 16 + f.sent.inner /\ f.sent.inner \in Nat
         /\ IpPayload(f) - f.sent.udp = f.ip - f.sent.ip
         /\ {f.len, f.tags, f.header, f.ip, f.udp} \subseteq Nat
         /\ UdpStart(f) \in Nat /\ IpPayload(f) \in Int /\ f.sent.ip \in Nat
BY FramesAssumption, SentAssumption DEF UdpStart, LinkEnd, IpPayload

\* A frame with the sender's lengths passes if and only if it is supported and whole.
LEMMA HonestFrame ==
  ASSUME NEW f \in Frames, f.ip = f.sent.ip, f.udp = f.sent.udp
  PROVE  /\ FramePasses(f) <=> Supported(f) /\ f.len >= f.sent.end
         /\ FramePasses(f) => InnerFrame(f) = <<f.sent.end - f.sent.inner, f.sent.end>>
<1>1. CASE f.type = "other"
  BY <1>1 DEF FramePasses, IpAccepted, Supported
<1>2. CASE f.type # "other"
  <2>1. f.type \in {"ipv4", "ipv6"} BY <1>2, SentAssumption
  <2>2. /\ IpPayload(f) = f.udp /\ f.udp = 16 + f.sent.inner
        /\ f.sent.end = UdpStart(f) + f.udp /\ UdpStart(f) = 14 + 4 * f.tags + f.header
        /\ f.sent.inner \in Nat /\ {f.len, f.tags, f.header} \subseteq Nat
        /\ f.type = "ipv6" => f.header = 40
    BY <2>1, SentPlaces, SentAssumption DEF LinkEnd
  <2>3. InnerFrame(f)[1] = f.sent.end - f.sent.inner /\ InnerFrame(f)[2] = f.sent.end
        /\ InnerFrame(f) = <<f.sent.end - f.sent.inner, f.sent.end>>
    BY <2>2 DEF InnerFrame
  <2>4. ASSUME Supported(f), f.len >= f.sent.end
        PROVE  FramePasses(f)
    <3>1. LinkAccepted(f) BY <2>2, <2>4 DEF Supported, LinkAccepted, LinkEnd
    <3>2. f.type = "ipv4" => f.header >= 20 BY <2>4 DEF Supported
    <3>3. FixedHeaderCaptured(f) BY <2>1, <2>2, <2>4, <3>2 DEF FixedHeaderCaptured, LinkEnd
    <3>4. IpLengthAccepted(f) BY <2>2, <2>4 DEF IpLengthAccepted
    <3>5. f.plain /\ f.vxlan BY <2>4 DEF Supported
    <3>6. IpAccepted(f) BY <2>1, <3>2, <3>3, <3>4, <3>5 DEF IpAccepted
    <3>7. UdpAccepted(f) BY <2>2, <2>4 DEF UdpAccepted
    <3>8. InnerFrame(f)[2] - InnerFrame(f)[1] >= 14 BY <2>2, <2>3, <2>4 DEF Supported
    <3> QED BY <3>1, <3>5, <3>6, <3>7, <3>8 DEF FramePasses, InnerAccepted
  <2>5. ASSUME FramePasses(f)
        PROVE  Supported(f) /\ f.len >= f.sent.end
    <3>1. f.sent.inner >= 14
      <4>1. InnerFrame(f)[2] - InnerFrame(f)[1] >= 14 BY <2>5 DEF FramePasses, InnerAccepted
      <4> QED BY <2>2, <2>3, <4>1
    <3>2. f.len >= f.sent.end BY <2>2, <2>5 DEF FramePasses, UdpAccepted
    <3>3. f.tags <= 2 /\ f.plain /\ f.vxlan /\ (f.type = "ipv4" => f.header >= 20)
      BY <2>5 DEF FramePasses, LinkAccepted, IpAccepted, InnerAccepted
    <3> QED BY <1>2, <3>1, <3>2, <3>3 DEF Supported
  <2> QED BY <2>3, <2>4, <2>5
<1> QED BY <1>1, <1>2

\* Lengths that disagree with each other never pass.
LEMMA ForgedFrame ==
  ASSUME NEW f \in Frames, FramePasses(f)
  PROVE  f.ip - f.sent.ip = f.udp - f.sent.udp
<1>1. f.type \in {"ipv4", "ipv6"} /\ f.udp = IpPayload(f)
  BY DEF FramePasses, IpAccepted, UdpAccepted
<1> QED BY <1>1, SentPlaces

\* A captured frame is accepted exactly when all that its sender announced was
\* captured and is supported, the inner frame is then the sender's, and lengths
\* that disagree are never accepted: for frames of any size.
THEOREM FrameIsTheSendersAlways == TestSpec => []FrameIsTheSenders
<1>1. TestInit => FrameInv BY DEF TestInit, FrameInv
<1>2. FrameInv /\ [TestNext]_testVars => FrameInv' BY StepKeepsFrame
<1>3. FrameInv => FrameIsTheSenders
  BY HonestFrame, ForgedFrame DEF FrameInv, FrameIsTheSenders
<1> QED BY <1>1, <1>2, <1>3, PTL DEF TestSpec
=============================================================================
