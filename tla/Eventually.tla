----------------------------- MODULE Eventually -----------------------------
(***************************************************************************)
(* eventually(predicate, timeout, interval, monotonic, sleeper): poll a    *)
(* condition that changes by itself until it holds or the time is up.      *)
(* Time is counted in integer ticks.  It passes while the predicate runs   *)
(* and while the sleeper sleeps; a predicate looks at the condition at one *)
(* moment of its run.                                                      *)
(***************************************************************************)
EXTENDS Integers

CONSTANTS
  MaxTime,        \* bound on the timeouts and intervals that are tried
  MaxPoll,        \* ticks a call of the predicate may take
  MaxOversleep    \* ticks a sleep may last beyond what was asked

ASSUME TimeAssumption == MaxTime \in Nat /\ MaxPoll \in Nat /\ MaxOversleep \in Nat

VARIABLES
  timeout, interval,   \* the arguments
  now,                 \* monotonic(), start being 0
  attempts,            \* as in the code
  polling,             \* where the loop stands
  spent,               \* ticks of the current call of the predicate
  seen,                \* what the predicate saw
  wake,                \* when the current sleep is due
  holds,               \* the condition
  since,               \* since when it has held
  result, elapsed      \* the EventuallyResult

callVars == <<timeout, interval>>
pollVars == <<attempts, polling, spent, seen, wake, result, elapsed>>
conditionVars == <<holds, since>>
eventuallyVars == <<callVars, now, pollVars, conditionVars>>

\* No run that is modelled polls more often: see OverrunIsBounded.
MaxAttempts == MaxTime + 2

PollInit ==
  /\ timeout \in 0..MaxTime /\ interval \in 0..MaxTime
  /\ now = 0 /\ attempts = 0
  /\ spent = 0 /\ seen = FALSE /\ wake = 0
  /\ result = "none" /\ elapsed = 0

EventuallyInit == PollInit /\ polling = "called" /\ holds \in BOOLEAN /\ since = 0

\* ValueError, before the clock is read.
RejectsArguments ==
  /\ polling = "called" /\ (timeout = 0 \/ interval = 0)
  /\ polling' = "done" /\ result' = "ValueError"
  /\ UNCHANGED <<callVars, now, attempts, spent, seen, wake, elapsed, conditionVars>>

Attempt == attempts' = IF attempts < MaxAttempts THEN attempts + 1 ELSE attempts

FirstPoll ==
  /\ polling = "called" /\ timeout > 0 /\ interval > 0
  /\ polling' = "predicate" /\ spent' = 0 /\ Attempt
  /\ UNCHANGED <<callVars, now, seen, wake, result, elapsed, conditionVars>>

\* The moment at which the predicate looks at the condition.
Sample ==
  /\ polling = "predicate"
  /\ seen' = holds /\ polling' = "sampled"
  /\ UNCHANGED <<callVars, now, attempts, spent, wake, result, elapsed, conditionVars>>

Returns(r) == polling' = "done" /\ result' = r /\ elapsed' = now /\ UNCHANGED wake

\* Deviations: the last interval is not cut short; the time is up only past
\* the timeout; a poll that could not be followed by a full interval is the last.
SleepsAnInterval == wake' = now + interval

SleepsUntilDue == wake' = now + (IF interval < timeout - now THEN interval ELSE timeout - now)

TimeIsPast == now > timeout

TimeAlmostUp == now + interval >= timeout

TimeIsUp == now >= timeout

PredicateReturns ==
  /\ polling = "sampled"
  /\ \/ seen /\ Returns("PASS")
     \/ ~seen /\ TimeIsUp /\ Returns("FAIL")
     \/ ~seen /\ ~TimeIsUp /\ polling' = "sleep" /\ SleepsUntilDue /\ UNCHANGED <<result, elapsed>>
  /\ UNCHANGED <<callVars, now, attempts, spent, seen, conditionVars>>

\* The sleeper returns, never early, and the loop polls again.
SleeperReturns ==
  /\ polling = "sleep" /\ now >= wake
  /\ polling' = "predicate" /\ spent' = 0 /\ Attempt
  /\ UNCHANGED <<callVars, now, seen, wake, result, elapsed, conditionVars>>

TimePasses ==
  /\ \/ polling \in {"predicate", "sampled"} /\ spent < MaxPoll /\ spent' = spent + 1
     \/ polling = "sleep" /\ now < wake + MaxOversleep /\ UNCHANGED spent
  /\ now' = now + 1
  /\ UNCHANGED <<callVars, attempts, polling, seen, wake, result, elapsed, conditionVars>>

ConditionBecomes(b) ==
  /\ holds' = b
  /\ since' = IF b /\ ~holds THEN now ELSE since

ConditionChanges ==
  /\ polling # "done"
  /\ ConditionBecomes(~holds)
  /\ UNCHANGED <<callVars, now, pollVars>>

PollStep == RejectsArguments \/ FirstPoll \/ Sample \/ PredicateReturns \/ SleeperReturns

EventuallyNext == PollStep \/ TimePasses \/ ConditionChanges

\* The clock runs, the predicate returns and the sleeper wakes up.
EventuallyFairness == WF_eventuallyVars(PollStep \/ TimePasses)

EventuallySpec == EventuallyInit /\ [][EventuallyNext]_eventuallyVars /\ EventuallyFairness
-----------------------------------------------------------------------------
\* Every variable keeps its type.
EventuallyTypeOK ==
  /\ timeout \in 0..MaxTime /\ interval \in 0..MaxTime
  /\ now \in Nat /\ attempts \in 0..MaxAttempts
  /\ polling \in {"called", "predicate", "sampled", "sleep", "done"}
  /\ spent \in 0..MaxPoll /\ seen \in BOOLEAN /\ wake \in Nat
  /\ holds \in BOOLEAN /\ since \in Nat
  /\ result \in {"none", "PASS", "FAIL", "ValueError"} /\ elapsed \in Nat

\* A condition that has come true in time is not missed: after a FAIL it does
\* not hold, or it came true no earlier than the last call of the predicate
\* could have looked, whatever the interval, the sleeper and the timing.
StableConditionIsNoticed == result = "FAIL" /\ holds => since >= timeout - MaxPoll

\* The wait overruns the timeout by no more than one late wake-up and one call
\* of the predicate, and polls no more often than the interval allows.
OverrunIsBounded ==
  result \in {"PASS", "FAIL"} =>
    /\ elapsed <= timeout + MaxOversleep + MaxPoll
    /\ (attempts - 2) * interval < timeout

\* The call ends, even when the condition never holds.
PollingEnds == <>(polling = "done")
=============================================================================
