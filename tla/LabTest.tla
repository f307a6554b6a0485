------------------------------ MODULE LabTest -------------------------------
(***************************************************************************)
(* The helpers a lab test is written with: eventually() polls a condition  *)
(* that compares what several GoBGP collectors serve, each document parsed *)
(* and the snapshots compared by the observers while the routes change; or *)
(* one captured frame is parsed.                                           *)
(***************************************************************************)
EXTENDS Eventually, Observers

CONSTANTS
  Slot,          \* the collectors a test reads, 1..n
  Documents,     \* what each collector may serve
  Expectations,  \* tuples of expected snapshots
  MaxChanges,    \* bound on the documents that change during a test
  Frames         \* what a capture may hold

ASSUME FramesAssumption ==
  \A f \in Frames : {f.len, f.tags, f.header, f.ip, f.udp} \subseteq Nat

\* What the sender put on the wire: `inner' bytes behind the VXLAN and the UDP
\* header of 8 bytes each, lengths that say so, and where its last byte was.  The
\* length fields f.ip and f.udp of the frame that was captured may say otherwise.
ASSUME SentAssumption ==
  \A f \in Frames :
    LET s == f.sent IN
    /\ f.type \in {"ipv4", "ipv6", "other"}
    /\ f.type = "ipv6" => f.header = 40
    /\ s.inner \in Nat /\ s.udp = 8 + 8 + s.inner
    /\ s.ip = s.udp + (IF f.type = "ipv6" THEN 0 ELSE f.header)
    /\ s.end = LinkEnd(f) + f.header + s.udp

VARIABLES
  test,          \* which helper the test uses
  expected,      \* the expected snapshots
  doc,           \* what each collector serves now
  changes,
  sampled,       \* what the call of the predicate that succeeded read
  frame, verdict \* the captured frame and the parser's answer

routeVars == <<expected, doc, changes, sampled>>
frameVars == <<frame, verdict>>
testVars == <<eventuallyVars, test, routeVars, frameVars>>

\* The predicate: every document gives a snapshot, and the snapshots match.
Agrees(e, d) ==
  /\ \A i \in Slot : DocumentReason(d[i]) = "none"
  /\ CompareReason(e, [i \in Slot |-> Snapshot(d[i])]) = "none"

TestInit ==
  /\ PollInit /\ since = 0 /\ changes = 0
  /\ \/ /\ test = "routes" /\ polling = "called"
        /\ expected \in Expectations
        /\ doc \in {d \in [Slot -> UNION Elements(Documents)] : \A i \in Slot : d[i] \in Documents[i]}
        /\ sampled = <<>> /\ holds = Agrees(expected, doc)
        /\ frame = <<>> /\ verdict = "none"
     \/ /\ test = "frame" /\ polling = "done" /\ timeout = 0 /\ interval = 0
        /\ expected = <<>> /\ doc = <<>> /\ sampled = <<>> /\ holds = FALSE
        /\ frame \in Frames /\ verdict = "none"

\* A collector serves another document: the routes changed, or it restarted.
DocumentChanges ==
  /\ polling # "done" /\ changes < MaxChanges
  /\ \E i \in Slot : \E d \in Documents[i] \ {doc[i]} : doc' = [doc EXCEPT ![i] = d]
  /\ changes' = changes + 1
  /\ ConditionBecomes(Agrees(expected, doc'))
  /\ UNCHANGED <<callVars, now, pollVars, test, expected, sampled, frameVars>>

Polls ==
  /\ PollStep
  /\ sampled' = IF polling' = "sampled" /\ seen' THEN doc ELSE sampled
  /\ UNCHANGED <<test, expected, doc, changes, frameVars>>

Waits == TimePasses /\ UNCHANGED <<test, routeVars, frameVars>>

ParseFrame ==
  /\ test = "frame" /\ verdict = "none"
  /\ verdict' = IF FramePasses(frame) THEN "PASS" ELSE "UNKNOWN"
  /\ UNCHANGED <<eventuallyVars, test, routeVars, frame>>

TestNext == Polls \/ Waits \/ DocumentChanges \/ ParseFrame

TestSpec == TestInit /\ [][TestNext]_testVars /\ WF_testVars(Polls \/ Waits)
-----------------------------------------------------------------------------
\* A wait that ends with PASS rests on all the collectors it asked: each gave a
\* well-formed snapshot under a name of its own, one that was expected, and none
\* that was expected is missing.  No number of agreeing collectors outvotes one
\* that differs.  (How a poll gathers the snapshots is the caller's; here it
\* reads them all at once.)
SuccessIsUnanimous ==
  test = "routes" /\ result = "PASS" =>
    /\ \A i \in Slot : sampled[i].envelope /\ \A r \in Elements(sampled[i].routes) : RouteValid(r)
    /\ \A i, j \in Slot : i # j => sampled[i].source # sampled[j].source
    /\ \A i \in Slot : \E e \in Elements(expected) : e.routes = Elements(sampled[i].routes)
    /\ \A e \in Elements(expected) : \E i \in Slot : e.routes = Elements(sampled[i].routes)

\* A captured frame is accepted exactly when the whole encapsulation that the
\* sender announced was captured and is one the parser supports; the inner
\* frame is then byte for byte the sender's, without what padded the medium.
\* A frame whose length fields disagree with each other is never accepted.
Supported(f) ==
  /\ f.tags <= 2 /\ f.type # "other" /\ f.plain /\ f.vxlan
  /\ f.type = "ipv4" => f.header >= 20
  /\ f.sent.inner >= 14

FrameIsTheSenders ==
  test = "frame" /\ verdict # "none" =>
    LET f == frame IN
    IF f.ip = f.sent.ip /\ f.udp = f.sent.udp
    THEN /\ verdict = "PASS" <=> Supported(f) /\ f.len >= f.sent.end
         /\ verdict = "PASS" => InnerFrame(f) = <<f.sent.end - f.sent.inner, f.sent.end>>
    ELSE verdict = "PASS" => f.ip - f.sent.ip = f.udp - f.sent.udp

\* Whatever its length fields say and wherever it was cut, no byte is read
\* beyond the capture: an index would escape as an IndexError, and a slice
\* would be silently short.
ReadsInsideFrame ==
  test = "frame" /\ verdict # "none" =>
    /\ BytesRead(frame) <= frame.len
    /\ verdict = "PASS" => InnerFrame(frame)[2] <= frame.len
=============================================================================
