----------------------------- MODULE MCLabTest ------------------------------
(* Two or three collectors, routes that differ in every way that matters,  *)
(* and frames that a sender built, a medium padded and a capture cut.      *)
EXTENDS LabTest

MCSlot == 1..3

Route(rd, targets, hops) ==
  [rd |-> rd, targets |-> targets, hops |-> hops, withdraw |-> hops = <<>>,
   best |-> FALSE, canonical |-> TRUE]

r1 == Route("rd1", <<"rt1", "rt2">>, <<"hop1">>)
r2 == Route("rd1", <<"rt2", "rt1">>, <<"hop1">>)
repeated == Route("rd1", <<"rt1", "rt1">>, <<"hop1">>)

Doc(s, routes) == [envelope |-> TRUE, source |-> s, routes |-> routes]

\* The second collector may have been given the first one's name; the third
\* serves everything that can be wrong with a document.
MCDocuments ==
  <<{Doc("a", <<r1>>), Doc("a", <<r2>>)},
    {Doc("b", <<r1>>), Doc("a", <<r1>>)},
    {Doc("c", <<r1>>), Doc("c", <<r2, r1>>), Doc("c", <<r1, r1>>), Doc("c", <<repeated>>),
     Doc("c", <<>>), Doc(NoSource, <<r1>>), [Doc("c", <<r1>>) EXCEPT !.envelope = FALSE]}>>

Expect(s, routes) == [source |-> s, routes |-> routes]

MCExpectations ==
  {<<Expect("x", {r1})>>, <<Expect("x", {r1}), Expect("y", {r1, r2})>>,
   <<Expect("x", {r1}), Expect("x", {r1})>>}

\* A sender encapsulates `inner' bytes; the length fields may be off by one.
HeaderOf == [ipv4short |-> 16, ipv4 |-> 20, ipv4options |-> 24, ipv6 |-> 40, other |-> 20]
TypeOf == [ipv4short |-> "ipv4", ipv4 |-> "ipv4", ipv4options |-> "ipv4", ipv6 |-> "ipv6",
           other |-> "other"]

Frame(kind, tags, inner, off, plain, vxlan, len) ==
  LET header == HeaderOf[kind]
      ip == 16 + inner + (IF kind = "ipv6" THEN 0 ELSE header)
  IN [len |-> len, tags |-> tags, type |-> TypeOf[kind], header |-> header,
      ip |-> ip + off[1], udp |-> 16 + inner + off[2], plain |-> plain, vxlan |-> vxlan,
      sent |-> [ip |-> ip, udp |-> 16 + inner, inner |-> inner,
                end |-> 14 + 4 * tags + header + 16 + inner]]

Anomalies ==
  ({-1, 0, 1} \X {-1, 0, 1}) \X {<<TRUE, TRUE>>} \cup {<<0, 0>>} \X {<<TRUE, FALSE>>, <<FALSE, TRUE>>}

MaxLength == 14 + 12 + 40 + 16 + 14 + 2

MCFrames ==
  {Frame(kind, tags, inner, a[1], a[2][1], a[2][2], len) :
     kind \in DOMAIN HeaderOf, tags \in 0..3, inner \in {13, 14}, a \in Anomalies, len \in 0..MaxLength}
=============================================================================
