----------------------------- MODULE Observers ------------------------------
(***************************************************************************)
(* The pure observers of wireproof_runtime/observers.py: the comparison of *)
(* GoBGP snapshots and the parser of a captured VXLAN frame.  They keep no *)
(* state; LabTest calls them.                                              *)
(***************************************************************************)
EXTENDS Integers, Sequences, FiniteSets

NoSource == "no source"

(***************************************************************************)
(* GoBGP documents {source, routes}.  A route is a record: what identifies *)
(* it (rd), its route targets and next hops in the order given, withdraw,  *)
(* best, and whether the remaining fields and every value are canonical.   *)
(***************************************************************************)
Distinct(s) == \A i, j \in DOMAIN s : i # j => s[i] # s[j]
Elements(s) == {s[i] : i \in DOMAIN s}

RouteValid(r) ==
  /\ r.canonical
  /\ Distinct(r.targets) /\ Distinct(r.hops)
  /\ r.withdraw = (r.hops = <<>>)

\* The reason why a document is UNKNOWN, or "none" when it gives a snapshot.
DocumentReason(d) ==
  CASE ~d.envelope -> "MALFORMED_INPUT"
    [] d.envelope /\ d.source = NoSource -> "MISSING_SOURCE"
    [] d.envelope /\ d.source # NoSource /\ (d.routes = <<>> \/ \E r \in Elements(d.routes) : ~RouteValid(r)) ->
         "MALFORMED_INPUT"
    [] OTHER -> IF Distinct(d.routes) THEN "none" ELSE "DUPLICATE_ROUTE"

Snapshot(d) == [source |-> d.source, routes |-> Elements(d.routes)]

Sources(snapshots) == [i \in DOMAIN snapshots |-> snapshots[i].source]
RouteSets(snapshots) == {s.routes : s \in Elements(snapshots)}

\* Deviation: an agreeing majority is enough.
CompareByQuorum(expected, observed) ==
  IF 2 * Cardinality({i \in DOMAIN observed : observed[i].routes \in RouteSets(expected)})
       > Len(observed)
  THEN "none" ELSE "IMPLEMENTATION_DIVERGENCE"

CompareReason(expected, observed) ==
  CASE expected = <<>> \/ observed = <<>> -> "MISSING_SOURCE"
    [] expected # <<>> /\ observed # <<>>
         /\ ~(Distinct(Sources(expected)) /\ Distinct(Sources(observed))) -> "DUPLICATE_SOURCE"
    [] OTHER -> IF RouteSets(expected) = RouteSets(observed)
                THEN "none" ELSE "IMPLEMENTATION_DIVERGENCE"

(***************************************************************************)
(* A captured frame, by what the parser looks at:                          *)
(*   len     bytes captured          tags      VLAN tags in front of the IP *)
(*   type    "ipv4", "ipv6", "other" header    IP header length in bytes    *)
(*   ip      total length (IPv4) or payload length (IPv6) field             *)
(*   udp     UDP length field        plain     right version, UDP, whole    *)
(*   vxlan   port 4789 and a valid VXLAN header, whole when captured        *)
(* A layer is accepted or the frame is UNKNOWN; ...End is where the next    *)
(* layer starts.                                                           *)
(***************************************************************************)
TagsRead(f) ==
  CHOOSE k \in 0..2 : /\ k <= f.tags /\ 14 + 4 * k <= f.len
                      /\ k < 2 => k + 1 > f.tags \/ 14 + 4 * (k + 1) > f.len

LinkEnd(f) == 14 + 4 * f.tags

\* `len(tags) == 2' stops the third tag.
LinkAccepted(f) == f.len >= 14 /\ f.tags <= 2 /\ LinkEnd(f) <= f.len

\* Deviation: the fixed header is taken for granted.
FixedHeaderAssumed(f) == TRUE

FixedHeaderCaptured(f) == f.len >= LinkEnd(f) + (IF f.type = "ipv4" THEN 20 ELSE 40)

IpPayload(f) == IF f.type = "ipv4" THEN f.ip - f.header ELSE f.ip

UdpStart(f) == LinkEnd(f) + (IF f.type = "ipv4" THEN f.header ELSE 40)

IpLengthAccepted(f) ==
  /\ IpPayload(f) >= 8
  /\ UdpStart(f) + IpPayload(f) <= f.len

IpAccepted(f) ==
  /\ f.type \in {"ipv4", "ipv6"}
  /\ FixedHeaderCaptured(f)
  /\ f.plain
  /\ f.type = "ipv4" => f.header >= 20
  /\ IpLengthAccepted(f)

UdpAccepted(f) == /\ f.udp >= 16 /\ f.udp = IpPayload(f)
                  /\ UdpStart(f) + f.udp <= f.len

\* Deviation: what follows the VXLAN header is the inner frame, padding included.
InnerToTheEnd(f) == <<UdpStart(f) + 16, f.len>>

\* The inner frame, as the half-open range of bytes the result carries: the
\* UDP payload after the eight-byte VXLAN header.
InnerFrame(f) == <<UdpStart(f) + 16, UdpStart(f) + f.udp>>

InnerAccepted(f) == f.vxlan /\ InnerFrame(f)[2] - InnerFrame(f)[1] >= 14

FramePasses(f) == LinkAccepted(f) /\ IpAccepted(f) /\ UdpAccepted(f) /\ InnerAccepted(f)

\* One past the last byte the parser indexes or slices before it answers.
BytesRead(f) ==
  IF f.len < 14 THEN 0
  ELSE IF ~LinkAccepted(f) THEN 14 + 4 * TagsRead(f)
  ELSE IF f.type = "other" \/ ~FixedHeaderCaptured(f) THEN LinkEnd(f)
  ELSE IF ~IpAccepted(f) THEN LinkEnd(f) + (IF f.type = "ipv4" THEN 20 ELSE 40)
  ELSE IF ~UdpAccepted(f) THEN UdpStart(f) + 6
  ELSE UdpStart(f) + f.udp
=============================================================================
