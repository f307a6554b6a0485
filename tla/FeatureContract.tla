-------------------------- MODULE FeatureContract --------------------------
(***************************************************************************)
(* Which plans FeatureContract accepts.  A plan is a record with one       *)
(* sequence per collection of the document; names, identifiers and route   *)
(* targets are compared by their spelling, as the code compares them.      *)
(* An absent reference is "none"; the code takes an empty one for absent    *)
(* wherever it tests a reference for truth.                                *)
(***************************************************************************)
EXTENDS Functions, Integers, Sequences

\* All entries of a collection have distinct values in field f.
UniqueBy(s, f) == \A i, j \in DOMAIN s : s[i][f] = s[j][f] => i = j

\* The values of field f in a collection.
Named(s, f) == {s[i][f] : i \in DOMAIN s}

\* Among entries of one name, the first: next(... if ...).
First(s, f, v) ==
  s[CHOOSE i \in DOMAIN s : s[i][f] = v /\ \A j \in DOMAIN s : s[j][f] = v => i <= j]

\* Among entries of one name, the last: a dict built from the collection.
Last(s, f, v) ==
  s[CHOOSE i \in DOMAIN s : s[i][f] = v /\ \A j \in DOMAIN s : s[j][f] = v => j <= i]

\* Interfaces of each declared node, by name.
Interface(p, node, name) == name \in First(p.nodes, "name", node).interfaces
-----------------------------------------------------------------------------
(***************************************************************************)
(* Entries on their own                                                    *)
(***************************************************************************)
EntriesValid(p) ==
  /\ \A l \in Range(p.links) : l.a # l.b
  /\ \A s \in Range(p.bgp_sessions) : s.families # {}
  /\ \A v \in Range(p.vlans) : v.id # ""
  /\ \A e \in Range(p.evpn_instances) : e.rd # "" /\ e.imports \cap e.exports # {}

(***************************************************************************)
(* References between entries                                              *)
(***************************************************************************)
\* What identifies a session once per address family.
PeerFamilies(s) == {<<s.local_node, s.local_as, s.remote_node, s.remote_as, f>> : f \in s.families}

\* Deviation: sessions are told apart by their nodes and numbers only.
IdentitiesUniqueButFamilies(p) ==
  /\ UniqueBy(p.nodes, "name") /\ UniqueBy(p.vlans, "id") /\ UniqueBy(p.vrfs, "name")
  /\ UniqueBy(p.vteps, "node")
  /\ UniqueBy(p.evpn_instances, "name") /\ UniqueBy(p.evpn_instances, "rd")
  /\ UniqueBy(p.l2_vnis \o p.l3_vnis, "vni")
  /\ \A i, j \in DOMAIN p.bgp_sessions : p.bgp_sessions[i] = p.bgp_sessions[j] => i = j

IdentitiesUnique(p) ==
  /\ UniqueBy(p.nodes, "name") /\ UniqueBy(p.vlans, "id") /\ UniqueBy(p.vrfs, "name")
  /\ UniqueBy(p.vteps, "node")
  /\ UniqueBy(p.evpn_instances, "name") /\ UniqueBy(p.evpn_instances, "rd")
  /\ UniqueBy(p.l2_vnis \o p.l3_vnis, "vni")
  /\ \A i, j \in DOMAIN p.bgp_sessions :
       PeerFamilies(p.bgp_sessions[i]) \cap PeerFamilies(p.bgp_sessions[j]) # {} => i = j

EndsDeclared(p) ==
  LET nodes == Named(p.nodes, "name")
  IN  /\ \A l \in Range(p.links) : \A end \in {l.a, l.b} :
           end[1] \in nodes /\ Interface(p, end[1], end[2])
      /\ \A s \in Range(p.bgp_sessions) : s.local_node \in nodes /\ s.remote_node \in nodes
      /\ \A v \in Range(p.vteps) : v.node \in nodes /\ Interface(p, v.node, v.source_interface)

VtepsSymmetric(p) ==
  \A v \in Range(p.vteps) : \A peer \in v.peers :
    peer \in Named(p.vteps, "node") /\ v.node \in First(p.vteps, "node", peer).peers

VnisResolve(p) ==
  /\ \A n \in Range(p.l2_vnis \o p.l3_vnis) :
       n.evpn_instance \in Named(p.evpn_instances, "name") /\ n.vtep \in Named(p.vteps, "node")
  /\ \A n \in Range(p.l2_vnis) : n.vlan \in Named(p.vlans, "id")
  /\ \A n \in Range(p.l3_vnis) : n.vrf \in Named(p.vrfs, "name") /\ n.symmetric_irb
  /\ \A f \in Range(p.static_fdb) : f.vlan \in Named(p.vlans, "id") /\ f.vtep \in Named(p.vteps, "node")

\* Deviation: the tenants of an L3 VNI's instance and VRF are not compared.
IrbWithinSomeTenant(p) == \A n \in Range(p.l3_vnis) : n.symmetric_irb

IrbWithinTenant(p) ==
  \A n \in Range(p.l3_vnis) :
    First(p.evpn_instances, "name", n.evpn_instance).tenant = First(p.vrfs, "name", n.vrf).tenant

\* Deviation: each instance is compared with the one that follows it only.
NeighboursShareNoTarget(p) ==
  \A i, j \in DOMAIN p.evpn_instances :
    LET e == p.evpn_instances[i]
        o == p.evpn_instances[j]
    IN  j = i + 1 /\ e.tenant # o.tenant
          => \/ (e.imports \cup e.exports) \cap (o.imports \cup o.exports) = {}
             \/ e.shared_service \/ o.shared_service

TenantsShareNoTarget(p) ==
  \A e, o \in Range(p.evpn_instances) :
    e.tenant # o.tenant => \/ (e.imports \cup e.exports) \cap (o.imports \cup o.exports) = {}
                           \/ e.shared_service \/ o.shared_service

(***************************************************************************)
(* Policies                                                                *)
(***************************************************************************)
Unset == {"none", ""}

PoliciesResolve(p) ==
  LET policies == Named(p.route_policies, "name")
  IN  /\ \A q \in Range(p.route_policies) : \A t \in Range(q.terms) :
           t.prefix_set \in Named(p.prefix_sets, "name") \cup Unset
      /\ \A s \in Range(p.bgp_sessions) : s.export_policy \in policies \cup Unset
      /\ p.management_export_policy \in policies \cup Unset

\* The prefix sets are looked up in a dict, the policy is the first of its name.
ManagementTerms(p) ==
  IF p.management_export_policy \in Unset THEN << >>
  ELSE First(p.route_policies, "name", p.management_export_policy).terms

PermitsDefault(p, t) ==
  /\ t.action = "permit"
  /\ \/ t.prefix_set = "none"
     \/ /\ t.prefix_set \in Named(p.prefix_sets, "name")
        /\ Last(p.prefix_sets, "name", t.prefix_set).prefixes \cap {"0.0.0.0/0", "::/0"} # {}

\* An empty reference passed as absent, and no prefix set has the empty name.
LooksUpNothing(p, t) ==
  t.action = "permit" /\ t.prefix_set = "" /\ "" \notin Named(p.prefix_sets, "name")

ManagementKeepsDefault(p) ==
  \A t \in Range(ManagementTerms(p)) : ~PermitsDefault(p, t) /\ ~LooksUpNothing(p, t)

ParticipantsSpeakEvpn(p) ==
  \A v \in Range(p.vteps) : \E s \in Range(p.bgp_sessions) :
    v.node \in {s.local_node, s.remote_node} /\ "l2vpn-evpn" \in s.families

\* The later conjuncts look entries up that the earlier ones found to exist.
ReferencesHold(p) ==
  /\ EntriesValid(p) /\ IdentitiesUnique(p)
  /\ EndsDeclared(p) /\ VtepsSymmetric(p)
  /\ VnisResolve(p) /\ IrbWithinTenant(p) /\ TenantsShareNoTarget(p)
  /\ PoliciesResolve(p)

Valid(p) == ReferencesHold(p) /\ ManagementKeepsDefault(p) /\ ParticipantsSpeakEvpn(p)

\* Validation ends in the KeyError of a failed lookup instead of an answer: the
\* terms are gone through in order, up to the first that permits the default.
LookupRaises(p) ==
  /\ ReferencesHold(p)
  /\ \E k \in DOMAIN ManagementTerms(p) :
       /\ LooksUpNothing(p, ManagementTerms(p)[k])
       /\ \A j \in 1..(k - 1) : ~PermitsDefault(p, ManagementTerms(p)[j])
=============================================================================
