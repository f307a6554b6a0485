--------------------------- MODULE CompilerProofs ---------------------------
(***************************************************************************)
(* Theorems about the static evaluation of a plan, and about the advisory  *)
(* comparison of two snapshots.                                            *)
(***************************************************************************)
EXTENDS StaticEvaluation, BatfishComparison, FiniteSetTheorems, TLAPS

(***************************************************************************)
(* Looking entries up                                                      *)
(***************************************************************************)
\* Among entries of distinct names the first of a name is the one of that name.
LEMMA FirstIs ==
  ASSUME NEW s, NEW f, DOMAIN s \subseteq Nat, UniqueBy(s, f), NEW i \in DOMAIN s
  PROVE  First(s, f, s[i][f]) = s[i]
<1> DEFINE P(k) == s[k][f] = s[i][f] /\ \A j \in DOMAIN s : s[j][f] = s[i][f] => k <= j
<1>1. P(i) BY DEF UniqueBy
<1>2. \A k \in DOMAIN s : P(k) => k = i BY DEF UniqueBy
<1>3. (CHOOSE k \in DOMAIN s : P(k)) = i BY <1>1, <1>2
<1> QED BY <1>3 DEF First

\* Two lists in one keep their entries, each at a position of its own.
LEMMA ConcatEntries ==
  ASSUME NEW s, NEW t, s \in Seq(Range(s)), t \in Seq(Range(t))
  PROVE  /\ \A i \in DOMAIN s : i \in DOMAIN (s \o t) /\ (s \o t)[i] = s[i]
         /\ \A i \in DOMAIN t : Len(s) + i \in DOMAIN (s \o t) /\ (s \o t)[Len(s) + i] = t[i]
         /\ \A i \in DOMAIN t : i \in Nat
         /\ Len(s) \in Nat
OBVIOUS

\* Two lists that are unique together are unique each.
LEMMA UniqueParts ==
  ASSUME NEW s, NEW t, s \in Seq(Range(s)), t \in Seq(Range(t)), NEW f, UniqueBy(s \o t, f)
  PROVE  UniqueBy(s, f) /\ UniqueBy(t, f)
<1>1. UniqueBy(s, f) BY ConcatEntries DEF UniqueBy
<1>2. ASSUME NEW i \in DOMAIN t, NEW j \in DOMAIN t, t[i][f] = t[j][f] PROVE i = j
  <2>1. Len(s) + i = Len(s) + j BY <1>2, ConcatEntries DEF UniqueBy
  <2> QED BY <2>1, ConcatEntries
<1> QED BY <1>1, <1>2 DEF UniqueBy

LEMMA RangeOfBoth ==
  ASSUME NEW s, NEW t, s \in Seq(Range(s)), t \in Seq(Range(t))
  PROVE  Range(s) \cup Range(t) \subseteq Range(s \o t)
<1> DEFINE both == s \o t
<1>1. \A i \in DOMAIN s : i \in DOMAIN both /\ both[i] = s[i] BY ConcatEntries
<1>2. \A i \in DOMAIN t : Len(s) + i \in DOMAIN both /\ both[Len(s) + i] = t[i]
  BY ConcatEntries
<1> HIDE DEF both
<1>3. Range(s) \cup Range(t) \subseteq Range(both) BY ONLY <1>1, <1>2 DEF Range
<1> QED BY <1>3 DEF both

\* The lists of a plan.
LEMMA PlanLists ==
  ASSUME NEW p, IsPlan(p), NEW c \in Collections
  PROVE  /\ p[c] \in Seq(Range(p[c]))
         /\ DOMAIN p[c] = 1..Len(p[c]) /\ DOMAIN p[c] \subseteq Nat
         /\ Range(p[c]) = {p[c][i] : i \in DOMAIN p[c]}
BY DEF IsPlan, Range

\* A name that occurs is looked up in the entry of that name.
LEMMA FirstOfName ==
  ASSUME NEW s, NEW f, DOMAIN s \subseteq Nat, UniqueBy(s, f), NEW v \in Named(s, f)
  PROVE  \E i \in DOMAIN s : s[i][f] = v /\ First(s, f, v) = s[i]
<1>1. PICK i \in DOMAIN s : s[i][f] = v BY DEF Named
<1>2. First(s, f, s[i][f]) = s[i] BY FirstIs
<1> QED BY <1>1, <1>2

\* What an accepted plan's VNIs refer to is there, and looked up as written.
LEMMA VnisServed ==
  ASSUME NEW p, IsPlan(p), Valid(p)
  PROVE  /\ \A n \in Range(p.l2_vnis) :
              \E i \in DOMAIN p.evpn_instances :
                /\ p.evpn_instances[i].name = n.evpn_instance
                /\ First(p.evpn_instances, "name", n.evpn_instance) = p.evpn_instances[i]
         /\ \A n \in Range(p.l3_vnis) :
              \E i \in DOMAIN p.evpn_instances, j \in DOMAIN p.vrfs :
                /\ p.evpn_instances[i].name = n.evpn_instance
                /\ First(p.evpn_instances, "name", n.evpn_instance) = p.evpn_instances[i]
                /\ p.vrfs[j].name = n.vrf
                /\ First(p.vrfs, "name", n.vrf) = p.vrfs[j]
                /\ p.evpn_instances[i].tenant = p.vrfs[j].tenant
<1>1. /\ UniqueBy(p.evpn_instances, "name") /\ DOMAIN p.evpn_instances \subseteq Nat
      /\ UniqueBy(p.vrfs, "name") /\ DOMAIN p.vrfs \subseteq Nat
  BY PlanLists DEF Valid, ReferencesHold, IdentitiesUnique, Collections
<1>2. \A n \in Range(p.l2_vnis) \cup Range(p.l3_vnis) :
        n.evpn_instance \in Named(p.evpn_instances, "name")
  <2>1. Range(p.l2_vnis) \cup Range(p.l3_vnis) \subseteq Range(p.l2_vnis \o p.l3_vnis)
    <3>1. p.l2_vnis \in Seq(Range(p.l2_vnis)) /\ p.l3_vnis \in Seq(Range(p.l3_vnis))
      BY PlanLists DEF Collections
    <3> QED BY ONLY <3>1, RangeOfBoth
  <2> QED BY <2>1 DEF Valid, ReferencesHold, VnisResolve
<1>3. \A n \in Range(p.l3_vnis) : n.vrf \in Named(p.vrfs, "name")
  BY DEF Valid, ReferencesHold, VnisResolve
<1>4. \A v \in Named(p.evpn_instances, "name") :
        \E i \in DOMAIN p.evpn_instances :
          p.evpn_instances[i].name = v /\ First(p.evpn_instances, "name", v) = p.evpn_instances[i]
  BY <1>1, FirstOfName
<1>5. \A v \in Named(p.vrfs, "name") :
        \E j \in DOMAIN p.vrfs : p.vrfs[j].name = v /\ First(p.vrfs, "name", v) = p.vrfs[j]
  BY <1>1, FirstOfName
<1>6. \A n \in Range(p.l3_vnis) :
        First(p.evpn_instances, "name", n.evpn_instance).tenant = First(p.vrfs, "name", n.vrf).tenant
  BY DEF Valid, ReferencesHold, IrbWithinTenant
<1>7. ASSUME NEW n \in Range(p.l3_vnis)
      PROVE  \E i \in DOMAIN p.evpn_instances, j \in DOMAIN p.vrfs :
                /\ p.evpn_instances[i].name = n.evpn_instance
                /\ First(p.evpn_instances, "name", n.evpn_instance) = p.evpn_instances[i]
                /\ p.vrfs[j].name = n.vrf
                /\ First(p.vrfs, "name", n.vrf) = p.vrfs[j]
                /\ p.evpn_instances[i].tenant = p.vrfs[j].tenant
  <2>1. PICK i \in DOMAIN p.evpn_instances :
          /\ p.evpn_instances[i].name = n.evpn_instance
          /\ First(p.evpn_instances, "name", n.evpn_instance) = p.evpn_instances[i]
    BY <1>2, <1>4
  <2>2. PICK j \in DOMAIN p.vrfs :
          p.vrfs[j].name = n.vrf /\ First(p.vrfs, "name", n.vrf) = p.vrfs[j]
    BY <1>3, <1>5
  <2> QED BY <2>1, <2>2, <1>6
<1> QED BY <1>2, <1>4, <1>7

(***************************************************************************)
(* Accepted plans                                                          *)
(***************************************************************************)
\* Every VNI is filed under the tenant of the instance it forwards by.
LEMMA ServedTenant ==
  ASSUME NEW p, IsPlan(p), Valid(p), NEW v \in ServedBy(p)
  PROVE  v[2] \in Range(p.evpn_instances) /\ v[1] = Stripped(v[2].tenant)
<1>1. CASE \E n \in Range(p.l2_vnis) :
             v = <<Stripped(TenantOfInstance(p, n.evpn_instance)),
                   First(p.evpn_instances, "name", n.evpn_instance)>>
  BY <1>1, VnisServed DEF TenantOfInstance, Range
<1>2. CASE \E n \in Range(p.l3_vnis) :
             v = <<Stripped(TenantOfVrf(p, n.vrf)), First(p.evpn_instances, "name", n.evpn_instance)>>
  BY <1>2, VnisServed DEF TenantOfVrf, Range
<1> QED BY <1>1, <1>2 DEF ServedBy

LEMMA ValidKeepsApart == IsPlan(plan) => TenantsStayApart
<1> SUFFICES ASSUME IsPlan(plan), Valid(plan),
                    NEW v \in ServedBy(plan), NEW w \in ServedBy(plan),
                    v[1] # w[1], ~v[2].shared_service, ~w[2].shared_service
             PROVE  v[2].exports \cap w[2].imports = {}
  BY DEF TenantsStayApart
<1>1. /\ v[2] \in Range(plan.evpn_instances) /\ w[2] \in Range(plan.evpn_instances)
      /\ v[2].tenant # w[2].tenant
  BY ServedTenant
<1>2. (v[2].imports \cup v[2].exports) \cap (w[2].imports \cup w[2].exports) = {}
  BY <1>1 DEF Valid, ReferencesHold, TenantsShareNoTarget
<1> QED BY <1>2

\* The clauses of a plan, one set for each kind of entry.
VniClauses2(p) ==
  {Clause("vni", <<"l2", p.l2_vnis[i].vni>>,
          TenantOfInstance(p, p.l2_vnis[i].evpn_instance), <<"l2_vnis", i>>) : i \in DOMAIN p.l2_vnis}
VniClauses3(p) ==
  {Clause("vni", <<"l3", p.l3_vnis[i].vni>>,
          TenantOfVrf(p, p.l3_vnis[i].vrf), <<"l3_vnis", i>>) : i \in DOMAIN p.l3_vnis}
RdClauses(p) ==
  {Clause("rd", <<p.evpn_instances[i].rd>>, p.evpn_instances[i].tenant,
          <<"evpn_instances", i>>) : i \in DOMAIN p.evpn_instances}
EvpnClauses(p) ==
  {Clause("evpn", <<p.evpn_instances[i].name>>, p.evpn_instances[i].tenant,
          <<"evpn_instances", i>>) : i \in DOMAIN p.evpn_instances}
VrfClauses(p) ==
  {Clause("vrf", <<p.vrfs[i].name>>, p.vrfs[i].tenant, <<"vrfs", i>>) : i \in DOMAIN p.vrfs}
VlanClauses(p) ==
  {Clause("vlan", <<p.vlans[i].id>>, "none", <<"vlans", i>>) : i \in DOMAIN p.vlans}
BgpClauses(p) ==
  UNION {{Clause("bgp", id, "none", <<"bgp_sessions", i>>) : id \in PeerFamilies(p.bgp_sessions[i])} :
           i \in DOMAIN p.bgp_sessions}

LEMMA ClausesByKind ==
  ASSUME NEW p
  PROVE  Clauses(p) = VniClauses2(p) \cup VniClauses3(p) \cup RdClauses(p) \cup EvpnClauses(p)
                        \cup VrfClauses(p) \cup VlanClauses(p) \cup BgpClauses(p)
<1> DEFINE Entry(kind, i) ==
             Clause(kind, <<p.evpn_instances[i][IF kind = "rd" THEN "rd" ELSE "name"]>>,
                    p.evpn_instances[i].tenant, <<"evpn_instances", i>>)
           Both == {Entry(kind, i) : kind \in {"rd", "evpn"}, i \in DOMAIN p.evpn_instances}
<1>1. RdClauses(p) = {Entry("rd", i) : i \in DOMAIN p.evpn_instances} BY DEF RdClauses
<1>2. EvpnClauses(p) = {Entry("evpn", i) : i \in DOMAIN p.evpn_instances}
  <2>1. (IF "evpn" = "rd" THEN "rd" ELSE "name") = "name" OBVIOUS
  <2> QED BY <2>1 DEF EvpnClauses
<1>3. Both = RdClauses(p) \cup EvpnClauses(p)
  <2> HIDE DEF Entry
  <2> QED BY <1>1, <1>2
<1>4. Clauses(p) = VniClauses2(p) \cup VniClauses3(p) \cup Both
                     \cup VrfClauses(p) \cup VlanClauses(p) \cup BgpClauses(p)
  BY DEF Clauses, VniClauses2, VniClauses3, VrfClauses, VlanClauses, BgpClauses
<1> HIDE DEF Both
<1> QED BY <1>3, <1>4

\* The kind of a clause tells which entries it may stand for.
LEMMA ClausesOfKind ==
  ASSUME NEW p, NEW c \in Clauses(p)
  PROVE  /\ c.kind \in {"vni", "rd", "evpn", "vrf", "vlan", "bgp"}
         /\ c.kind = "vni" => c \in VniClauses2(p) \cup VniClauses3(p)
         /\ c.kind = "rd" => c \in RdClauses(p)
         /\ c.kind = "evpn" => c \in EvpnClauses(p)
         /\ c.kind = "vrf" => c \in VrfClauses(p)
         /\ c.kind = "vlan" => c \in VlanClauses(p)
         /\ c.kind = "bgp" => c \in BgpClauses(p)
<1>1. c \in VniClauses2(p) => c.kind = "vni" BY DEF VniClauses2, Clause
<1>2. c \in VniClauses3(p) => c.kind = "vni" BY DEF VniClauses3, Clause
<1>3. c \in RdClauses(p) => c.kind = "rd" BY DEF RdClauses, Clause
<1>4. c \in EvpnClauses(p) => c.kind = "evpn" BY DEF EvpnClauses, Clause
<1>5. c \in VrfClauses(p) => c.kind = "vrf" BY DEF VrfClauses, Clause
<1>6. c \in VlanClauses(p) => c.kind = "vlan" BY DEF VlanClauses, Clause
<1>7. c \in BgpClauses(p) => c.kind = "bgp" BY DEF BgpClauses, Clause
<1> QED BY <1>1, <1>2, <1>3, <1>4, <1>5, <1>6, <1>7, ClausesByKind

\* The kind and the identity of a clause determine it.
LEMMA IdentitiesTellApart ==
  ASSUME NEW p, IsPlan(p), Valid(p), NEW c \in Clauses(p), NEW d \in Clauses(p),
         c.kind = d.kind, c.id = d.id
  PROVE  c = d
<1>1. /\ \A i, j \in DOMAIN p.l2_vnis : p.l2_vnis[i].vni = p.l2_vnis[j].vni => i = j
      /\ \A i, j \in DOMAIN p.l3_vnis : p.l3_vnis[i].vni = p.l3_vnis[j].vni => i = j
  <2>1. /\ p.l2_vnis \in Seq(Range(p.l2_vnis)) /\ p.l3_vnis \in Seq(Range(p.l3_vnis))
        /\ UniqueBy(p.l2_vnis \o p.l3_vnis, "vni")
    BY PlanLists DEF Collections, Valid, ReferencesHold, IdentitiesUnique
  <2>2. UniqueBy(p.l2_vnis, "vni") /\ UniqueBy(p.l3_vnis, "vni") BY ONLY <2>1, UniqueParts
  <2> QED BY <2>2 DEF UniqueBy
<1>2. /\ \A i, j \in DOMAIN p.evpn_instances : p.evpn_instances[i].rd = p.evpn_instances[j].rd => i = j
      /\ \A i, j \in DOMAIN p.evpn_instances : p.evpn_instances[i].name = p.evpn_instances[j].name => i = j
      /\ \A i, j \in DOMAIN p.vrfs : p.vrfs[i].name = p.vrfs[j].name => i = j
      /\ \A i, j \in DOMAIN p.vlans : p.vlans[i].id = p.vlans[j].id => i = j
  BY DEF Valid, ReferencesHold, IdentitiesUnique, UniqueBy
<1>3. \A i, j \in DOMAIN p.bgp_sessions :
        PeerFamilies(p.bgp_sessions[i]) \cap PeerFamilies(p.bgp_sessions[j]) # {} => i = j
  BY DEF Valid, ReferencesHold, IdentitiesUnique
<1>4. CASE c.kind = "vni"
  <2>1. c \in VniClauses2(p) \cup VniClauses3(p) /\ d \in VniClauses2(p) \cup VniClauses3(p)
    BY <1>4, ClausesOfKind
  <2>2. \A e \in VniClauses2(p) : e.id[1] = "l2" BY DEF VniClauses2, Clause
  <2>3. \A e \in VniClauses3(p) : e.id[1] = "l3" BY DEF VniClauses3, Clause
  <2>4. "l2" # "l3" OBVIOUS
  <2>5. CASE c \in VniClauses2(p)
    <3>1. d \in VniClauses2(p) BY <2>1, <2>2, <2>3, <2>4, <2>5
    <3>2. PICK i \in DOMAIN p.l2_vnis :
            c = Clause("vni", <<"l2", p.l2_vnis[i].vni>>,
                       TenantOfInstance(p, p.l2_vnis[i].evpn_instance), <<"l2_vnis", i>>)
      BY <2>5 DEF VniClauses2
    <3>3. PICK j \in DOMAIN p.l2_vnis :
            d = Clause("vni", <<"l2", p.l2_vnis[j].vni>>,
                       TenantOfInstance(p, p.l2_vnis[j].evpn_instance), <<"l2_vnis", j>>)
      BY <3>1 DEF VniClauses2
    <3>4. i = j BY <1>1, <3>2, <3>3 DEF Clause
    <3> QED BY <3>2, <3>3, <3>4
  <2>6. CASE c \in VniClauses3(p)
    <3>1. d \in VniClauses3(p) BY <2>1, <2>2, <2>3, <2>4, <2>6
    <3>2. PICK i \in DOMAIN p.l3_vnis :
            c = Clause("vni", <<"l3", p.l3_vnis[i].vni>>,
                       TenantOfVrf(p, p.l3_vnis[i].vrf), <<"l3_vnis", i>>)
      BY <2>6 DEF VniClauses3
    <3>3. PICK j \in DOMAIN p.l3_vnis :
            d = Clause("vni", <<"l3", p.l3_vnis[j].vni>>,
                       TenantOfVrf(p, p.l3_vnis[j].vrf), <<"l3_vnis", j>>)
      BY <3>1 DEF VniClauses3
    <3>4. i = j BY <1>1, <3>2, <3>3 DEF Clause
    <3> QED BY <3>2, <3>3, <3>4
  <2> QED BY <2>1, <2>5, <2>6
<1>5. CASE c.kind = "rd"
  <2>1. c \in RdClauses(p) /\ d \in RdClauses(p) BY <1>5, ClausesOfKind
  <2>2. PICK i \in DOMAIN p.evpn_instances : c =
          Clause("rd", <<p.evpn_instances[i].rd>>, p.evpn_instances[i].tenant, <<"evpn_instances", i>>)
    BY <2>1 DEF RdClauses
  <2>3. PICK j \in DOMAIN p.evpn_instances : d =
          Clause("rd", <<p.evpn_instances[j].rd>>, p.evpn_instances[j].tenant, <<"evpn_instances", j>>)
    BY <2>1 DEF RdClauses
  <2>4. i = j BY <1>2, <2>2, <2>3 DEF Clause
  <2> QED BY <2>2, <2>3, <2>4
<1>6. CASE c.kind = "evpn"
  <2>1. c \in EvpnClauses(p) /\ d \in EvpnClauses(p) BY <1>6, ClausesOfKind
  <2>2. PICK i \in DOMAIN p.evpn_instances : c =
          Clause("evpn", <<p.evpn_instances[i].name>>, p.evpn_instances[i].tenant, <<"evpn_instances", i>>)
    BY <2>1 DEF EvpnClauses
  <2>3. PICK j \in DOMAIN p.evpn_instances : d =
          Clause("evpn", <<p.evpn_instances[j].name>>, p.evpn_instances[j].tenant, <<"evpn_instances", j>>)
    BY <2>1 DEF EvpnClauses
  <2>4. i = j BY <1>2, <2>2, <2>3 DEF Clause
  <2> QED BY <2>2, <2>3, <2>4
<1>7. CASE c.kind = "vrf"
  <2>1. c \in VrfClauses(p) /\ d \in VrfClauses(p) BY <1>7, ClausesOfKind
  <2>2. PICK i \in DOMAIN p.vrfs : c =
          Clause("vrf", <<p.vrfs[i].name>>, p.vrfs[i].tenant, <<"vrfs", i>>)
    BY <2>1 DEF VrfClauses
  <2>3. PICK j \in DOMAIN p.vrfs : d =
          Clause("vrf", <<p.vrfs[j].name>>, p.vrfs[j].tenant, <<"vrfs", j>>)
    BY <2>1 DEF VrfClauses
  <2>4. i = j BY <1>2, <2>2, <2>3 DEF Clause
  <2> QED BY <2>2, <2>3, <2>4
<1>8. CASE c.kind = "vlan"
  <2>1. c \in VlanClauses(p) /\ d \in VlanClauses(p) BY <1>8, ClausesOfKind
  <2>2. PICK i \in DOMAIN p.vlans : c =
          Clause("vlan", <<p.vlans[i].id>>, "none", <<"vlans", i>>)
    BY <2>1 DEF VlanClauses
  <2>3. PICK j \in DOMAIN p.vlans : d =
          Clause("vlan", <<p.vlans[j].id>>, "none", <<"vlans", j>>)
    BY <2>1 DEF VlanClauses
  <2>4. i = j BY <1>2, <2>2, <2>3 DEF Clause
  <2> QED BY <2>2, <2>3, <2>4
<1>9. CASE c.kind = "bgp"
  <2>1. c \in BgpClauses(p) /\ d \in BgpClauses(p) BY <1>9, ClausesOfKind
  <2>2. ASSUME NEW e \in BgpClauses(p)
        PROVE  \E i \in DOMAIN p.bgp_sessions :
                 /\ e.id \in PeerFamilies(p.bgp_sessions[i])
                 /\ e = Clause("bgp", e.id, "none", <<"bgp_sessions", i>>)
    BY DEF BgpClauses, Clause
  <2> QED BY <1>3, <2>1, <2>2
<1> QED BY <1>4, <1>5, <1>6, <1>7, <1>8, <1>9, ClausesOfKind

\* Clauses of no tenant stay so.
LEMMA NoTenant == Stripped("none") = "none"
BY StripAssumption DEF Stripped

\* The projection of a pack to one of its tenants.
LEMMA ProjectionFields ==
  ASSUME NEW p, NEW asked \in Askable(Pack(p))
  PROVE  /\ Stripped(asked) # "none"
         /\ Projection(Pack(p), asked).clauses = {c \in Clauses(p) : c.tenant = Stripped(asked)}
         /\ Projection(Pack(p), asked).parent = Pack(p)
         /\ Projection(Pack(p), asked).tenant = Stripped(asked)
BY DEF Askable, Tenants, Projection, Pack

\* An instance and a VRF have a clause of their tenant.
LEMMA OwnClauses ==
  ASSUME NEW p
  PROVE  /\ \A i \in DOMAIN p.evpn_instances : \E d \in Clauses(p) :
              /\ d.kind = "evpn" /\ d.id = <<p.evpn_instances[i].name>>
              /\ d.tenant = Stripped(p.evpn_instances[i].tenant)
         /\ \A i \in DOMAIN p.vrfs : \E d \in Clauses(p) :
              d.kind = "vrf" /\ d.id = <<p.vrfs[i].name>> /\ d.tenant = Stripped(p.vrfs[i].tenant)
<1>1. ASSUME NEW i \in DOMAIN p.evpn_instances
      PROVE  \E d \in Clauses(p) : /\ d.kind = "evpn" /\ d.id = <<p.evpn_instances[i].name>>
                                   /\ d.tenant = Stripped(p.evpn_instances[i].tenant)
  <2> DEFINE d == Clause("evpn", <<p.evpn_instances[i].name>>, p.evpn_instances[i].tenant,
                         <<"evpn_instances", i>>)
  <2>1. d \in Clauses(p) BY ClausesByKind DEF EvpnClauses
  <2>2. /\ d.kind = "evpn" /\ d.id = <<p.evpn_instances[i].name>>
        /\ d.tenant = Stripped(p.evpn_instances[i].tenant)
    BY DEF Clause
  <2> QED BY <2>1, <2>2
<1>2. ASSUME NEW i \in DOMAIN p.vrfs
      PROVE  \E d \in Clauses(p) : /\ d.kind = "vrf" /\ d.id = <<p.vrfs[i].name>>
                                   /\ d.tenant = Stripped(p.vrfs[i].tenant)
  <2> DEFINE d == Clause("vrf", <<p.vrfs[i].name>>, p.vrfs[i].tenant, <<"vrfs", i>>)
  <2>1. d \in Clauses(p) BY ClausesByKind DEF VrfClauses
  <2>2. d.kind = "vrf" /\ d.id = <<p.vrfs[i].name>> /\ d.tenant = Stripped(p.vrfs[i].tenant) BY DEF Clause
  <2> QED BY <2>1, <2>2
<1> QED BY <1>1, <1>2

\* The clause of an L2 VNI has the tenant of the instance, the clause of an L3
\* VNI the tenant of both the instance and the VRF.
LEMMA VniTenants ==
  ASSUME NEW p, IsPlan(p), Valid(p), NEW c \in Clauses(p), c.kind = "vni"
  PROVE  LET n == p[c.entry[1]][c.entry[2]]
         IN  /\ \E i \in DOMAIN p.evpn_instances :
                  /\ p.evpn_instances[i].name = n.evpn_instance
                  /\ Stripped(p.evpn_instances[i].tenant) = c.tenant
             /\ c.entry[1] = "l3_vnis" =>
                  \E j \in DOMAIN p.vrfs : p.vrfs[j].name = n.vrf /\ Stripped(p.vrfs[j].tenant) = c.tenant
<1>1. CASE c \in VniClauses2(p)
  <2>1. PICK k \in DOMAIN p.l2_vnis :
          c = Clause("vni", <<"l2", p.l2_vnis[k].vni>>,
                     TenantOfInstance(p, p.l2_vnis[k].evpn_instance), <<"l2_vnis", k>>)
    BY <1>1 DEF VniClauses2
  <2>2. /\ c.entry[1] = "l2_vnis" /\ c.entry[2] = k
        /\ c.tenant = Stripped(TenantOfInstance(p, p.l2_vnis[k].evpn_instance))
    BY <2>1 DEF Clause
  <2>3. p.l2_vnis[k] \in Range(p.l2_vnis) BY DEF Range
  <2>4. PICK i \in DOMAIN p.evpn_instances :
          /\ p.evpn_instances[i].name = p.l2_vnis[k].evpn_instance
          /\ First(p.evpn_instances, "name", p.l2_vnis[k].evpn_instance) = p.evpn_instances[i]
    BY <2>3, VnisServed
  <2>5. c.tenant = Stripped(p.evpn_instances[i].tenant) BY <2>2, <2>4 DEF TenantOfInstance
  <2>6. p[c.entry[1]][c.entry[2]] = p.l2_vnis[k] BY <2>2
  <2>7. "l2_vnis" # "l3_vnis" OBVIOUS
  <2> QED BY <2>2, <2>4, <2>5, <2>6, <2>7
<1>2. CASE c \in VniClauses3(p)
  <2>1. PICK k \in DOMAIN p.l3_vnis :
          c = Clause("vni", <<"l3", p.l3_vnis[k].vni>>,
                     TenantOfVrf(p, p.l3_vnis[k].vrf), <<"l3_vnis", k>>)
    BY <1>2 DEF VniClauses3
  <2>2. /\ c.entry[1] = "l3_vnis" /\ c.entry[2] = k
        /\ c.tenant = Stripped(TenantOfVrf(p, p.l3_vnis[k].vrf))
    BY <2>1 DEF Clause
  <2>3. p.l3_vnis[k] \in Range(p.l3_vnis) BY DEF Range
  <2>4. PICK i \in DOMAIN p.evpn_instances, j \in DOMAIN p.vrfs :
          /\ p.evpn_instances[i].name = p.l3_vnis[k].evpn_instance
          /\ p.vrfs[j].name = p.l3_vnis[k].vrf
          /\ First(p.vrfs, "name", p.l3_vnis[k].vrf) = p.vrfs[j]
          /\ p.evpn_instances[i].tenant = p.vrfs[j].tenant
    BY <2>3, VnisServed
  <2>5. c.tenant = Stripped(p.evpn_instances[i].tenant) /\ c.tenant = Stripped(p.vrfs[j].tenant)
    BY <2>2, <2>4 DEF TenantOfVrf
  <2>6. p[c.entry[1]][c.entry[2]] = p.l3_vnis[k] BY <2>2
  <2> QED BY <2>4, <2>5, <2>6
<1> QED BY <1>1, <1>2, ClausesOfKind

\* Every instance and every VRF has a name and a tenant that is not blank.
NamesHold(p) ==
  \A e \in Range(p.evpn_instances) \cup Range(p.vrfs) : e.name # "" /\ Stripped(e.tenant) # ""

\* Without empty names no clause of an accepted plan has an empty identity or a
\* blank tenant.
LEMMA ClausesNamed ==
  ASSUME NEW p, IsPlan(p), Valid(p), NamesHold(p), NEW c \in Clauses(p)
  PROVE  c.tenant # "" /\ c.id # <<"">>
<1>0. \A e \in Range(p.evpn_instances) \cup Range(p.vrfs) : e.name # "" /\ Stripped(e.tenant) # ""
  BY DEF NamesHold
<1>1. \A i \in DOMAIN p.evpn_instances :
        /\ p.evpn_instances[i].name # "" /\ p.evpn_instances[i].rd # ""
        /\ Stripped(p.evpn_instances[i].tenant) # ""
  <2>1. \A i \in DOMAIN p.evpn_instances : p.evpn_instances[i] \in Range(p.evpn_instances)
    BY DEF Range
  <2>2. \A e \in Range(p.evpn_instances) : e.rd # ""
    BY DEF Valid, ReferencesHold, EntriesValid
  <2> QED BY <1>0, <2>1, <2>2
<1>2. \A i \in DOMAIN p.vrfs : p.vrfs[i].name # "" /\ Stripped(p.vrfs[i].tenant) # ""
  <2>1. \A i \in DOMAIN p.vrfs : p.vrfs[i] \in Range(p.vrfs) BY DEF Range
  <2> QED BY <1>0, <2>1
<1>3. \A i \in DOMAIN p.vlans : p.vlans[i].id # ""
  BY DEF Valid, ReferencesHold, EntriesValid, Range
<1>4. \A x : x # "" => <<x>> # <<"">> OBVIOUS
<1>5. CASE c.kind = "vni"
  <2>1. c.tenant # "" BY <1>1, <1>5, VniTenants
  <2>2. c.id # <<"">>
    <3>1. c \in VniClauses2(p) \cup VniClauses3(p) BY <1>5, ClausesOfKind
    <3>2. \E x, y : c.id = <<x, y>> BY <3>1 DEF VniClauses2, VniClauses3, Clause
    <3>3. \A x, y : <<x, y>> # <<"">> BY SMT
    <3> QED BY <3>2, <3>3
  <2> QED BY <2>1, <2>2
<1>6. CASE c.kind = "rd"
  <2>1. PICK i \in DOMAIN p.evpn_instances : c = Clause("rd", <<p.evpn_instances[i].rd>>,
          p.evpn_instances[i].tenant, <<"evpn_instances", i>>)
    BY <1>6, ClausesOfKind DEF RdClauses
  <2>2. c.id = <<p.evpn_instances[i].rd>> /\ c.tenant = Stripped(p.evpn_instances[i].tenant)
    BY <2>1 DEF Clause
  <2> QED BY <1>1, <1>4, <2>2
<1>7. CASE c.kind = "evpn"
  <2>1. PICK i \in DOMAIN p.evpn_instances : c = Clause("evpn", <<p.evpn_instances[i].name>>,
          p.evpn_instances[i].tenant, <<"evpn_instances", i>>)
    BY <1>7, ClausesOfKind DEF EvpnClauses
  <2>2. c.id = <<p.evpn_instances[i].name>> /\ c.tenant = Stripped(p.evpn_instances[i].tenant)
    BY <2>1 DEF Clause
  <2> QED BY <1>1, <1>4, <2>2
<1>8. CASE c.kind = "vrf"
  <2>1. PICK i \in DOMAIN p.vrfs :
          c = Clause("vrf", <<p.vrfs[i].name>>, p.vrfs[i].tenant, <<"vrfs", i>>)
    BY <1>8, ClausesOfKind DEF VrfClauses
  <2>2. c.id = <<p.vrfs[i].name>> /\ c.tenant = Stripped(p.vrfs[i].tenant) BY <2>1 DEF Clause
  <2> QED BY <1>2, <1>4, <2>2
<1>9. CASE c.kind = "vlan"
  <2>1. PICK i \in DOMAIN p.vlans : c = Clause("vlan", <<p.vlans[i].id>>, "none", <<"vlans", i>>)
    BY <1>9, ClausesOfKind DEF VlanClauses
  <2>2. c.id = <<p.vlans[i].id>> /\ c.tenant = "none" BY <2>1, NoTenant DEF Clause
  <2> QED BY <1>3, <1>4, <2>2
<1>10. CASE c.kind = "bgp"
  <2>1. c \in BgpClauses(p) BY <1>10, ClausesOfKind
  <2>2. PICK i \in DOMAIN p.bgp_sessions :
          \E id \in PeerFamilies(p.bgp_sessions[i]) : c = Clause("bgp", id, "none", <<"bgp_sessions", i>>)
    BY <2>1 DEF BgpClauses
  <2>3. c.id \in PeerFamilies(p.bgp_sessions[i]) /\ c.tenant = "none" BY <2>2, NoTenant DEF Clause
  <2>4. \E v, w, x, y, z : c.id = <<v, w, x, y, z>> BY <2>3 DEF PeerFamilies
  <2>5. \A v, w, x, y, z : <<v, w, x, y, z>> # <<"">> BY SMT
  <2> QED BY <2>3, <2>4, <2>5
<1> QED BY <1>5, <1>6, <1>7, <1>8, <1>9, <1>10, ClausesOfKind

\* What PackBuilds demands of an accepted plan are the names, no more.
LEMMA NamesDecide ==
  ASSUME NEW p, IsPlan(p), Valid(p)
  PROVE  PackBuilds(p) <=> NamesHold(p)
<1>1. ASSUME PackBuilds(p) PROVE NamesHold(p)
  <2>1. \A c \in Clauses(p) : c.tenant # "" /\ c.id # <<"">> BY <1>1 DEF PackBuilds
  <2>2. ASSUME NEW i \in DOMAIN p.evpn_instances
        PROVE  p.evpn_instances[i].name # "" /\ Stripped(p.evpn_instances[i].tenant) # ""
    <3>1. PICK d \in Clauses(p) : /\ d.kind = "evpn" /\ d.id = <<p.evpn_instances[i].name>>
                                  /\ d.tenant = Stripped(p.evpn_instances[i].tenant)
      BY OwnClauses
    <3>2. d.tenant # "" /\ d.id # <<"">> BY <2>1
    <3> QED BY <3>1, <3>2
  <2>3. ASSUME NEW i \in DOMAIN p.vrfs
        PROVE  p.vrfs[i].name # "" /\ Stripped(p.vrfs[i].tenant) # ""
    <3>1. PICK d \in Clauses(p) : /\ d.kind = "vrf" /\ d.id = <<p.vrfs[i].name>>
                                  /\ d.tenant = Stripped(p.vrfs[i].tenant)
      BY OwnClauses
    <3>2. d.tenant # "" /\ d.id # <<"">> BY <2>1
    <3> QED BY <3>1, <3>2
  <2> QED BY <2>2, <2>3 DEF NamesHold, Range
<1>2. ASSUME NamesHold(p) PROVE PackBuilds(p)
  BY <1>2, ClausesNamed, IdentitiesTellApart DEF PackBuilds
<1> QED BY <1>1, <1>2

LEMMA ValidClosed == IsPlan(plan) => ProjectionIsClosed
<1> SUFFICES ASSUME IsPlan(plan), Valid(plan), NEW asked \in Askable(Pack(plan))
             PROVE  LET mine == Projection(Pack(plan), asked)
                        Holds(kind, name) ==
                          \E d \in mine.clauses : d.kind = kind /\ d.id = <<name>>
                    IN  /\ \A c \in mine.clauses : c.kind = "vni" =>
                             LET n == plan[c.entry[1]][c.entry[2]]
                             IN  /\ Holds("evpn", n.evpn_instance)
                                 /\ c.entry[1] = "l3_vnis" => Holds("vrf", n.vrf)
                        /\ \A other \in Askable(mine) :
                             /\ Stripped(other) = Stripped(asked)
                             /\ Projection(mine, other).parent = Pack(plan)
  BY DEF ProjectionIsClosed
<1> DEFINE tenant == Stripped(asked)
           mine == Projection(Pack(plan), asked)
           Holds(kind, name) == \E d \in mine.clauses : d.kind = kind /\ d.id = <<name>>
<1>1. /\ mine.clauses = {c \in Clauses(plan) : c.tenant = tenant}
      /\ mine.parent = Pack(plan) /\ mine.tenant = tenant
  BY ProjectionFields
<1> HIDE DEF mine, tenant
<1>2. ASSUME NEW c \in mine.clauses, c.kind = "vni"
      PROVE  LET n == plan[c.entry[1]][c.entry[2]]
             IN  Holds("evpn", n.evpn_instance) /\ (c.entry[1] = "l3_vnis" => Holds("vrf", n.vrf))
  <2> DEFINE n == plan[c.entry[1]][c.entry[2]]
  <2>1. c \in Clauses(plan) /\ c.tenant = tenant BY <1>1
  <2>2. /\ \E i \in DOMAIN plan.evpn_instances :
             plan.evpn_instances[i].name = n.evpn_instance /\ Stripped(plan.evpn_instances[i].tenant) = tenant
        /\ c.entry[1] = "l3_vnis" =>
             \E j \in DOMAIN plan.vrfs : plan.vrfs[j].name = n.vrf /\ Stripped(plan.vrfs[j].tenant) = tenant
    BY <1>2, <2>1, VniTenants
  <2> HIDE DEF n
  <2>3. \E d \in Clauses(plan) : d.kind = "evpn" /\ d.id = <<n.evpn_instance>> /\ d.tenant = tenant
    <3>1. PICK i \in DOMAIN plan.evpn_instances :
            plan.evpn_instances[i].name = n.evpn_instance /\ Stripped(plan.evpn_instances[i].tenant) = tenant
      BY <2>2
    <3>2. PICK d \in Clauses(plan) : /\ d.kind = "evpn" /\ d.id = <<plan.evpn_instances[i].name>>
                                     /\ d.tenant = Stripped(plan.evpn_instances[i].tenant)
      BY OwnClauses
    <3> QED BY <3>1, <3>2
  <2>4. ASSUME c.entry[1] = "l3_vnis"
        PROVE  \E d \in Clauses(plan) : d.kind = "vrf" /\ d.id = <<n.vrf>> /\ d.tenant = tenant
    <3>1. PICK j \in DOMAIN plan.vrfs : plan.vrfs[j].name = n.vrf /\ Stripped(plan.vrfs[j].tenant) = tenant
      BY <2>2, <2>4
    <3>2. PICK d \in Clauses(plan) : /\ d.kind = "vrf" /\ d.id = <<plan.vrfs[j].name>>
                                     /\ d.tenant = Stripped(plan.vrfs[j].tenant)
      BY OwnClauses
    <3> QED BY <3>1, <3>2
  <2>5. Holds("evpn", n.evpn_instance) /\ (c.entry[1] = "l3_vnis" => Holds("vrf", n.vrf))
    BY <1>1, <2>3, <2>4
  <2> QED BY <2>5 DEF n
<1>3. ASSUME NEW other \in Askable(mine)
      PROVE  Stripped(other) = tenant /\ Projection(mine, other).parent = Pack(plan)
  <2>1. Stripped(other) = tenant BY <1>1 DEF Askable, Tenants
  <2>2. Projection(mine, other) = mine BY <1>1, <2>1 DEF Projection
  <2> QED BY <1>1, <2>1, <2>2
<1> QED BY <1>2, <1>3 DEF mine, tenant

(***************************************************************************)
(* Obligations follow from the meaning                                     *)
(***************************************************************************)
\* The tenant of the entry of a name.
TenantIn(entries, name) == Stripped((CHOOSE e \in entries : e.name = name).tenant)

\* What a pack obliges to, read off the canonical form of its plan.
ObligationsOf(m) ==
  {<<"vni", <<"l2", n.vni>>, TenantIn(DOMAIN m.evpn_instances, n.evpn_instance)>> :
     n \in DOMAIN m.l2_vnis}
  \cup
  {<<"vni", <<"l3", n.vni>>, TenantIn(DOMAIN m.vrfs, n.vrf)>> : n \in DOMAIN m.l3_vnis}
  \cup
  {<<"rd", <<e.rd>>, Stripped(e.tenant)>> : e \in DOMAIN m.evpn_instances}
  \cup
  {<<"evpn", <<e.name>>, Stripped(e.tenant)>> : e \in DOMAIN m.evpn_instances}
  \cup
  {<<"vrf", <<v.name>>, Stripped(v.tenant)>> : v \in DOMAIN m.vrfs}
  \cup
  {<<"vlan", <<v.id>>, "none">> : v \in DOMAIN m.vlans}
  \cup
  {<<"bgp", id, "none">> : id \in UNION {PeerFamilies(s) : s \in DOMAIN m.bgp_sessions}}

\* A collection keeps its entries in the canonical form.
LEMMA MeaningKeepsEntries ==
  ASSUME NEW p, IsPlan(p), NEW c \in Collections
  PROVE  DOMAIN Meaning(p)[c] = Range(p[c])
<1>1. c \in DOMAIN p /\ c # "management_export_policy" BY DEF IsPlan, Collections
<1>2. Meaning(p)[c] = Unordered(p[c]) BY <1>1 DEF Meaning
<1> QED BY <1>2 DEF Unordered

LEMMA FirstInRange ==
  ASSUME NEW s, DOMAIN s \subseteq Nat, UniqueBy(s, "name"), NEW v \in Named(s, "name")
  PROVE  Stripped(First(s, "name", v).tenant) = TenantIn(Range(s), v)
<1>1. PICK i \in DOMAIN s : s[i].name = v /\ First(s, "name", v) = s[i] BY FirstOfName
<1>2. s[i] \in Range(s) BY DEF Range
<1>3. \A e \in Range(s) : e.name = v => e = s[i]
  <2>1. ASSUME NEW j \in DOMAIN s, s[j].name = v PROVE s[j] = s[i]
    BY <1>1, <2>1 DEF UniqueBy
  <2> QED BY <2>1 DEF Range
<1>4. (CHOOSE e \in Range(s) : e.name = v) = s[i] BY <1>1, <1>2, <1>3
<1> QED BY <1>1, <1>4 DEF TenantIn

LEMMA ObligationsByKind ==
  ASSUME NEW p
  PROVE  Obligations(Clauses(p)) =
           Obligations(VniClauses2(p)) \cup Obligations(VniClauses3(p))
             \cup Obligations(RdClauses(p)) \cup Obligations(EvpnClauses(p))
             \cup Obligations(VrfClauses(p)) \cup Obligations(VlanClauses(p))
             \cup Obligations(BgpClauses(p))
BY ClausesByKind DEF Obligations

LEMMA ObligationOfClause ==
  ASSUME NEW A, NEW kind, NEW id, NEW tenant, NEW entry, Clause(kind, id, tenant, entry) \in A
  PROVE  <<kind, id, Stripped(tenant)>> \in Obligations(A)
<1> DEFINE c == Clause(kind, id, tenant, entry)
<1>1. c.kind = kind /\ c.id = id /\ c.tenant = Stripped(tenant) BY DEF Clause
<1>2. <<c.kind, c.id, c.tenant>> \in Obligations(A) BY DEF Obligations
<1> QED BY <1>1, <1>2

\* The tenant a VNI's clause is filed under, looked up without an order.
LEMMA TenantsFollow ==
  ASSUME NEW p, IsPlan(p), Valid(p)
  PROVE  /\ \A n \in Range(p.l2_vnis) :
              Stripped(TenantOfInstance(p, n.evpn_instance))
                = TenantIn(Range(p.evpn_instances), n.evpn_instance)
         /\ \A n \in Range(p.l3_vnis) : Stripped(TenantOfVrf(p, n.vrf)) = TenantIn(Range(p.vrfs), n.vrf)
<1>1. /\ UniqueBy(p.evpn_instances, "name") /\ DOMAIN p.evpn_instances \subseteq Nat
      /\ UniqueBy(p.vrfs, "name") /\ DOMAIN p.vrfs \subseteq Nat
  BY PlanLists DEF Collections, Valid, ReferencesHold, IdentitiesUnique
<1>2. \A n \in Range(p.l2_vnis) : n.evpn_instance \in Named(p.evpn_instances, "name")
  BY VnisServed DEF Named
<1>3. \A n \in Range(p.l3_vnis) : n.vrf \in Named(p.vrfs, "name")
  BY VnisServed DEF Named
<1> QED BY <1>1, <1>2, <1>3, FirstInRange DEF TenantOfInstance, TenantOfVrf

\* What the clauses of each kind oblige to.
LEMMA ObligationsOfVnis2 ==
  ASSUME NEW p, IsPlan(p), Valid(p)
  PROVE  Obligations(VniClauses2(p)) =
           {<<"vni", <<"l2", n.vni>>, TenantIn(Range(p.evpn_instances), n.evpn_instance)>> : n \in Range(p.l2_vnis)}
<1> DEFINE O == {<<"vni", <<"l2", n.vni>>, TenantIn(Range(p.evpn_instances), n.evpn_instance)>> : n \in Range(p.l2_vnis)}
<1>1. ASSUME NEW c \in VniClauses2(p) PROVE <<c.kind, c.id, c.tenant>> \in O
  <2>1. PICK i \in DOMAIN p.l2_vnis :
          c = Clause("vni", <<"l2", p.l2_vnis[i].vni>>, TenantOfInstance(p, p.l2_vnis[i].evpn_instance), <<"l2_vnis", i>>)
    BY DEF VniClauses2
  <2>2. PICK n \in Range(p.l2_vnis) : n = p.l2_vnis[i] BY DEF Range
  <2>3. c.kind = "vni" /\ c.id = <<"l2", n.vni>> /\ c.tenant = Stripped(TenantOfInstance(p, n.evpn_instance))
    BY <2>1, <2>2 DEF Clause
  <2>4. c.tenant = TenantIn(Range(p.evpn_instances), n.evpn_instance) BY <2>3, TenantsFollow
  <2> QED BY <2>3, <2>4
<1>2. ASSUME NEW n \in Range(p.l2_vnis)
      PROVE  <<"vni", <<"l2", n.vni>>, TenantIn(Range(p.evpn_instances), n.evpn_instance)>> \in Obligations(VniClauses2(p))
  <2>1. PICK i \in DOMAIN p.l2_vnis : n = p.l2_vnis[i] BY DEF Range
  <2>2. <<"vni", <<"l2", n.vni>>, Stripped(TenantOfInstance(p, n.evpn_instance))>> \in Obligations(VniClauses2(p))
    BY <2>1, ObligationOfClause DEF VniClauses2
  <2> QED BY <2>2, TenantsFollow
<1>3. O \subseteq Obligations(VniClauses2(p)) BY <1>2
<1>4. Obligations(VniClauses2(p)) \subseteq O BY <1>1 DEF Obligations
<1> QED BY <1>3, <1>4

LEMMA ObligationsOfVnis3 ==
  ASSUME NEW p, IsPlan(p), Valid(p)
  PROVE  Obligations(VniClauses3(p)) =
           {<<"vni", <<"l3", n.vni>>, TenantIn(Range(p.vrfs), n.vrf)>> : n \in Range(p.l3_vnis)}
<1> DEFINE O == {<<"vni", <<"l3", n.vni>>, TenantIn(Range(p.vrfs), n.vrf)>> : n \in Range(p.l3_vnis)}
<1>1. ASSUME NEW c \in VniClauses3(p) PROVE <<c.kind, c.id, c.tenant>> \in O
  <2>1. PICK i \in DOMAIN p.l3_vnis :
          c = Clause("vni", <<"l3", p.l3_vnis[i].vni>>, TenantOfVrf(p, p.l3_vnis[i].vrf), <<"l3_vnis", i>>)
    BY DEF VniClauses3
  <2>2. PICK n \in Range(p.l3_vnis) : n = p.l3_vnis[i] BY DEF Range
  <2>3. c.kind = "vni" /\ c.id = <<"l3", n.vni>> /\ c.tenant = Stripped(TenantOfVrf(p, n.vrf))
    BY <2>1, <2>2 DEF Clause
  <2>4. c.tenant = TenantIn(Range(p.vrfs), n.vrf) BY <2>3, TenantsFollow
  <2> QED BY <2>3, <2>4
<1>2. ASSUME NEW n \in Range(p.l3_vnis)
      PROVE  <<"vni", <<"l3", n.vni>>, TenantIn(Range(p.vrfs), n.vrf)>> \in Obligations(VniClauses3(p))
  <2>1. PICK i \in DOMAIN p.l3_vnis : n = p.l3_vnis[i] BY DEF Range
  <2>2. <<"vni", <<"l3", n.vni>>, Stripped(TenantOfVrf(p, n.vrf))>> \in Obligations(VniClauses3(p))
    BY <2>1, ObligationOfClause DEF VniClauses3
  <2> QED BY <2>2, TenantsFollow
<1>3. O \subseteq Obligations(VniClauses3(p)) BY <1>2
<1>4. Obligations(VniClauses3(p)) \subseteq O BY <1>1 DEF Obligations
<1> QED BY <1>3, <1>4

LEMMA ObligationsOfRds ==
  ASSUME NEW p
  PROVE  Obligations(RdClauses(p)) =
           {<<"rd", <<e.rd>>, Stripped(e.tenant)>> : e \in Range(p.evpn_instances)}
<1> DEFINE O == {<<"rd", <<e.rd>>, Stripped(e.tenant)>> : e \in Range(p.evpn_instances)}
<1>1. ASSUME NEW c \in RdClauses(p) PROVE <<c.kind, c.id, c.tenant>> \in O
  BY DEF RdClauses, Range, Clause
<1>2. ASSUME NEW e \in Range(p.evpn_instances)
      PROVE  <<"rd", <<e.rd>>, Stripped(e.tenant)>> \in Obligations(RdClauses(p))
  <2>1. PICK i \in DOMAIN p.evpn_instances : e = p.evpn_instances[i] BY DEF Range
  <2> QED BY <2>1, ObligationOfClause DEF RdClauses
<1>3. O \subseteq Obligations(RdClauses(p)) BY <1>2
<1>4. Obligations(RdClauses(p)) \subseteq O BY <1>1 DEF Obligations
<1> QED BY <1>3, <1>4

LEMMA ObligationsOfEvpns ==
  ASSUME NEW p
  PROVE  Obligations(EvpnClauses(p)) =
           {<<"evpn", <<e.name>>, Stripped(e.tenant)>> : e \in Range(p.evpn_instances)}
<1> DEFINE O == {<<"evpn", <<e.name>>, Stripped(e.tenant)>> : e \in Range(p.evpn_instances)}
<1>1. ASSUME NEW c \in EvpnClauses(p) PROVE <<c.kind, c.id, c.tenant>> \in O
  BY DEF EvpnClauses, Range, Clause
<1>2. ASSUME NEW e \in Range(p.evpn_instances)
      PROVE  <<"evpn", <<e.name>>, Stripped(e.tenant)>> \in Obligations(EvpnClauses(p))
  <2>1. PICK i \in DOMAIN p.evpn_instances : e = p.evpn_instances[i] BY DEF Range
  <2> QED BY <2>1, ObligationOfClause DEF EvpnClauses
<1>3. O \subseteq Obligations(EvpnClauses(p)) BY <1>2
<1>4. Obligations(EvpnClauses(p)) \subseteq O BY <1>1 DEF Obligations
<1> QED BY <1>3, <1>4

LEMMA ObligationsOfVrfs ==
  ASSUME NEW p
  PROVE  Obligations(VrfClauses(p)) =
           {<<"vrf", <<e.name>>, Stripped(e.tenant)>> : e \in Range(p.vrfs)}
<1> DEFINE O == {<<"vrf", <<e.name>>, Stripped(e.tenant)>> : e \in Range(p.vrfs)}
<1>1. ASSUME NEW c \in VrfClauses(p) PROVE <<c.kind, c.id, c.tenant>> \in O
  BY DEF VrfClauses, Range, Clause
<1>2. ASSUME NEW e \in Range(p.vrfs)
      PROVE  <<"vrf", <<e.name>>, Stripped(e.tenant)>> \in Obligations(VrfClauses(p))
  <2>1. PICK i \in DOMAIN p.vrfs : e = p.vrfs[i] BY DEF Range
  <2> QED BY <2>1, ObligationOfClause DEF VrfClauses
<1>3. O \subseteq Obligations(VrfClauses(p)) BY <1>2
<1>4. Obligations(VrfClauses(p)) \subseteq O BY <1>1 DEF Obligations
<1> QED BY <1>3, <1>4

LEMMA ObligationsOfVlans ==
  ASSUME NEW p
  PROVE  Obligations(VlanClauses(p)) =
           {<<"vlan", <<e.id>>, "none">> : e \in Range(p.vlans)}
<1> DEFINE O == {<<"vlan", <<e.id>>, "none">> : e \in Range(p.vlans)}
<1>1. ASSUME NEW c \in VlanClauses(p) PROVE <<c.kind, c.id, c.tenant>> \in O
  BY NoTenant DEF VlanClauses, Range, Clause
<1>2. ASSUME NEW e \in Range(p.vlans)
      PROVE  <<"vlan", <<e.id>>, "none">> \in Obligations(VlanClauses(p))
  <2>1. PICK i \in DOMAIN p.vlans : e = p.vlans[i] BY DEF Range
  <2> QED BY <2>1, ObligationOfClause, NoTenant DEF VlanClauses
<1>3. O \subseteq Obligations(VlanClauses(p)) BY <1>2
<1>4. Obligations(VlanClauses(p)) \subseteq O BY <1>1 DEF Obligations
<1> QED BY <1>3, <1>4

LEMMA ObligationsOfSessions ==
  ASSUME NEW p
  PROVE  Obligations(BgpClauses(p)) =
           {<<"bgp", id, "none">> : id \in UNION {PeerFamilies(s) : s \in Range(p.bgp_sessions)}}
<1> DEFINE ids == UNION {PeerFamilies(s) : s \in Range(p.bgp_sessions)}
           O == {<<"bgp", id, "none">> : id \in ids}
<1>1. ASSUME NEW c \in BgpClauses(p) PROVE <<c.kind, c.id, c.tenant>> \in O
  <2>1. PICK i \in DOMAIN p.bgp_sessions :
          \E id \in PeerFamilies(p.bgp_sessions[i]) : c = Clause("bgp", id, "none", <<"bgp_sessions", i>>)
    BY DEF BgpClauses
  <2>2. PICK id \in PeerFamilies(p.bgp_sessions[i]) : c = Clause("bgp", id, "none", <<"bgp_sessions", i>>)
    BY <2>1
  <2>3. p.bgp_sessions[i] \in Range(p.bgp_sessions) BY DEF Range
  <2>4. id \in ids BY <2>3
  <2>5. c.kind = "bgp" /\ c.id = id /\ c.tenant = "none" BY <2>2, NoTenant DEF Clause
  <2> HIDE DEF ids
  <2> QED BY <2>4, <2>5
<1>2. ASSUME NEW id \in ids PROVE <<"bgp", id, "none">> \in Obligations(BgpClauses(p))
  <2>1. PICK i \in DOMAIN p.bgp_sessions : id \in PeerFamilies(p.bgp_sessions[i]) BY DEF Range
  <2>2. Clause("bgp", id, "none", <<"bgp_sessions", i>>) \in BgpClauses(p) BY <2>1 DEF BgpClauses
  <2> QED BY <2>2, ObligationOfClause, NoTenant
<1> HIDE DEF ids
<1>3. O \subseteq Obligations(BgpClauses(p)) BY <1>2
<1>4. Obligations(BgpClauses(p)) \subseteq O BY <1>1 DEF Obligations
<1>5. Obligations(BgpClauses(p)) = O BY <1>3, <1>4
<1> QED BY <1>5 DEF ids

\* The order a plan is written in does not show in what its pack obliges to.
LEMMA ObligationsFollow ==
  ASSUME NEW p, IsPlan(p), Valid(p)
  PROVE  Obligations(Clauses(p)) = ObligationsOf(Meaning(p))
<1> DEFINE m == Meaning(p)
<1>1. /\ DOMAIN m.l2_vnis = Range(p.l2_vnis) /\ DOMAIN m.l3_vnis = Range(p.l3_vnis)
      /\ DOMAIN m.evpn_instances = Range(p.evpn_instances) /\ DOMAIN m.vrfs = Range(p.vrfs)
      /\ DOMAIN m.vlans = Range(p.vlans) /\ DOMAIN m.bgp_sessions = Range(p.bgp_sessions)
  BY MeaningKeepsEntries DEF Collections
<1> HIDE DEF m
<1>2. Obligations(VniClauses2(p)) \cup Obligations(VniClauses3(p)) =
        {<<"vni", <<"l2", n.vni>>, TenantIn(DOMAIN m.evpn_instances, n.evpn_instance)>> :
           n \in DOMAIN m.l2_vnis}
        \cup {<<"vni", <<"l3", n.vni>>, TenantIn(DOMAIN m.vrfs, n.vrf)>> : n \in DOMAIN m.l3_vnis}
  BY <1>1, ObligationsOfVnis2, ObligationsOfVnis3
<1>3. Obligations(Clauses(p)) = ObligationsOf(m)
  BY <1>1, <1>2, ObligationsOfRds, ObligationsOfEvpns, ObligationsOfVrfs, ObligationsOfVlans,
     ObligationsOfSessions, ObligationsByKind
     DEF ObligationsOf
<1> QED BY <1>3 DEF m

(***************************************************************************)
(* Editing, compiling and evaluating                                       *)
(***************************************************************************)
\* A binding holds the obligations its meaning implies, and a verdict that says
\* something is about an accepted plan of the bound meaning.
EvaluationInv ==
  /\ IsPlan(plan)
  /\ bound # Unbound => Obligations(bound.clauses) = ObligationsOf(bound.meaning)
  /\ verdict.status \in {"PASS", "FAIL"} =>
       /\ bound # Unbound
       /\ IsPlan(verdict.subject) /\ Valid(verdict.subject)
       /\ Meaning(verdict.subject) = bound.meaning

LEMMA SeqOfItsRange ==
  ASSUME NEW S, NEW s \in Seq(S)
  PROVE  s \in Seq(Range(s))
BY DEF Range

\* Adding, replacing and swapping entries leaves a list.
LEMMA EditedLists ==
  ASSUME NEW s, s \in Seq(Range(s))
  PROVE  /\ \A e : Append(s, e) \in Seq(Range(Append(s, e)))
         /\ \A e : \A i \in DOMAIN s : [s EXCEPT ![i] = e] \in Seq(Range([s EXCEPT ![i] = e]))
         /\ \A i \in 1..(Len(s) - 1) :
              [s EXCEPT ![i] = s[i + 1], ![i + 1] = s[i]]
                \in Seq(Range([s EXCEPT ![i] = s[i + 1], ![i + 1] = s[i]]))
<1>1. ASSUME NEW e PROVE Append(s, e) \in Seq(Range(Append(s, e)))
  <2>1. Append(s, e) \in Seq(Range(s) \cup {e}) OBVIOUS
  <2> QED BY ONLY <2>1, SeqOfItsRange
<1>2. ASSUME NEW i \in DOMAIN s, NEW e
      PROVE  [s EXCEPT ![i] = e] \in Seq(Range([s EXCEPT ![i] = e]))
  <2>1. [s EXCEPT ![i] = e] \in Seq(Range(s) \cup {e}) OBVIOUS
  <2> QED BY ONLY <2>1, SeqOfItsRange
<1>3. ASSUME NEW i \in 1..(Len(s) - 1)
      PROVE  [s EXCEPT ![i] = s[i + 1], ![i + 1] = s[i]]
               \in Seq(Range([s EXCEPT ![i] = s[i + 1], ![i + 1] = s[i]]))
  <2>1. s[i] \in Range(s) /\ s[i + 1] \in Range(s) BY DEF Range
  <2>2. [s EXCEPT ![i] = s[i + 1], ![i + 1] = s[i]] \in Seq(Range(s)) BY <2>1
  <2> QED BY ONLY <2>2, SeqOfItsRange
<1> QED BY <1>1, <1>2, <1>3

LEMMA RewriteKeepsPlan ==
  ASSUME IsPlan(plan), NEW c \in Collections, NEW entries, entries \in Seq(Range(entries)),
         plan' = [plan EXCEPT ![c] = entries]
  PROVE  IsPlan(plan')
BY DEF IsPlan

LEMMA EvaluationInit == Init => EvaluationInv
BY PlanAssumption DEF Init, EvaluationInv, NoVerdict, Unbound

LEMMA EvaluationStep == EvaluationInv /\ [Next]_vars => EvaluationInv'
<1> SUFFICES ASSUME EvaluationInv, [Next]_vars PROVE EvaluationInv' OBVIOUS
<1>1. ASSUME NEW c \in Collections, NEW entries, entries \in Seq(Range(entries)),
             Rewrite(c, entries)
      PROVE  EvaluationInv'
  <2>1. IsPlan(plan)' BY <1>1, RewriteKeepsPlan DEF Rewrite, EvaluationInv
  <2> QED BY <1>1, <2>1 DEF Rewrite, EvaluationInv
<1>2. ASSUME NEW c \in DOMAIN Menu
      PROVE  /\ c \in Collections /\ plan[c] \in Seq(Range(plan[c]))
  BY PlanAssumption DEF EvaluationInv, IsPlan
<1>3. CASE \E c \in DOMAIN Menu : \E entry \in Menu[c] : Add(c, entry)
  BY <1>1, <1>2, <1>3, EditedLists DEF Add
<1>4. CASE \E c \in DOMAIN Menu : \E i \in DOMAIN plan[c], entry \in Menu[c] : Replace(c, i, entry)
  BY <1>1, <1>2, <1>4, EditedLists DEF Replace
<1>5. CASE \E c \in DOMAIN Menu : \E i \in 1..(Len(plan[c]) - 1) : Swap(c, i)
  BY <1>1, <1>2, <1>5, EditedLists DEF Swap
<1>6. CASE Compile
  <2>1. Obligations(Clauses(plan)) = ObligationsOf(Meaning(plan))
    BY <1>6, ObligationsFollow DEF Compile, EvaluationInv
  <2>2. /\ bound'.clauses = Clauses(plan) /\ bound'.meaning = Meaning(plan)
        /\ verdict'.status = "none" /\ plan' = plan
    BY <1>6 DEF Compile, NoVerdict
  <2> QED BY <2>1, <2>2 DEF EvaluationInv
<1>7. ASSUME NEW input \in Fixtures \cup {"baseline", "rejected"}, Evaluate(input)
      PROVE  EvaluationInv'
  <2>1. Status(plan, bound, input) \in {"PASS", "FAIL"} => Meaning(plan) = bound.meaning
    BY DEF Status
  <2>2. /\ bound # Unbound /\ Valid(plan) /\ plan' = plan /\ bound' = bound
        /\ verdict'.status = Status(plan, bound, input) /\ verdict'.subject = plan
    BY <1>7 DEF Evaluate
  <2> QED BY <2>1, <2>2 DEF EvaluationInv
<1>8. CASE UNCHANGED vars BY <1>8 DEF vars, EvaluationInv
<1> QED BY <1>3, <1>4, <1>5, <1>6, <1>7, <1>8 DEF Next

LEMMA EvaluationInvariant == Spec => []EvaluationInv
<1> QED BY EvaluationInit, EvaluationStep, PTL DEF Spec

\* A plan stays a document whatever is written into it: every collection is a
\* list.
LEMMA PlanStaysPlan == Spec => []IsPlan(plan)
<1>1. EvaluationInv => IsPlan(plan) BY DEF EvaluationInv
<1> QED BY <1>1, EvaluationInvariant, PTL

\* A PASS or a FAIL is about a plan with the very obligations of the bound pack,
\* for every plan and every list of edits.
THEOREM VerdictMatchesPackAlways == Spec => []VerdictMatchesPack
<1>1. EvaluationInv => VerdictMatchesPack
  <2>1. SUFFICES ASSUME EvaluationInv, verdict.status \in {"PASS", "FAIL"}
                 PROVE  Obligations(Clauses(verdict.subject)) = Obligations(bound.clauses)
    BY DEF VerdictMatchesPack
  <2>2. Obligations(Clauses(verdict.subject)) = ObligationsOf(Meaning(verdict.subject))
    BY <2>1, ObligationsFollow DEF EvaluationInv
  <2> QED BY <2>1, <2>2 DEF EvaluationInv
<1> QED BY <1>1, EvaluationInvariant, PTL

\* FeatureContract keeps the tenants of an accepted plan apart, whatever plan was
\* written.
THEOREM TenantsStayApartAlways == Spec => []TenantsStayApart
<1>1. IsPlan(plan) => TenantsStayApart BY ValidKeepsApart
<1> QED BY <1>1, PlanStaysPlan, PTL

\* The projection of a pack to a tenant has the clauses its VNI clauses refer to
\* and leads to no other tenant, whatever accepted plan it was compiled from.
THEOREM ProjectionIsClosedAlways == Spec => []ProjectionIsClosed
<1>1. IsPlan(plan) => ProjectionIsClosed BY ValidClosed
<1> QED BY <1>1, PlanStaysPlan, PTL

\* FeatureContract leaves TestPack nothing to refuse but empty names and blank
\* tenants: apart from those the pack of an accepted plan always builds.
THEOREM OnlyNamesPreventPackAlways == Spec => []OnlyNamesPreventPack
<1>1. IsPlan(plan) => OnlyNamesPreventPack BY NamesDecide DEF NamesHold, OnlyNamesPreventPack
<1> QED BY <1>1, PlanStaysPlan, PTL

(***************************************************************************)
(* Order and fixtures                                                      *)
(***************************************************************************)
Swapped(s, i) == [s EXCEPT ![i] = s[i + 1], ![i + 1] = s[i]]

\* Exchanging neighbours changes neither what is in a list nor how often.
LEMMA SwapKeepsEntries ==
  ASSUME NEW s, s \in Seq(Range(s)), NEW i \in 1..(Len(s) - 1)
  PROVE  Unordered(Swapped(s, i)) = Unordered(s)
<1> DEFINE t == Swapped(s, i)
           turn(k) == IF k = i THEN i + 1 ELSE IF k = i + 1 THEN i ELSE k
           At(l, x) == {k \in DOMAIN l : l[k] = x}
<1>1. /\ DOMAIN s = 1..Len(s) /\ Len(s) \in Nat /\ DOMAIN t = DOMAIN s
      /\ i \in Nat /\ i \in DOMAIN s /\ i + 1 \in DOMAIN s
  BY DEF Swapped
<1>2. \A k \in DOMAIN s : turn(k) \in DOMAIN s /\ turn(turn(k)) = k
  BY <1>1
<1>3. \A k \in DOMAIN s : t[k] = s[turn(k)]
  BY <1>1 DEF Swapped
<1> HIDE DEF t, turn
<1>4. Range(t) = Range(s)
  <2>1. \A k \in DOMAIN s : t[k] \in Range(s) BY <1>2, <1>3 DEF Range
  <2>2. \A k \in DOMAIN s : s[k] = t[turn(k)] BY <1>2, <1>3
  <2>3. \A k \in DOMAIN s : s[k] \in Range(t) BY <1>1, <1>2, <2>2 DEF Range
  <2> QED BY <1>1, <2>1, <2>3 DEF Range
<1>5. ASSUME NEW x PROVE Cardinality(At(t, x)) = Cardinality(At(s, x))
  <2> DEFINE f == [k \in At(t, x) |-> turn(k)]
  <2>1. \A k \in At(t, x) : turn(k) \in At(s, x) BY <1>1, <1>2, <1>3
  <2>2. \A k \in At(s, x) : turn(k) \in At(t, x) /\ turn(turn(k)) = k BY <1>1, <1>2, <1>3
  <2>3. \A k \in At(t, x) : turn(turn(k)) = k BY <1>1, <1>2
  <2>4. IsFiniteSet(At(t, x))
    <3>1. IsFiniteSet(1..Len(s)) BY <1>1, FS_Interval
    <3>2. At(t, x) \subseteq 1..Len(s) BY <1>1
    <3> QED BY <3>1, <3>2, FS_Subset
  <2> HIDE DEF At
  <2>5. f \in [At(t, x) -> At(s, x)] BY <2>1
  <2>6. \A a, b \in At(t, x) : f[a] = f[b] => a = b BY <2>3
  <2>7. \A k \in At(s, x) : \E a \in At(t, x) : f[a] = k BY <2>2
  <2>8. f \in Bijection(At(t, x), At(s, x))
    BY <2>5, <2>6, <2>7 DEF Bijection, Injection, Surjection, IsInjective
  <2>9. ExistsBijection(At(t, x), At(s, x)) BY <2>8 DEF ExistsBijection
  <2> QED BY <2>4, <2>9, FS_Bijection
<1>6. Unordered(t) = Unordered(s) BY <1>4, <1>5 DEF Unordered
<1> QED BY <1>6 DEF t

\* The canonical hash ignores the authored order: exchanging two neighbours of
\* any collection leaves the meaning of the plan as it was.
THEOREM ReorderKeepsMeaning ==
  Spec => [][ \A c \in DOMAIN Menu : \A i \in 1..(Len(plan[c]) - 1) :
                Swap(c, i) => Meaning(plan') = Meaning(plan) ]_vars
<1>1. ASSUME IsPlan(plan), NEW c \in DOMAIN Menu, NEW i \in 1..(Len(plan[c]) - 1), Swap(c, i)
      PROVE  Meaning(plan') = Meaning(plan)
  <2>1. c \in Collections /\ plan[c] \in Seq(Range(plan[c]))
    BY <1>1, PlanAssumption DEF IsPlan
  <2>2. plan' = [plan EXCEPT ![c] = Swapped(plan[c], i)]
    BY <1>1 DEF Swap, Rewrite, Swapped
  <2>3. Unordered(Swapped(plan[c], i)) = Unordered(plan[c]) BY <2>1, SwapKeepsEntries
  <2>4. c \in DOMAIN plan /\ c # "management_export_policy" BY <1>1, <2>1 DEF IsPlan, Collections
  <2>5. DOMAIN plan' = DOMAIN plan BY <2>2
  <2>6. \A f \in DOMAIN plan : f # c => plan'[f] = plan[f] BY <2>2
  <2>7. plan'[c] = Swapped(plan[c], i) BY <2>2, <2>4
  <2>8. \A f \in DOMAIN plan :
          (IF f = "management_export_policy" THEN plan'[f] ELSE Unordered(plan'[f]))
            = (IF f = "management_export_policy" THEN plan[f] ELSE Unordered(plan[f]))
    BY <2>3, <2>4, <2>6, <2>7
  <2> QED BY <2>5, <2>8 DEF Meaning
<1>2. IsPlan(plan) =>
        [ \A c \in DOMAIN Menu : \A i \in 1..(Len(plan[c]) - 1) :
            Swap(c, i) => Meaning(plan') = Meaning(plan) ]_vars
  BY <1>1
<1> QED BY <1>2, PlanStaysPlan, PTL

\* Each pair of kind and identity is that of one clause of the bound pack at most.
BindingIsAPack ==
  \A c, d \in bound.clauses : c.kind = d.kind /\ c.id = d.id => c = d

LEMMA BoundPack == Spec => []BindingIsAPack
<1>1. Init => BindingIsAPack BY DEF Init, Unbound, BindingIsAPack
<1>2. BindingIsAPack /\ [Next]_vars => BindingIsAPack'
  <2> SUFFICES ASSUME BindingIsAPack, [Next]_vars PROVE BindingIsAPack' OBVIOUS
  <2>1. CASE bound' = bound BY <2>1 DEF BindingIsAPack
  <2>2. CASE Compile
    <3>1. bound'.clauses = Clauses(plan) /\ PackBuilds(plan) BY <2>2 DEF Compile, Compiles
    <3>2. \A c, d \in Clauses(plan) : c.kind = d.kind /\ c.id = d.id => c = d
      BY <3>1 DEF PackBuilds
    <3> QED BY <3>1, <3>2 DEF BindingIsAPack
  <2> QED BY <2>1, <2>2 DEF Next, vars, Add, Replace, Swap, Rewrite, Evaluate
<1> QED BY <1>1, <1>2, PTL DEF Spec

\* A closed fixture never meets two clauses: the binding refuses it only because
\* the clause it names is not in the pack.
THEOREM FixtureFindsItsClause ==
  Spec => [](\A f \in Fixtures :
               ClauseSelected(bound, f) <=>
                 \E c \in bound.clauses : <<c.kind, c.id>> = Intended[f])
<1>1. BindingIsAPack =>
        \A f \in Fixtures :
          ClauseSelected(bound, f) <=> \E c \in bound.clauses : <<c.kind, c.id>> = Intended[f]
  <2> SUFFICES ASSUME BindingIsAPack, NEW f \in Fixtures
               PROVE  ClauseSelected(bound, f) <=>
                        \E c \in bound.clauses : <<c.kind, c.id>> = Intended[f]
    OBVIOUS
  <2> DEFINE matches == {c \in bound.clauses : <<c.kind, c.id>> = Intended[f]}
  <2>1. \A c, d \in matches : c = d
    <3>1. ASSUME NEW c \in matches, NEW d \in matches PROVE c.kind = d.kind /\ c.id = d.id
      <4>1. <<c.kind, c.id>> = <<d.kind, d.id>> OBVIOUS
      <4> QED BY <4>1
    <3> QED BY <3>1 DEF BindingIsAPack
  <2>2. (\E c \in bound.clauses : <<c.kind, c.id>> = Intended[f]) <=> matches # {} OBVIOUS
  <2>3. ClauseSelected(bound, f) <=> Cardinality(matches) = 1 BY DEF ClauseSelected
  <2> HIDE DEF matches
  <2>4. matches = {} => Cardinality(matches) # 1 BY FS_EmptySet
  <2>5. ASSUME matches # {} PROVE Cardinality(matches) = 1
    <3>1. PICK c : c \in matches BY <2>5
    <3>2. matches = {c} BY <2>1, <3>1
    <3> QED BY <3>2, FS_Singleton
  <2> QED BY <2>2, <2>3, <2>4, <2>5
<1> QED BY <1>1, BoundPack, PTL

(***************************************************************************)
(* The advisory comparison                                                 *)
(***************************************************************************)
SnapshotOK(s) ==
  /\ s.supported \in BOOLEAN
  /\ \A q \in DOMAIN s.results : s.results[q].status \in QueryStatus

\* Every assessment is that of its pair, taken in the right roles.
ComparisonInv ==
  /\ \A s \in held : SnapshotOK(s)
  /\ assessment # <<>> =>
       /\ SnapshotOK(pair[1]) /\ SnapshotOK(pair[2])
       /\ RolesAreRight(pair[1], pair[2])
       /\ assessment[1] = Assessment(pair[1], pair[2])

LEMMA ComparisonStep == ComparisonInv /\ [CompareNext]_compareVars => ComparisonInv'
<1> SUFFICES ASSUME ComparisonInv, [CompareNext]_compareVars PROVE ComparisonInv' OBVIOUS
<1>1. ASSUME NEW role, NEW supported \in BOOLEAN, NEW plans, NEW results,
             \A q \in DOMAIN results : results[q].status \in QueryStatus,
             Executed(role, supported, plans, results)
      PROVE  ComparisonInv'
  <2> DEFINE s == [role |-> role, supported |-> supported, plan |-> plans, results |-> results]
  <2>1. SnapshotOK(s) BY <1>1 DEF SnapshotOK
  <2>2. held' = held \cup {s} /\ pair' = pair /\ assessment' = assessment BY <1>1 DEF Executed
  <2> HIDE DEF s
  <2> QED BY <2>1, <2>2 DEF ComparisonInv
<1>2. CASE FakeExecutes
  <2>1. PICK role \in Roles, supported \in BOOLEAN, p \in Plans : \E known \in SUBSET p :
          \E fixtures \in [known -> Results] :
            Executed(role, supported, p,
                     [q \in p |-> IF q \in known THEN fixtures[q] ELSE MissingFixture])
    BY <1>2 DEF FakeExecutes
  <2>2. PICK known \in SUBSET p : \E fixtures \in [known -> Results] :
          Executed(role, supported, p,
                   [q \in p |-> IF q \in known THEN fixtures[q] ELSE MissingFixture])
    BY <2>1
  <2>3. PICK fixtures \in [known -> Results] :
          Executed(role, supported, p,
                   [q \in p |-> IF q \in known THEN fixtures[q] ELSE MissingFixture])
    BY <2>2
  <2> DEFINE results == [q \in p |-> IF q \in known THEN fixtures[q] ELSE MissingFixture]
  <2>4. \A q \in DOMAIN results : results[q].status \in QueryStatus
    BY ResultsAssumption DEF MissingFixture, QueryStatus, Unanswered
  <2> HIDE DEF results
  <2>5. Executed(role, supported, p, results) BY <2>3 DEF results
  <2> QED BY <1>1, <2>4, <2>5
<1>3. CASE OtherExecutes
  <2>1. PICK role \in Roles, supported \in BOOLEAN, p \in Plans, answered \in Plans :
          \E results \in [answered -> Results] : Executed(role, supported, p, results)
    BY <1>3 DEF OtherExecutes
  <2>2. PICK results \in [answered -> Results] : Executed(role, supported, p, results)
    BY <2>1
  <2>3. \A q \in DOMAIN results : results[q].status \in QueryStatus
    BY ResultsAssumption
  <2> QED BY <1>1, <2>2, <2>3
<1>4. CASE Assess
  <2>1. PICK b \in held, c \in held :
          /\ pair' = <<b, c>>
          /\ assessment' = IF RolesAreRight(b, c) THEN <<Assessment(b, c)>> ELSE <<>>
          /\ held' = held
    BY <1>4 DEF Assess
  <2> QED BY <2>1 DEF ComparisonInv
<1>5. CASE UNCHANGED compareVars BY <1>5 DEF compareVars, ComparisonInv
<1> QED BY <1>2, <1>3, <1>4, <1>5 DEF CompareNext

\* A query without debt was answered.
LEMMA NoDebtIsAnswered ==
  ASSUME NEW s, SnapshotOK(s), NEW q, QueryDebt(s, q) = {}
  PROVE  Answers(s, q)
<1>1. q \in DOMAIN s.results BY DEF QueryDebt
<1>2. ResultDebt(s, s.results[q]) = {} BY <1>1 DEF QueryDebt
<1>3. s.results[q].status \notin Unanswered BY <1>2 DEF ResultDebt
<1>4. s.results[q].answer # Null BY <1>2 DEF ResultDebt
<1>5. s.supported
  <2>1. {d \in {"not parsed"} : ~s.supported} = {} BY <1>2 DEF ResultDebt
  <2> QED BY <2>1
<1> QED BY <1>1, <1>3, <1>4, <1>5 DEF SnapshotOK, QueryStatus, Answers

LEMMA EmptyProduct ==
  ASSUME NEW x, NEW A, {x} \X A = {}
  PROVE  A = {}
<1>1. \A a \in A : <<x, a>> \in {x} \X A OBVIOUS
<1> QED BY <1>1

LEMMA NoDebtOnBothSides ==
  ASSUME NEW b, NEW c, SnapshotOK(b), SnapshotOK(c), NEW q, Debt(b, c, q) = {}
  PROVE  Answers(b, q) /\ Answers(c, q) /\ q \in b.plan \cap c.plan
<1>1. /\ {"baseline"} \X QueryDebt(b, q) = {} /\ {"candidate"} \X QueryDebt(c, q) = {}
      /\ {"plan"} \X {d \in {"asymmetric"} : q \notin b.plan \cap c.plan} = {}
  BY DEF Debt
<1>2. QueryDebt(b, q) = {} /\ QueryDebt(c, q) = {} BY <1>1, EmptyProduct
<1>3. {d \in {"asymmetric"} : q \notin b.plan \cap c.plan} = {} BY <1>1, EmptyProduct
<1> QED BY <1>2, <1>3, NoDebtIsAnswered

LEMMA AssessmentShowsGaps ==
  ASSUME NEW b, NEW c, SnapshotOK(b), SnapshotOK(c), NEW q \in b.plan \cup c.plan
  PROVE  LET answer == Assessment(b, c) IN
         /\ ~(Answers(b, q) /\ Answers(c, q)) => \E d \in answer.debt : d[1] = q
         /\ answer.comparisons[q] = "MATCH" =>
              Answers(b, q) /\ Answers(c, q) /\ b.results[q] = c.results[q]
         /\ answer.comparisons[q] = "DELTA" =>
              Answers(b, q) /\ Answers(c, q) /\ b.results[q] # c.results[q]
         /\ answer.debt = {} => Debt(b, c, q) = {}
<1> DEFINE answer == Assessment(b, c)
<1>1. /\ q \in Compared(b, c) /\ answer.comparisons[q] = Verdict(b, c, q)
      /\ answer.debt = UNION {{x} \X Debt(b, c, x) : x \in Compared(b, c)}
  BY DEF Assessment, Compared
<1> HIDE DEF answer
<1>2. ASSUME NEW e \in Debt(b, c, q) PROVE <<q, e>> \in answer.debt BY <1>1
<1>3. ~(Answers(b, q) /\ Answers(c, q)) => \E d \in answer.debt : d[1] = q
  <2>1. SUFFICES ASSUME ~(Answers(b, q) /\ Answers(c, q)) PROVE \E d \in answer.debt : d[1] = q
    OBVIOUS
  <2>2. PICK e : e \in Debt(b, c, q) BY <2>1, NoDebtOnBothSides
  <2>3. <<q, e>> \in answer.debt /\ <<q, e>>[1] = q BY <1>2, <2>2
  <2> QED BY <2>3
<1>4. Verdict(b, c, q) \in {"MATCH", "DELTA"} =>
        /\ Debt(b, c, q) = {}
        /\ Verdict(b, c, q) = "MATCH" => b.results[q] = c.results[q]
        /\ Verdict(b, c, q) = "DELTA" => b.results[q] # c.results[q]
  BY DEF Verdict
<1>5. answer.debt = {} => Debt(b, c, q) = {} BY <1>2
<1>6. /\ answer.comparisons[q] = "MATCH" =>
           Answers(b, q) /\ Answers(c, q) /\ b.results[q] = c.results[q]
      /\ answer.comparisons[q] = "DELTA" =>
           Answers(b, q) /\ Answers(c, q) /\ b.results[q] # c.results[q]
  BY <1>1, <1>4, NoDebtOnBothSides
<1> QED BY <1>3, <1>5, <1>6 DEF answer

\* No silent gap in an advisory assessment, for any number of queries, snapshots
\* and executors.
THEOREM GapsAreVisibleAlways == CompareSpec => []GapsAreVisible
<1>1. CompareInit => ComparisonInv BY DEF CompareInit, ComparisonInv
<1>2. ComparisonInv => GapsAreVisible
  <2> SUFFICES ASSUME ComparisonInv, assessment # <<>>
               PROVE  LET b == pair[1] c == pair[2] answer == assessment[1] IN
                      /\ b.role # c.role
                      /\ \A q \in b.plan \cup c.plan :
                           /\ ~(Answers(b, q) /\ Answers(c, q)) => \E d \in answer.debt : d[1] = q
                           /\ answer.comparisons[q] = "MATCH" =>
                                Answers(b, q) /\ Answers(c, q) /\ b.results[q] = c.results[q]
                           /\ answer.comparisons[q] = "DELTA" =>
                                Answers(b, q) /\ Answers(c, q) /\ b.results[q] # c.results[q]
                      /\ answer.debt = {} => answer.coverage = "COMPLETE"
    BY DEF GapsAreVisible
  <2> DEFINE b == pair[1]
             c == pair[2]
  <2>1. SnapshotOK(b) /\ SnapshotOK(c) /\ RolesAreRight(b, c) /\ assessment[1] = Assessment(b, c)
    BY DEF ComparisonInv
  <2> HIDE DEF b, c
  <2>2. b.role # c.role BY <2>1 DEF RolesAreRight
  <2>3. Assessment(b, c).debt = {} => Assessment(b, c).coverage = "COMPLETE"
    <3>1. SUFFICES ASSUME Assessment(b, c).debt = {} PROVE b.plan = c.plan
      BY DEF Assessment
    <3>2. \A q \in b.plan \cup c.plan : Debt(b, c, q) = {} BY <2>1, <3>1, AssessmentShowsGaps
    <3>3. \A q \in b.plan \cup c.plan : q \in b.plan \cap c.plan BY <2>1, <3>2, NoDebtOnBothSides
    <3> QED BY <3>3
  <2> QED BY <2>1, <2>2, <2>3, AssessmentShowsGaps DEF b, c
<1> QED BY <1>1, <1>2, ComparisonStep, PTL DEF CompareSpec
=============================================================================
