------------------------------ MODULE TestPack ------------------------------
(***************************************************************************)
(* What the compiler makes of an accepted plan: its meaning (the canonical *)
(* hash), the reference artifact, the test pack and its projections to one *)
(* tenant.  A clause is its kind, the identity its id is hashed from, its  *)
(* tenant and the entry it stands for; what it expects is that entry.      *)
(***************************************************************************)
EXTENDS FeatureContract, FiniteSets

CONSTANT Strip   \* per name with blanks around it, what str.strip() leaves of it

ASSUME StripAssumption ==
  {Strip[t] : t \in DOMAIN Strip} \cup {"none"} \subseteq STRING \ DOMAIN Strip

Stripped(t) == IF t \in DOMAIN Strip THEN Strip[t] ELSE t

\* A collection without its order, counting repeated entries.
Unordered(s) == [x \in Range(s) |-> Cardinality({i \in DOMAIN s : s[i] = x})]

\* The canonical form that is hashed: every list sorted, except the terms of a
\* policy.
Meaning(p) ==
  [f \in DOMAIN p |-> IF f = "management_export_policy" THEN p[f] ELSE Unordered(p[f])]

\* What ContainerlabReferenceArtifact demands beyond what FeatureContract does.
ArtifactBuilds(p) ==
  /\ \A l \in Range(p.links) : l.a[1] # l.b[1]
  /\ \A i, j \in DOMAIN p.links :
       {p.links[i].a, p.links[i].b} = {p.links[j].a, p.links[j].b} => i = j
  /\ UniqueBy(p.clauses, "id")

(***************************************************************************)
(* The test pack                                                           *)
(***************************************************************************)
\* A clause keeps its tenant without the blanks around it.
Clause(kind, id, tenant, entry) ==
  [kind |-> kind, id |-> id, tenant |-> Stripped(tenant), entry |-> entry]

TenantOfInstance(p, name) == First(p.evpn_instances, "name", name).tenant
TenantOfVrf(p, name) == First(p.vrfs, "name", name).tenant

Clauses(p) ==
  {Clause("vni", <<"l2", p.l2_vnis[i].vni>>,
          TenantOfInstance(p, p.l2_vnis[i].evpn_instance), <<"l2_vnis", i>>) : i \in DOMAIN p.l2_vnis}
  \cup
  {Clause("vni", <<"l3", p.l3_vnis[i].vni>>,
          TenantOfVrf(p, p.l3_vnis[i].vrf), <<"l3_vnis", i>>) : i \in DOMAIN p.l3_vnis}
  \cup
  {Clause(kind, <<p.evpn_instances[i][IF kind = "rd" THEN "rd" ELSE "name"]>>,
          p.evpn_instances[i].tenant, <<"evpn_instances", i>>) :
     kind \in {"rd", "evpn"}, i \in DOMAIN p.evpn_instances}
  \cup
  {Clause("vrf", <<p.vrfs[i].name>>, p.vrfs[i].tenant, <<"vrfs", i>>) : i \in DOMAIN p.vrfs}
  \cup
  {Clause("vlan", <<p.vlans[i].id>>, "none", <<"vlans", i>>) : i \in DOMAIN p.vlans}
  \cup
  UNION {{Clause("bgp", id, "none", <<"bgp_sessions", i>>) : id \in PeerFamilies(p.bgp_sessions[i])} :
           i \in DOMAIN p.bgp_sessions}

\* TestPackClause refuses a blank tenant and an empty identity, TestPack two
\* clauses of one id.
PackBuilds(p) ==
  /\ \A c \in Clauses(p) : c.tenant # "" /\ c.id # <<"">>
  /\ \A c, d \in Clauses(p) : c.kind = d.kind /\ c.id = d.id => c = d

\* compile_plan() returns.
Compiles(p) == ArtifactBuilds(p) /\ PackBuilds(p)

\* The pack of a plan.  parent is the pack a projection was made from, of which
\* the code keeps the hash; "none" for the compiler's own.
Pack(p) == [meaning |-> Meaning(p), clauses |-> Clauses(p), parent |-> "none", tenant |-> "none"]

Tenants(pack) == {c.tenant : c \in pack.clauses} \ {"none"}

\* The names a pack can be projected by, which may carry blanks; any other is a
\* ValueError.
Askable(pack) == {t \in Tenants(pack) \cup DOMAIN Strip : Stripped(t) \in Tenants(pack)}

\* Deviation: a pack is taken for a projection by the name as it is asked for.
ProjectionAsAsked(pack, asked) ==
  IF pack.tenant = asked THEN pack
  ELSE [meaning |-> pack.meaning,
        clauses |-> {c \in pack.clauses : c.tenant = Stripped(asked)},
        parent |-> pack, tenant |-> Stripped(asked)]

\* project_test_pack_for_tenant(), for a name the pack can be projected by.
Projection(pack, asked) ==
  IF pack.tenant = Stripped(asked) THEN pack
  ELSE [meaning |-> pack.meaning,
        clauses |-> {c \in pack.clauses : c.tenant = Stripped(asked)},
        parent |-> pack, tenant |-> Stripped(asked)]
=============================================================================
