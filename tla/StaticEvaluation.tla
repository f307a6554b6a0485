-------------------------- MODULE StaticEvaluation --------------------------
(***************************************************************************)
(* Static evaluation of a plan.  An author edits a plan; an application    *)
(* compiles it, keeps the binding, and evaluates the plan and the closed   *)
(* negative fixtures against that binding, again after further edits.      *)
(* `verify static' is the two steps Compile and Evaluate in a row.         *)
(***************************************************************************)
EXTENDS TestPack

CONSTANTS
  Baseline,   \* the plan the author starts from
  Menu,       \* per collection, the entries an author may put into it
  MaxEdits    \* bound on the edits

ASSUME EditsAssumption == MaxEdits \in Nat

\* A document has these collections, each a list, and one reference by itself.
Collections ==
  {"clauses", "nodes", "links", "vlans", "vrfs", "prefix_sets", "route_policies",
   "bgp_sessions", "vteps", "evpn_instances", "l2_vnis", "l3_vnis", "static_fdb"}

IsPlan(p) ==
  /\ DOMAIN p = Collections \cup {"management_export_policy"}
  /\ \A c \in Collections : p[c] \in Seq(Range(p[c]))

ASSUME PlanAssumption == IsPlan(Baseline) /\ DOMAIN Menu \subseteq Collections

VARIABLES
  plan,       \* the plan as written
  edits,      \* edits so far
  bound,      \* the StaticEvaluationBinding: meaning and clauses of the plan compiled
  verdict     \* the last result: input, status and the plan it is about

vars == <<plan, edits, bound, verdict>>

Unbound == [meaning |-> << >>, clauses |-> {}]
NoVerdict == [input |-> "none", status |-> "none", subject |-> Baseline]

Init == plan = Baseline /\ edits = 0 /\ bound = Unbound /\ verdict = NoVerdict

(***************************************************************************)
(* The author                                                              *)
(***************************************************************************)
Rewrite(c, entries) ==
  /\ edits < MaxEdits /\ edits' = edits + 1
  /\ plan' = [plan EXCEPT ![c] = entries]
  /\ UNCHANGED <<bound, verdict>>

Replace(c, i, entry) == Rewrite(c, [plan[c] EXCEPT ![i] = entry])
Add(c, entry) == Rewrite(c, Append(plan[c], entry))
Swap(c, i) == Rewrite(c, [plan[c] EXCEPT ![i] = plan[c][i + 1], ![i + 1] = plan[c][i]])

(***************************************************************************)
(* The closed fixtures                                                     *)
(***************************************************************************)
\* The clause each fixture names, by kind and identity.
Intended ==
  [wrong_rt           |-> <<"evpn", <<"tenant-a-l2">>>>,
   wrong_vni          |-> <<"vni", <<"l3", "11001">>>>,
   cross_tenant_rt    |-> <<"evpn", <<"tenant-b-l2">>>>,
   default_route_leak |-> <<"bgp", <<"leaf1", "65001", "spine1", "65000", "ipv4-unicast">>>>,
   missing_evpn_af    |-> <<"bgp", <<"leaf1", "65001", "spine1", "65000", "l2vpn-evpn">>>>,
   stale_fdb          |-> <<"vni", <<"l2", "10101">>>>,
   asymmetric_vtep    |-> <<"vni", <<"l2", "10101">>>>]

Fixtures == DOMAIN Intended

\* The entries a mutation addresses by position exist.
Mutable(p, f) ==
  CASE f = "wrong_rt" -> Len(p.evpn_instances) >= 1
    [] f = "wrong_vni" -> Len(p.l2_vnis) >= 1 /\ Len(p.l3_vnis) >= 1
    [] f = "cross_tenant_rt" -> Len(p.evpn_instances) >= 2
    [] f = "default_route_leak" ->
         Len(p.prefix_sets) >= 1 /\ Len(p.route_policies) >= 1 /\ Len(p.route_policies[1].terms) >= 1
    [] f = "missing_evpn_af" -> Len(p.bgp_sessions) >= 1
    [] f = "stale_fdb" -> TRUE
    [] f = "asymmetric_vtep" -> Len(p.vteps) >= 1

Mutated(p, f) ==
  CASE f = "wrong_rt" -> [p EXCEPT !.evpn_instances[1].exports = {"target:65000:999"}]
    [] f = "wrong_vni" -> [p EXCEPT !.l3_vnis[1].vni = p.l2_vnis[1].vni]
    [] f = "cross_tenant_rt" -> [p EXCEPT !.evpn_instances[2].exports = {"target:65000:101"}]
    [] f = "default_route_leak" ->
         [p EXCEPT !.management_export_policy = "tenant-export",
                   !.prefix_sets[1].prefixes = {"0.0.0.0/0"},
                   !.route_policies[1].terms[1].prefix_set = "default-only"]
    [] f = "missing_evpn_af" -> [p EXCEPT !.bgp_sessions[1].families = {"ipv4-unicast"}]
    [] f = "stale_fdb" -> [p EXCEPT !.static_fdb = <<[vlan |-> "101", vtep |-> "missing"]>>]
    [] f = "asymmetric_vtep" -> [p EXCEPT !.vteps[1].peers = {"leaf2"}]

\* Exactly one clause of the bound pack is the one the fixture names.  Its
\* expected field repeats what the identity says.
ClauseSelected(b, f) ==
  Cardinality({c \in b.clauses : <<c.kind, c.id>> = Intended[f]}) = 1

\* Validation answers, and the answer is no.
Rejected(p) == ~Valid(p) /\ ~LookupRaises(p)

\* Deviation: a baseline is not compared with the plan that was compiled.
StatusUnbound(p, b, input) ==
  IF input = "baseline" THEN "PASS"
  ELSE IF /\ Meaning(p) = b.meaning
          /\ input \in Fixtures /\ ClauseSelected(b, input)
          /\ Mutable(p, input) /\ Rejected(Mutated(p, input))
       THEN "FAIL" ELSE "UNKNOWN"

\* What evaluate_static_baseline() and evaluate_static_fixture_bytes() answer;
\* input "rejected" is a fixture whose metadata is unreadable, unmapped or at
\* odds with the closed expectation.
Status(p, b, input) ==
  IF Meaning(p) # b.meaning THEN "UNKNOWN"
  ELSE IF input = "baseline" THEN "PASS"
  ELSE IF /\ input \in Fixtures /\ ClauseSelected(b, input)
          /\ Mutable(p, input) /\ Rejected(Mutated(p, input))
       THEN "FAIL" ELSE "UNKNOWN"

(***************************************************************************)
(* The application                                                         *)
(***************************************************************************)
\* compile_plan() and bind_static_evaluation().
Compile ==
  /\ Valid(plan) /\ Compiles(plan)
  /\ bound' = [meaning |-> Meaning(plan), clauses |-> Clauses(plan)]
  /\ verdict' = NoVerdict
  /\ UNCHANGED <<plan, edits>>

\* The plan evaluated is a FeatureContract, so it was validated.
Evaluate(input) ==
  /\ bound # Unbound /\ Valid(plan)
  /\ verdict' = [input |-> input, status |-> Status(plan, bound, input), subject |-> plan]
  /\ UNCHANGED <<plan, edits, bound>>

Next ==
  \/ \E c \in DOMAIN Menu : \E entry \in Menu[c] : Add(c, entry)
  \/ \E c \in DOMAIN Menu : \E i \in DOMAIN plan[c], entry \in Menu[c] : Replace(c, i, entry)
  \/ \E c \in DOMAIN Menu : \E i \in 1..(Len(plan[c]) - 1) : Swap(c, i)
  \/ Compile
  \/ \E input \in Fixtures \cup {"baseline", "rejected"} : Evaluate(input)

Spec == Init /\ [][Next]_vars
-----------------------------------------------------------------------------
\* What a pack obliges an executor to.
Obligations(clauses) == {<<c.kind, c.id, c.tenant>> : c \in clauses}

\* A PASS or a FAIL is about a plan with the very obligations of the bound pack,
\* however the plan was edited between compiling and evaluating it; nothing is
\* compiled again to find out (evaluate_static_fixture_bytes).
VerdictMatchesPack ==
  verdict.status \in {"PASS", "FAIL"} =>
    Obligations(Clauses(verdict.subject)) = Obligations(bound.clauses)

\* The instances VNIs forward by, each with the tenant its clause is filed under.
ServedBy(p) ==
  {<<Stripped(TenantOfInstance(p, n.evpn_instance)),
     First(p.evpn_instances, "name", n.evpn_instance)>> : n \in Range(p.l2_vnis)}
  \cup
  {<<Stripped(TenantOfVrf(p, n.vrf)),
     First(p.evpn_instances, "name", n.evpn_instance)>> : n \in Range(p.l3_vnis)}

\* In an accepted plan no VNI of one tenant imports a route that a VNI of another
\* tenant exports, unless one of their instances is a shared service.
TenantsStayApart ==
  Valid(plan) =>
    \A v, w \in ServedBy(plan) :
      v[1] # w[1] /\ ~v[2].shared_service /\ ~w[2].shared_service
        => v[2].exports \cap w[2].imports = {}

\* The projection of a pack to a tenant holds, with the clause of a VNI, the
\* clauses of the instance and the VRF that VNI refers to, also where a tenant is
\* written with blanks around it.  Projecting on from a projection leads nowhere
\* else, however the tenant is asked for: to no other tenant, and to no second
\* link in the provenance, which keeps naming the compiler's pack.
ProjectionIsClosed ==
  Valid(plan) /\ PackBuilds(plan) =>
    \A asked \in Askable(Pack(plan)) :
      LET mine == Projection(Pack(plan), asked)
          Holds(kind, name) == \E d \in mine.clauses : d.kind = kind /\ d.id = <<name>>
      IN  /\ \A c \in mine.clauses : c.kind = "vni" =>
               LET n == plan[c.entry[1]][c.entry[2]]
               IN  /\ Holds("evpn", n.evpn_instance)
                   /\ c.entry[1] = "l3_vnis" => Holds("vrf", n.vrf)
          /\ \A other \in Askable(mine) :
               /\ Stripped(other) = Stripped(asked)
               /\ Projection(mine, other).parent = Pack(plan)

\* Of what TestPack demands, an accepted plan can only miss the names: its pack
\* builds unless an instance or a VRF has an empty name or a blank tenant, which
\* FeatureContract lets pass.  Identities never collide, whatever the VNIs refer
\* to (validate_canonical_invariants, against validate_references).
OnlyNamesPreventPack ==
  Valid(plan) =>
    (PackBuilds(plan) <=>
       \A e \in Range(plan.evpn_instances) \cup Range(plan.vrfs) :
         e.name # "" /\ Stripped(e.tenant) # "")

\* A fixture has one verdict for all plans of one meaning: "Every fixture fails
\* its intended clause deterministically." (feature-f4-negative-evpn.md:28)
VerdictFollowsMeaning ==
  [][ /\ bound' = bound /\ verdict.input = verdict'.input
      /\ Meaning(verdict.subject) = Meaning(verdict'.subject)
      => verdict.status = verdict'.status ]_vars
=============================================================================
