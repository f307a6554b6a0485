------------------------- MODULE MCStaticEvaluation -------------------------
(***************************************************************************)
(* The fabric of examples/evpn-fabric.yaml with one spine and three leaves,*)
(* and what an author may write into it.                                   *)
(***************************************************************************)
EXTENDS StaticEvaluation

Node(name, interfaces) == [name |-> name, interfaces |-> interfaces]
Link(a, b) == [a |-> a, b |-> b]
Session(leaf, as, families) ==
  [local_node |-> leaf, local_as |-> as, remote_node |-> "spine1", remote_as |-> "65000",
   families |-> families, export_policy |-> "tenant-export"]
Vtep(node, peers) == [node |-> node, source_interface |-> "lo0", peers |-> peers]
Instance(name, tenant, rd, imports, exports, shared) ==
  [name |-> name, tenant |-> tenant, rd |-> rd, imports |-> imports, exports |-> exports,
   shared_service |-> shared]
L2(vni, vlan, instance, vtep) ==
  [vni |-> vni, vlan |-> vlan, evpn_instance |-> instance, vtep |-> vtep]
L3(vni, vrf, instance, vtep) ==
  [vni |-> vni, vrf |-> vrf, evpn_instance |-> instance, vtep |-> vtep, symmetric_irb |-> TRUE]
Term(prefixSet, action) == [prefix_set |-> prefixSet, action |-> action]
Policy(name, terms) == [name |-> name, terms |-> terms]

Both == {"ipv4-unicast", "l2vpn-evpn"}
RtA == "target:65000:101"
RtB == "target:65000:201"
RtC == "target:65000:10001"

ReferencePlan ==
  [clauses |-> <<[id |-> "EVPN_M1"]>>,
   nodes |-> <<Node("spine1", {"eth1", "eth2", "eth3"}), Node("leaf1", {"lo0", "eth1", "eth2"}),
               Node("leaf2", {"lo0", "eth1"}), Node("leaf3", {"lo0", "eth1"})>>,
   links |-> <<Link(<<"spine1", "eth1">>, <<"leaf1", "eth1">>),
               Link(<<"spine1", "eth2">>, <<"leaf2", "eth1">>),
               Link(<<"spine1", "eth3">>, <<"leaf3", "eth1">>)>>,
   vlans |-> <<[id |-> "101"], [id |-> "201"]>>,
   vrfs |-> <<[name |-> "tenant-a", tenant |-> "a"], [name |-> "tenant-b", tenant |-> "b"],
              [name |-> "management", tenant |-> "ops"]>>,
   prefix_sets |-> <<[name |-> "default-only", prefixes |-> {"0.0.0.0/0"}]>>,
   route_policies |-> <<Policy("tenant-export", <<Term("none", "permit")>>)>>,
   management_export_policy |-> "none",
   bgp_sessions |-> <<Session("leaf1", "65001", Both), Session("leaf2", "65002", Both),
                      Session("leaf3", "65003", Both)>>,
   vteps |-> <<Vtep("leaf1", {"leaf2", "leaf3"}), Vtep("leaf2", {"leaf1", "leaf3"}),
               Vtep("leaf3", {"leaf1", "leaf2"})>>,
   evpn_instances |-> <<Instance("tenant-a-l2", "a", "65000:101", {RtA}, {RtA}, FALSE),
                        Instance("tenant-b-l2", "b", "65000:201", {RtB}, {RtB}, FALSE),
                        Instance("tenant-a-l3", "a", "65000:10001", {RtC}, {RtC}, FALSE)>>,
   l2_vnis |-> <<L2("10101", "101", "tenant-a-l2", "leaf1"),
                 L2("10201", "201", "tenant-b-l2", "leaf2")>>,
   l3_vnis |-> <<L3("11001", "tenant-a", "tenant-a-l3", "leaf1")>>,
   static_fdb |-> << >>]

Padded == [t \in {"a ", " "} |-> IF t = " " THEN "" ELSE "a"]

\* Correct and mistaken entries: other links, a second session of a leaf, an
\* asymmetric VTEP, instances that share targets within and across tenants or as
\* a service, VNIs for them, names that are empty, blank or padded, and a policy
\* with an empty reference.
Writable ==
  [clauses |-> {[id |-> "EVPN_M1"]},
   vrfs |-> {[name |-> "", tenant |-> "ops"], [name |-> "management", tenant |-> " "]},
   links |-> {Link(<<"leaf1", "eth1">>, <<"leaf1", "eth2">>),
              Link(<<"leaf1", "eth1">>, <<"spine1", "eth1">>)},
   bgp_sessions |-> {Session("leaf1", "65001", {"l2vpn-evpn"}),
                     Session("leaf2", "65002", {"ipv4-unicast"})},
   vteps |-> {Vtep("leaf1", {"leaf2"}), Vtep("leaf4", {})},
   evpn_instances |-> {Instance("tenant-b-l3", "b", "65000:20001", {RtA, RtB}, {RtB}, FALSE),
                       Instance("tenant-b-l2", "b", "65000:201", {RtA, RtB}, {RtB}, TRUE),
                       Instance("tenant-a-l2", "a ", "65000:101", {RtA}, {RtA}, FALSE)},
   l2_vnis |-> {L2("10201", "201", "tenant-a-l3", "leaf2")},
   l3_vnis |-> {L3("12001", "tenant-b", "tenant-b-l3", "leaf2"),
                L3("11001", "tenant-b", "tenant-a-l3", "leaf1")},
   prefix_sets |-> {[name |-> "default-only", prefixes |-> {"10.0.0.0/8"}]},
   route_policies |-> {Policy("tenant-export",
                              <<Term("default-only", "deny"), Term("", "permit")>>)},
   static_fdb |-> {[vlan |-> "101", vtep |-> "leaf1"], [vlan |-> "301", vtep |-> "leaf1"]}]
=============================================================================
