---------------------------- MODULE RunDirectory ----------------------------
(***************************************************************************)
(* The private run directory of one Containerlab eBGP run: the fixed       *)
(* layout `.wireproof/runs/<run_id>/{n1,n2}/frr.conf, topology.clab.yml`,  *)
(* the manifest that binds it, and the two removals (of a minted tree and  *)
(* of an unminted construction attempt).                                   *)
(*                                                                         *)
(* A tree maps every path to a stamp.  A stamp stands for all that the     *)
(* manifest binds of an object (device, inode, size, mode, content hash):  *)
(* equal stamps are indistinguishable to the code, fresh stamps are not.   *)
(***************************************************************************)
EXTENDS Integers

Root == "run"
Topology == "topology.clab.yml"
Dirs == {"n1", "n2"}
Layout == {"n1", "n1/frr.conf", "n2", "n2/frr.conf", Topology}
\* One name outside the layout in each directory stands for all of them.
Strays == {"stray", "n1/stray", "n2/stray"}
Paths == {Root} \cup Layout \cup Strays

Parent == [p \in Layout \cup Strays |->
             IF p \in {"n1/frr.conf", "n1/stray"} THEN "n1"
             ELSE IF p \in {"n2/frr.conf", "n2/stray"} THEN "n2" ELSE Root]

Below(q) == IF q = Root THEN Layout \cup Strays
                        ELSE {p \in Layout \cup Strays : Parent[p] = q}

Absent == 0     \* nothing at the path
Own == 1        \* the object this run created
Unsafe == -1    \* a link, a special file or a wrong mode: never opened as ours
                \* stamps from 2 on: conforming objects made by someone else

NoTree == [p \in Paths |-> Absent]

\* The order in which prepare() creates entries and cleanup deletes them.
ConstructionOrder == <<Root, "n1", "n2", "n1/frr.conf", "n2/frr.conf", Topology>>
RemovalOrder == <<"n1/frr.conf", "n1", "n2/frr.conf", "n2", Topology, Root>>
Entries == 6

(***************************************************************************)
(* The manifest.  Reading it succeeds only on exactly the layout; NoTree   *)
(* is the empty manifest of an identity taken without a topology.          *)
(***************************************************************************)
ManifestReadable(t) ==
  /\ \A p \in {Root} \cup Layout : t[p] > Absent
  /\ \A p \in Strays : t[p] = Absent

Intact(t, manifest) == manifest # NoTree /\ t = manifest

(***************************************************************************)
(* Removal deletes a prefix of RemovalOrder; any system call may fail, so  *)
(* it can stop anywhere before the first entry it must refuse.             *)
(***************************************************************************)
WithoutFirst(t, k) ==
  [p \in Paths |-> IF \E i \in 1..k : RemovalOrder[i] = p THEN Absent ELSE t[p]]

\* Deviation: cleanup compares only the directory's identity.
MintedPrefixesByRootOnly(t, rootId, manifest) ==
  IF t[Root] = rootId THEN 0..Entries ELSE {0}

\* A minted tree goes only when root identity and the whole manifest agree.
MintedPrefixes(t, rootId, manifest) ==
  IF t[Root] = rootId /\ t = manifest THEN 0..Entries ELSE {0}

\* An unminted tree goes by names alone; an unexpected name or an unsafe
\* node directory stops it where it is met.
Refused(t, p) ==
  \E d \in Dirs : /\ p = d \/ p \in Below(d)
                  /\ t[d] = Unsafe \/ t[IF d = "n1" THEN "n1/stray" ELSE "n2/stray"] # Absent

IncompletePrefixes(t, rootId) ==
  IF t[Root] = rootId /\ t["stray"] = Absent
  THEN {k \in 0..Entries : \A i \in 1..k : ~Refused(t, RemovalOrder[i])}
  ELSE {0}

RemovablePrefixes(t, rootId, manifest) ==
  IF manifest # NoTree THEN MintedPrefixes(t, rootId, manifest)
                       ELSE IncompletePrefixes(t, rootId)

(***************************************************************************)
(* What another process of the same user can do to the tree in one step:   *)
(* delete or replace an entry with what is below it, spoil its kind or     *)
(* mode, or add an entry.  `fresh' is a stamp never used before.           *)
(***************************************************************************)
Replaced(t, q, s) ==
  [p \in Paths |-> IF p = q THEN s ELSE IF p \in Below(q) THEN Absent ELSE t[p]]

Addable(t, q) ==
  t[q] = Absent /\ (q = Root \/ t[Parent[q]] # Absent)

AlteredTrees(t, fresh) ==
  {Replaced(t, q, s) : q \in {p \in Paths : t[p] # Absent}, s \in {fresh, Absent}}
    \cup {[t EXCEPT ![q] = Unsafe] : q \in {p \in Paths : t[p] # Absent}}
    \cup {[t EXCEPT ![q] = fresh] : q \in {p \in Paths : Addable(t, p)}}
=============================================================================
