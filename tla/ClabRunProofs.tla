--------------------------- MODULE ClabRunProofs ---------------------------
(***************************************************************************)
(* Proofs about one Containerlab eBGP run, for every bound on the outside  *)
(* changes to its directory and every order of calls, and about the        *)
(* command that drives one or two of them.                                 *)
(***************************************************************************)
EXTENDS ClabSmoke, TLAPS

\* Where a call can stand, given the state of the run.
CallInv ==
  /\ pc \in {"construct", "bind"} => state = "PREPARED" /\ ~Minted
  /\ pc \in {"check", "deploy"} => state = "PREPARED" /\ Minted
  /\ pc = "probe" => state = "DEPLOYED"
  /\ pc \in {"destroy", "remove"} => state # "CLEANED" /\ destroyAttempted
  /\ inUp => pc \in {"down", "destroy", "remove"} /\ state = "PREPARED" /\ deployAttempted

\* What a run that is past its deploy has: an artifact, and at most one
\* destroy, which it starts only after recording the attempt.
DestroyInv ==
  /\ destroyAttempted => deployAttempted
  /\ deployAttempted => Minted
  /\ state # "PREPARED" => Minted /\ deployAttempted
  /\ lab # "none" => Minted
  /\ deploys > 0 => Minted
  /\ destroys <= 1
  /\ destroys = 1 => destroyAttempted /\ pc # "destroy"

\* Without an escaped exception a PREPARED run has never deployed, except
\* while it cleans up its own failed deploy.
DeployInv ==
  ~raised =>
    /\ deploys <= 1
    /\ state = "PREPARED" /\ ~inUp =>
         ~deployAttempted /\ lab = "none" /\ deploys = 0
    /\ inUp /\ pc = "down" => ~destroyAttempted

\* Nobody has made the stamp the next outside change will use.
FreshInv ==
  \A p \in Paths : tree[p] <= interference + 1 /\ manifest[p] <= interference + 1

\* No directory is held before prepare() has made its own, nor after it failed.
OpenedInv ==
  ~Minted /\ (pc \in {"construct", "bind"} => built = 0) => opened[Root] = Absent

\* The manifest, the tree and the lab.
TreeInv ==
  /\ Minted => \A p \in {Root} \cup Layout : manifest[p] > Absent
  /\ pc = "remove" => lab = "none"
  /\ state = "CLEANED" => lab = "none" /\ \A p \in {Root} \cup Layout : tree[p] # manifest[p]
  /\ interference = 0 /\ Minted =>
       tree = manifest \/ (state \in {"CLEANED", "CLEANUP_FAILED"} /\ lab = "none")

\* An answer that a preflight or a preparation failed is never outdated.
FailureInv ==
  failure \in {"PREFLIGHT", "LAB_ENVIRONMENT_UNAVAILABLE"} => ~Minted /\ pc \in {"idle", "down"}

IInv ==
  TypeOK /\ CallInv /\ DestroyInv /\ DeployInv /\ FreshInv /\ OpenedInv /\ TreeInv /\ FailureInv
-----------------------------------------------------------------------------
(***************************************************************************)
(* Lemmas about trees                                                      *)
(***************************************************************************)
\* A removal leaves every entry as it was or absent, and a complete one
\* leaves nothing of the layout.
LEMMA RemovalLeaves ==
  ASSUME NEW S, Absent \in S, NEW t \in [Paths -> S], NEW k \in 0..Entries
  PROVE  /\ WithoutFirst(t, k) \in [Paths -> S]
         /\ \A p \in Paths : WithoutFirst(t, k)[p] \in {Absent, t[p]}
         /\ k = Entries => \A p \in {Root} \cup Layout : WithoutFirst(t, k)[p] = Absent
<1>1. \A p \in Paths : WithoutFirst(t, k)[p] \in {Absent, t[p]}
  BY DEF WithoutFirst
<1>2. WithoutFirst(t, k) \in [Paths -> S]
  BY DEF WithoutFirst
<1>3. ASSUME k = Entries, NEW p \in {Root} \cup Layout
      PROVE  WithoutFirst(t, k)[p] = Absent
  <2>1. p \in Paths
    BY <1>3 DEF Paths
  <2>2. \E i \in 1..6 : RemovalOrder[i] = p
    <3>1. /\ RemovalOrder[1] = "n1/frr.conf" /\ RemovalOrder[2] = "n1"
          /\ RemovalOrder[3] = "n2/frr.conf" /\ RemovalOrder[4] = "n2"
          /\ RemovalOrder[5] = Topology /\ RemovalOrder[6] = Root
      BY DEF RemovalOrder
    <3>2. p \in {"n1/frr.conf", "n1", "n2/frr.conf", "n2", Topology, Root}
      BY <1>3 DEF Layout
    <3> QED  BY <3>1, <3>2
  <2> QED  BY <1>3, <2>1, <2>2 DEF WithoutFirst, Entries
<1> QED  BY <1>1, <1>2, <1>3

\* Every prefix either removal may stop at is within the removal order.
LEMMA PrefixesBounded ==
  ASSUME NEW t, NEW r, NEW m, NEW k \in RemovablePrefixes(t, r, m)
  PROVE  k \in 0..Entries
BY DEF RemovablePrefixes, MintedPrefixes, IncompletePrefixes, Entries

\* No prefix of the removal order deletes an entry outside the layout, and
\* the empty prefix deletes nothing.
LEMMA StraysStay ==
  ASSUME NEW t, NEW k \in 0..Entries, NEW p \in Paths,
         WithoutFirst(t, k)[p] = Absent, t[p] # Absent
  PROVE  p \notin Strays
<1>1. PICK i \in 1..6 : RemovalOrder[i] = p
  BY DEF WithoutFirst, Entries
<1>2. i \in {1, 2, 3, 4, 5, 6}
  BY <1>1
<1>3. p \in {"n1/frr.conf", "n1", "n2/frr.conf", "n2", Topology, Root}
  BY <1>1, <1>2 DEF RemovalOrder
<1> QED  BY <1>3 DEF Strays, Topology, Root

LEMMA NothingRemoved ==
  ASSUME NEW S, NEW t \in [Paths -> S]
  PROVE  WithoutFirst(t, 0) = t
<1>1. \A p \in Paths : WithoutFirst(t, 0)[p] = t[p]
  BY DEF WithoutFirst
<1> QED  BY <1>1 DEF WithoutFirst

\* The handler of a failed preparation leaves a tree of the same stamps.
LEMMA CleanupsType ==
  ASSUME NEW S, Absent \in S, NEW t \in [Paths -> S], NEW r, NEW u \in Cleanups(t, r, NoTree)
  PROVE  u \in [Paths -> S]
BY PrefixesBounded, RemovalLeaves DEF Cleanups

\* One outside change puts only an absent, an unsafe or a fresh object
\* anywhere.
LEMMA AlteredLeaves ==
  ASSUME NEW S, NEW t \in [Paths -> S], NEW fresh, {Absent, Unsafe, fresh} \subseteq S,
         NEW u \in AlteredTrees(t, fresh)
  PROVE  /\ u \in [Paths -> S]
         /\ \A p \in Paths : u[p] \in {Absent, Unsafe, fresh, t[p]}
<1>1. CASE \E q \in Paths, s \in {fresh, Absent} : u = Replaced(t, q, s)
  BY <1>1 DEF Replaced
<1>2. CASE \E q \in Paths : u = [t EXCEPT ![q] = Unsafe]
  BY <1>2
<1>3. CASE \E q \in Paths : u = [t EXCEPT ![q] = fresh]
  BY <1>3
<1> QED  BY <1>1, <1>2, <1>3 DEF AlteredTrees

\* prepare() puts only its own objects into the tree.
LEMMA PlacedLeaves ==
  ASSUME NEW S, {Absent, Own} \subseteq S, tree \in [Paths -> S], NEW p \in Paths,
         NEW u \in Placed(p)
  PROVE  u \in [Paths -> S]
BY DEF Placed, Visible
\* ... and makes nothing disappear.
LEMMA PlacedAdds ==
  ASSUME NEW S, tree \in [Paths -> S], NEW q \in Paths, NEW u \in Placed(q),
         NEW p \in Paths, tree[p] # Absent
  PROVE  u[p] # Absent
BY DEF Placed, Visible, Own, Absent

LEMMA OwnStamp == {Absent, Own} \subseteq Stamps
BY InterferenceAssumption DEF Absent, Own, Unsafe, Stamps

-----------------------------------------------------------------------------
(***************************************************************************)
(* The invariant is inductive                                              *)
(***************************************************************************)
\* Calls that begin, are refused or return without touching the tree, the
\* lab or the artifact.
LEMMA CallSteps ==
  ASSUME IInv, CallUp \/ CallStatus \/ DownCalled \/ UpCheck \/ DownAlreadyCleaned \/ DownRefused
                 \/ DownCheck,
         UNCHANGED interference
  PROVE  IInv'
<1> USE DEF IInv, TypeOK, CallInv, DestroyInv, DeployInv, FreshInv, OpenedInv, TreeInv, FailureInv,
            Minted, Return, States, Failures, Labs, Points, Returns, Entries
<1>1. CASE CallUp
  BY <1>1 DEF CallUp, UpRefused, UpAlreadyPrepared, UpPreflight
<1>2. CASE CallStatus
  BY <1>2 DEF CallStatus, StatusRefused, StatusBegins
<1>3. CASE DownCalled
  BY <1>3 DEF DownCalled
<1>4. CASE UpCheck
  BY <1>4 DEF UpCheck
<1>5. CASE DownAlreadyCleaned
  BY <1>5 DEF DownAlreadyCleaned, DownReturns
<1>6. CASE DownRefused
  BY <1>6 DEF DownRefused, DownReturns
<1>7. CASE DownCheck
  <2>1. CASE Intact(tree, manifest) /\ pc' = "destroy" /\ UNCHANGED <<state, failure, inUp, ret>>
    BY <1>7, <2>1 DEF DownCheck
  <2>2. CASE CleanupFails("CLEANUP_FAILED")
    BY <1>7, <2>2 DEF DownCheck, CleanupFails, DownReturns
  <2> QED  BY <1>7, <2>1, <2>2 DEF DownCheck
<1> QED  BY <1>1, <1>2, <1>3, <1>4, <1>5, <1>6, <1>7

\* Commands run by the executor.
LEMMA CommandSteps ==
  ASSUME IInv, DeployCommand \/ ProbeNode \/ DestroyCommand, UNCHANGED interference
  PROVE  IInv'
<1> USE DEF IInv, TypeOK, CallInv, DestroyInv, DeployInv, FreshInv, OpenedInv, TreeInv, FailureInv,
            Minted, Return, Raise, States, Failures, Labs, Points, Returns, Count
<1>1. CASE DeployCommand
  <2>0. pc = "deploy" /\ UNCHANGED <<tree, opened, built, manifest, destroyAttempted, seen, destroys>>
    BY <1>1 DEF DeployCommand
  <2>1. CASE /\ Intact(tree, manifest)
             /\ lab' = "up" /\ deploys' = Count(deploys)
             /\ deployAttempted' = TRUE
             /\ state' = "DEPLOYED"
             /\ Return("true")
             /\ UNCHANGED <<failure, inUp, raised>>
    BY <2>0, <2>1
  <2>2. CASE /\ \/ Intact(tree, manifest) /\ lab' \in CutOffDeploys /\ deploys' = Count(deploys)
                \/ UNCHANGED <<lab, deploys>>
             /\ deployAttempted' = TRUE
             /\ failure' = "DEPLOY_FAILED"
             /\ inUp' = TRUE /\ pc' = "down"
             /\ UNCHANGED <<state, ret, raised>>
    BY <2>0, <2>2 DEF CutOffDeploys
  <2>3. CASE /\ Intact(tree, manifest) /\ lab' \in CutOffDeploys /\ deploys' = Count(deploys)
             /\ Raise
             /\ UNCHANGED <<deployAttempted, state, failure, inUp>>
    BY <2>0, <2>3 DEF CutOffDeploys
  <2> QED  BY <1>1, <2>1, <2>2, <2>3 DEF DeployCommand
<1>2. CASE ProbeNode
  BY <1>2 DEF ProbeNode, NextNode, Dirs
<1>3. CASE DestroyCommand
  <2>0. /\ pc = "destroy"
        /\ UNCHANGED <<tree, opened, built, manifest, deployAttempted, destroyAttempted, seen, deploys>>
    BY <1>3 DEF DestroyCommand
  <2>1. CASE /\ Intact(tree, manifest) /\ lab' = "none" /\ destroys' = Count(destroys)
             /\ pc' = "remove"
             /\ UNCHANGED <<state, failure, inUp, ret, raised>>
    BY <2>0, <2>1
  <2>2. CASE /\ \/ Intact(tree, manifest) /\ lab' \in CutOffDestroys /\ destroys' = Count(destroys)
                \/ UNCHANGED <<lab, destroys>>
             /\ CleanupFails("CLEANUP_FAILED")
             /\ UNCHANGED raised
    <3>0. lab' \in Labs /\ destroys' \in 0..2
      BY <2>2 DEF CutOffDestroys
    <3>1. TypeOK'
      BY <2>0, <2>2, <3>0 DEF CleanupFails, DownReturns
    <3>2. CallInv'
      BY <2>0, <2>2 DEF CutOffDestroys, CleanupFails, DownReturns
    <3>3. DestroyInv'
      BY <2>0, <2>2 DEF CutOffDestroys, CleanupFails, DownReturns
    <3>4. DeployInv'
      BY <2>0, <2>2 DEF CutOffDestroys, CleanupFails, DownReturns
    <3>5. FreshInv' /\ OpenedInv'
      BY <2>0, <2>2 DEF CutOffDestroys, CleanupFails, DownReturns
    <3>6. TreeInv'
      BY <2>0, <2>2 DEF CutOffDestroys, CleanupFails, DownReturns
    <3>7. FailureInv'
      BY <2>0, <2>2 DEF CutOffDestroys, CleanupFails, DownReturns
    <3> QED  BY <3>1, <3>2, <3>3, <3>4, <3>5, <3>6, <3>7
  <2>3. CASE /\ Intact(tree, manifest) /\ lab' \in CutOffDestroys /\ destroys' = Count(destroys)
             /\ Raise /\ inUp' = FALSE
             /\ UNCHANGED <<state, failure>>
    <3>0. lab' \in Labs /\ destroys' \in 0..2
      BY <2>3 DEF CutOffDestroys
    <3>1. TypeOK'
      BY <2>0, <2>3, <3>0
    <3>2. CallInv'
      BY <2>0, <2>3 DEF CutOffDestroys
    <3>3. DestroyInv'
      BY <2>0, <2>3 DEF CutOffDestroys
    <3>4. DeployInv'
      BY <2>0, <2>3 DEF CutOffDestroys
    <3>5. FreshInv' /\ OpenedInv'
      BY <2>0, <2>3 DEF CutOffDestroys
    <3>6. TreeInv'
      BY <2>0, <2>3 DEF CutOffDestroys
    <3>7. FailureInv'
      BY <2>0, <2>3 DEF CutOffDestroys
    <3> QED  BY <3>1, <3>2, <3>3, <3>4, <3>5, <3>6, <3>7
  <2> QED  BY <1>3, <2>1, <2>2, <2>3 DEF DestroyCommand
<1> QED  BY <1>1, <1>2, <1>3

\* prepare(): whatever it builds, the artifact is minted only by BindManifest.
LEMMA PrepareSteps ==
  ASSUME IInv, MakeRoot \/ MakeEntry \/ BindManifest, UNCHANGED interference
  PROVE  IInv'
<1> DEFINE S == Unsafe..(interference + 1)
<1>0. /\ Absent \in S /\ Own \in S /\ interference \in Nat /\ MaxInterference \in Nat
      /\ tree \in [Paths -> S] /\ NoTree \in [Paths -> S] /\ \A d \in {Root} \cup Dirs : d \in Paths
  <2>1. interference \in Nat /\ MaxInterference \in Nat
    BY InterferenceAssumption DEF IInv, TypeOK
  <2>2. Absent \in S /\ Own \in S
    BY <2>1 DEF Absent, Own, Unsafe
  <2>3. tree \in [Paths -> S]
    <3>1. tree \in [Paths -> Stamps] /\ \A p \in Paths : tree[p] <= interference + 1
      BY DEF IInv, TypeOK, FreshInv
    <3>2. \A p \in Paths : tree[p] \in S
      BY <2>1, <3>1 DEF Stamps, Unsafe
    <3> QED  BY <3>1, <3>2
  <2>4. NoTree \in [Paths -> S]
    BY <2>2 DEF NoTree
  <2>5. \A d \in {Root} \cup Dirs : d \in Paths
    BY DEF Paths, Layout, Dirs
  <2> QED  BY <2>1, <2>2, <2>3, <2>4, <2>5
<1> USE DEF IInv, TypeOK, CallInv, DestroyInv, DeployInv, FreshInv, OpenedInv, TreeInv, FailureInv,
            Minted, Return, States, Failures, Labs, Points, Returns
<1>1. ASSUME NEW t \in [Paths -> S], PrepareFails(t), UNCHANGED interference,
             pc \in {"construct", "bind"},
             UNCHANGED <<state, deployAttempted, destroyAttempted, lab, inUp, seen,
                         deploys, destroys, raised>>
      PROVE  IInv'
  <2>1. /\ manifest' = NoTree /\ tree' = t /\ t \in [Paths -> Stamps] /\ NoTree \in [Paths -> Stamps]
        /\ \A p \in Paths : t[p] <= interference + 1 /\ NoTree[p] <= interference + 1
    BY <1>0, <1>1 DEF PrepareFails, Stamps, Unsafe
  <2>2. opened' \in [{Root} \cup Dirs -> Stamps] /\ opened'[Root] = Absent
    BY <1>0, <1>1, OwnStamp DEF PrepareFails
  <2> QED  BY <2>1, <2>2, <1>0, <1>1 DEF PrepareFails, Entries
<1>2. CASE MakeRoot
  <2> DEFINE made == [tree EXCEPT ![Root] = Own]
  <2>1. made \in [Paths -> S]
    BY <1>0
  <2>2. CASE /\ tree' = made
             /\ opened' = [opened EXCEPT ![Root] = Own]
             /\ built' = 1
             /\ UNCHANGED <<manifest, failure, pc, ret>>
    <3>1. /\ tree' \in [Paths -> Stamps] /\ opened' \in [{Root} \cup Dirs -> Stamps]
          /\ \A p \in Paths : tree'[p] <= interference + 1
      BY <1>0, <2>1, <2>2 DEF Stamps, Unsafe, Own
    <3> QED  BY <1>2, <2>2, <3>1, <1>0 DEF MakeRoot, Entries
  <2>3. ASSUME NEW t \in {tree} \cup {made} \cup Cleanups(made, Own, NoTree), PrepareFails(t)
        PROVE  IInv'
    <3>1. t \in [Paths -> S]
      BY <1>0, <2>1, CleanupsType
    <3> QED  BY <1>1, <1>2, <2>3, <3>1 DEF MakeRoot
  <2> QED  BY <1>2, <2>2, <2>3 DEF MakeRoot
<1>3. CASE MakeEntry
  <2> DEFINE p == ConstructionOrder[built + 1]
  <2>0. /\ p \in Layout /\ p \in Paths
        /\ pc = "construct" /\ built \in 1..5
        /\ UNCHANGED <<state, deployAttempted, destroyAttempted, lab, inUp, seen,
                       deploys, destroys, raised>>
    <3>1. built \in {1, 2, 3, 4, 5}
      BY <1>3 DEF MakeEntry, Entries
    <3> QED  BY <1>3, <3>1 DEF MakeEntry, ConstructionOrder, Layout, Paths, Entries
  <2> HIDE DEF p
  <2>1. \A t \in Placed(p) : t \in [Paths -> S]
    BY <1>0, <2>0, PlacedLeaves
  <2>2. ASSUME NEW t \in Placed(p), tree' = t,
               opened' = IF p \in Dirs THEN [opened EXCEPT ![p] = Held(p, t)] ELSE opened,
               built' = built + 1,
               pc' = IF built + 1 = Entries THEN "bind" ELSE "construct",
               UNCHANGED <<manifest, failure, ret>>
        PROVE  IInv'
    <3>0. Held(p, t) \in Stamps
      BY <1>0, <2>0, <2>1, <2>2, OwnStamp DEF Held, Stamps, Unsafe
    <3>1. /\ tree' \in [Paths -> Stamps] /\ opened' \in [{Root} \cup Dirs -> Stamps]
          /\ \A q \in Paths : tree'[q] <= interference + 1
      BY <1>0, <2>0, <2>1, <2>2, <3>0 DEF Stamps, Unsafe
    <3> QED  BY <2>0, <2>2, <3>1, <1>0, <1>3 DEF Entries
  <2>3. ASSUME NEW made \in {tree} \cup Placed(p), NEW t \in Cleanups(made, opened[Root], NoTree),
               PrepareFails(t)
        PROVE  IInv'
    <3>1. t \in [Paths -> S]
      BY <1>0, <2>1, CleanupsType
    <3> QED  BY <1>1, <2>0, <2>3, <3>1
  <2> QED  BY <1>3, <2>2, <2>3 DEF MakeEntry, p
<1>4. CASE BindManifest
  <2>1. CASE /\ ManifestReadable(tree)
             /\ manifest' = tree
             /\ pc' = "check"
             /\ UNCHANGED <<tree, opened, built, failure, ret>>
    <3>1. manifest' # NoTree
      BY <2>1 DEF ManifestReadable, NoTree, Absent, Paths
    <3> QED  BY <1>4, <2>1, <3>1 DEF BindManifest, ManifestReadable
  <2>2. ASSUME NEW t \in Cleanups(tree, opened[Root], NoTree), PrepareFails(t)
        PROVE  IInv'
    <3>1. t \in [Paths -> S]
      BY <1>0, CleanupsType
    <3> QED  BY <1>1, <1>4, <2>2, <3>1 DEF BindManifest
  <2> QED  BY <1>4, <2>1, <2>2 DEF BindManifest
<1> QED  BY <1>2, <1>3, <1>4

\* The directory goes after the lab is gone, and entirely or not as CLEANED.
LEMMA RemoveStep ==
  ASSUME IInv, RemoveArtifact, UNCHANGED interference
  PROVE  IInv'
<1> USE DEF IInv, TypeOK, CallInv, DestroyInv, DeployInv, FreshInv, OpenedInv, TreeInv, FailureInv,
            Minted, Return, States, Failures, Labs, Points, Returns
<1>1. PICK k \in RemovablePrefixes(tree, manifest[Root], manifest) :
        /\ tree' = WithoutFirst(tree, k)
        /\ IF k = Entries THEN state' = "CLEANED" /\ DownReturns("true", "none")
                          ELSE CleanupFails("LAB_ARTIFACT_CLEANUP_FAILED")
  BY DEF RemoveArtifact
<1>2. Absent \in Stamps /\ Absent <= interference + 1
  BY InterferenceAssumption DEF Stamps, Absent, Unsafe
<1>3. /\ tree' \in [Paths -> Stamps]
      /\ \A p \in Paths : tree'[p] \in {Absent, tree[p]}
      /\ k = Entries => \A p \in {Root} \cup Layout : tree'[p] = Absent
  BY <1>1, <1>2, PrefixesBounded, RemovalLeaves
<1>4. \A p \in Paths : tree'[p] <= interference + 1
  BY <1>2, <1>3
<1>5. CASE k = Entries
  <2>1. \A p \in {Root} \cup Layout : tree'[p] # manifest[p]
    BY <1>3, <1>5 DEF RemoveArtifact, Absent, Paths
  <2> QED  BY <1>1, <1>3, <1>4, <1>5, <2>1 DEF RemoveArtifact, DownReturns
<1>6. CASE k # Entries
  BY <1>1, <1>3, <1>4, <1>6 DEF RemoveArtifact, CleanupFails, DownReturns
<1> QED  BY <1>5, <1>6

\* Outside changes: a fresh stamp is in no manifest.
LEMMA EnvironmentSteps ==
  ASSUME IInv, Environment
  PROVE  IInv'
<1> USE DEF IInv, TypeOK, CallInv, DestroyInv, DeployInv, FreshInv, OpenedInv, TreeInv, FailureInv,
            Minted
<1>1. CASE Interfere
  <2> DEFINE fresh == interference + 2
  <2>0. /\ interference \in Nat /\ interference' = interference + 1
        /\ interference < MaxInterference /\ MaxInterference \in Nat
        /\ tree' \in AlteredTrees(tree, fresh)
        /\ UNCHANGED <<opened, built, manifest, state, failure, deployAttempted,
                       destroyAttempted, lab, pc, inUp, ret, seen, deploys, destroys, raised>>
    BY <1>1, InterferenceAssumption DEF Interfere
  <2>1. {Absent, Unsafe, fresh} \subseteq Stamps
    BY <2>0 DEF Absent, Unsafe, Stamps
  <2>2. /\ tree' \in [Paths -> Stamps]
        /\ \A p \in Paths : tree'[p] \in {Absent, Unsafe, fresh, tree[p]}
    BY <2>0, <2>1, AlteredLeaves
  <2>3. \A p \in Paths : tree'[p] <= interference' + 1 /\ manifest'[p] <= interference' + 1
    BY <2>0, <2>2 DEF Absent, Unsafe, Stamps
  <2>4. state = "CLEANED" => \A p \in {Root} \cup Layout : tree'[p] # manifest'[p]
    <3> SUFFICES ASSUME state = "CLEANED", NEW p \in {Root} \cup Layout
                 PROVE  tree'[p] # manifest[p]
      BY <2>0
    <3>1. manifest[p] > Absent /\ manifest[p] <= interference + 1 /\ manifest[p] \in Int
      BY DEF Paths, Stamps, Absent, Unsafe
    <3>2. tree'[p] \in {Absent, Unsafe, fresh, tree[p]} /\ tree[p] # manifest[p]
      BY <2>2 DEF Paths
    <3> QED  BY <2>0, <3>1, <3>2 DEF Absent, Unsafe
  <2> QED  BY <2>0, <2>2, <2>3, <2>4
<1>2. CASE LabDegrades
  BY <1>2 DEF LabDegrades, Labs
<1> QED  BY <1>1, <1>2 DEF Environment

LEMMA Inductive ==
  IInv /\ [Next]_vars => IInv'
<1> SUFFICES ASSUME IInv, [Next]_vars
             PROVE  IInv'
  OBVIOUS
<1>1. CASE CallUp /\ UNCHANGED interference
  BY <1>1, CallSteps
<1>2. CASE CallStatus /\ UNCHANGED interference
  BY <1>2, CallSteps
<1>3. CASE DownCalled /\ UNCHANGED interference
  BY <1>3, CallSteps
<1>4. CASE RunStep /\ UNCHANGED interference
  BY <1>4, CallSteps, CommandSteps, PrepareSteps, RemoveStep DEF RunStep
<1>5. CASE Environment
  BY <1>5, EnvironmentSteps
<1>6. CASE UNCHANGED vars
  BY <1>6 DEF vars, runVars, IInv, TypeOK, CallInv, DestroyInv, DeployInv, FreshInv, OpenedInv,
              TreeInv, FailureInv, Minted
<1> QED  BY <1>1, <1>2, <1>3, <1>4, <1>5, <1>6 DEF Next

LEMMA Initial ==
  Init => IInv
<1> SUFFICES ASSUME Init
             PROVE  IInv
  OBVIOUS
<1>1. MaxInterference \in Nat
  BY InterferenceAssumption
<1>2. NoTree \in [Paths -> Stamps] /\ \A p \in Paths : NoTree[p] = 0
  BY <1>1 DEF NoTree, Stamps, Absent, Unsafe
<1>3. [d \in {Root} \cup Dirs |-> Absent] \in [{Root} \cup Dirs -> Stamps]
  BY <1>1 DEF Stamps, Absent, Unsafe
<1>4. tree = NoTree /\ manifest = NoTree /\ interference = 0
  BY DEF Init, RunInit
<1>8. TypeOK
  <2>1. tree \in [Paths -> Stamps] /\ manifest \in [Paths -> Stamps]
    BY <1>2, <1>4
  <2>2. opened \in [{Root} \cup Dirs -> Stamps]
    BY <1>3 DEF Init, RunInit
  <2>3. built \in 0..Entries /\ deploys \in 0..2 /\ destroys \in 0..2 /\ interference \in 0..MaxInterference
    BY <1>1 DEF Init, RunInit, Entries
  <2>4. /\ state \in States /\ failure \in Failures /\ lab \in Labs /\ pc \in Points
        /\ ret \in Returns /\ seen \in SUBSET Dirs
    BY DEF Init, RunInit, States, Failures, Labs, Points, Returns
  <2>5. /\ deployAttempted \in BOOLEAN /\ destroyAttempted \in BOOLEAN
        /\ inUp \in BOOLEAN /\ raised \in BOOLEAN
    BY DEF Init, RunInit
  <2> QED  BY <2>1, <2>2, <2>3, <2>4, <2>5 DEF TypeOK
<1>5. CallInv /\ DestroyInv /\ DeployInv /\ OpenedInv
  BY <1>4 DEF Init, RunInit, CallInv, DestroyInv, DeployInv, OpenedInv, Minted
<1>6. FreshInv
  BY <1>2, <1>4 DEF FreshInv
<1>7. TreeInv /\ FailureInv
  BY <1>4 DEF Init, RunInit, TreeInv, FailureInv, Minted
<1> QED  BY <1>5, <1>6, <1>7, <1>8 DEF IInv
-----------------------------------------------------------------------------
(***************************************************************************)
(* Theorems                                                                *)
(***************************************************************************)
\* The strengthened invariant holds of every reachable state.
THEOREM Invariant == Spec => []IInv
<1>1. Init => IInv
  BY Initial
<1>2. IInv /\ [Next]_vars => IInv'
  BY Inductive
<1> QED  BY <1>1, <1>2, PTL DEF Spec

\* A run keeps its types, whatever the bound on outside changes.
THEOREM TypeCorrect == Spec => []TypeOK
<1>1. IInv => TypeOK
  BY DEF IInv
<1> QED  BY <1>1, Invariant, PTL

\* CLEANED: the lab is gone and so is everything the manifest bound.
THEOREM CleanedReleases == Spec => []CleanedMeansReleased
<1>1. IInv => CleanedMeansReleased
  BY DEF IInv, TreeInv, CleanedMeansReleased
<1> QED  BY <1>1, Invariant, PTL

\* At most one destroy command per run, for any order of calls, and at most
\* one deploy command unless a command raised.
THEOREM CommandsOnce == Spec => []CommandsAtMostOnce
<1>1. IInv => CommandsAtMostOnce
  BY DEF IInv, DestroyInv, DeployInv, CommandsAtMostOnce
<1> QED  BY <1>1, Invariant, PTL

\* No lab exists behind a state that denies it.
THEOREM LabShows == Spec => []NoSilentLab
<1>1. IInv => NoSilentLab
  BY DEF IInv, TypeOK, CallInv, DeployInv, TreeInv, NoSilentLab, States
<1> QED  BY <1>1, Invariant, PTL

\* A lab that cleanup could not destroy keeps its recovery command.
THEOREM LeakRecoverable == Spec => []LeakedLabIsRecoverable
<1>1. IInv => LeakedLabIsRecoverable
  BY DEF IInv, DestroyInv, TreeInv, LeakedLabIsRecoverable, RecoveryCommandAvailable,
         Intact, Minted
<1> QED  BY <1>1, Invariant, PTL

\* A failure that denies any resource mutation is right about the lab.
THEOREM NoMutationIsTrue == Spec => []NoMutationMeansNoLab
<1>1. IInv => NoMutationMeansNoLab
  BY DEF IInv, TypeOK, DestroyInv, FailureInv, NoMutationMeansNoLab, ResourceMutation
<1> QED  BY <1>1, Invariant, PTL

\* A removal by names takes nothing outside the layout, and takes nothing at
\* all from a directory other than the one it was asked for.
LEMMA CleanupStaysInside ==
  ASSUME NEW S, NEW t \in [Paths -> S], NEW r, NEW u \in Cleanups(t, r, NoTree),
         NEW p \in Paths, t[p] # Absent, u[p] = Absent
  PROVE  p \notin Strays /\ t[Root] = r
<1>1. PICK k \in RemovablePrefixes(t, r, NoTree) : u = WithoutFirst(t, k)
  BY DEF Cleanups
<1>2. p \notin Strays
  BY <1>1, PrefixesBounded, StraysStay
<1>3. k # 0
  BY <1>1, NothingRemoved
<1> QED  BY <1>1, <1>2, <1>3 DEF RemovablePrefixes, IncompletePrefixes

\* Every removal is vouched for: the invariant tells which directory the run
\* holds, each action the entries it may remove.
LEMMA StepsVouch ==
  ASSUME IInv, [Next]_vars
  PROVE  RemovalIsVouched
<1> SUFFICES ASSUME interference' = interference, NEW p \in Paths,
                    tree[p] # Absent, tree'[p] = Absent
             PROVE  IF Minted THEN tree = manifest
                              ELSE p \notin Strays /\ tree[Root] = opened[Root]
  BY DEF RemovalIsVouched
<1>0. /\ interference \in Nat
      /\ tree \in [Paths -> Stamps]
      /\ ~(tree' = tree)
  BY InterferenceAssumption DEF IInv, TypeOK
<1>1. CASE RemoveArtifact
  <2>1. PICK k \in RemovablePrefixes(tree, manifest[Root], manifest) : tree' = WithoutFirst(tree, k)
    BY <1>1 DEF RemoveArtifact
  <2>2. Minted
    BY <1>1 DEF RemoveArtifact, IInv, CallInv, DestroyInv
  <2>3. tree = manifest \/ k = 0
    BY <2>1, <2>2 DEF RemovablePrefixes, MintedPrefixes, Minted
  <2>4. k # 0
    BY <1>0, <2>1, NothingRemoved
  <2> QED  BY <2>2, <2>3, <2>4
<1>2. ASSUME NEW t \in [Paths -> Stamps], t[p] # Absent, NEW r, tree' \in Cleanups(t, r, NoTree)
      PROVE  p \notin Strays /\ t[Root] = r
  BY <1>2, CleanupStaysInside
<1>3. CASE MakeRoot
  <2> DEFINE made == [tree EXCEPT ![Root] = Own]
  <2>1. ~Minted /\ opened[Root] = Absent
    BY <1>3 DEF IInv, CallInv, OpenedInv, MakeRoot
  <2>2. made \in [Paths -> Stamps] /\ made[p] # Absent
    <3>1. \A x \in Paths : made[x] = IF x = Root THEN Own ELSE tree[x]
      BY <1>0
    <3>2. Own # Absent /\ Own \in Stamps
      BY OwnStamp DEF Own, Absent
    <3> QED  BY <1>0, <3>1, <3>2
  <2>3. tree[Root] = Absent /\ tree' \in {made} \cup Cleanups(made, Own, NoTree)
    BY <1>0, <1>3 DEF MakeRoot, PrepareFails
  <2>4. p \notin Strays
    BY <1>2, <2>2, <2>3
  <2> QED  BY <2>1, <2>3, <2>4
<1>4. CASE MakeEntry
  <2> DEFINE q == ConstructionOrder[built + 1]
  <2>1. ~Minted /\ built \in 1..5 /\ Absent \in Stamps
    BY <1>4, OwnStamp DEF IInv, CallInv, MakeEntry, Entries
  <2>2. q \in Paths /\ q # Root
    <3>1. built \in {1, 2, 3, 4, 5}
      BY <2>1
    <3>2. q \in Layout
      BY <3>1 DEF ConstructionOrder, Layout
    <3> QED  BY <3>2 DEF Layout, Paths, Root, Topology
  <2> HIDE DEF q
  <2>3. \A t \in {tree} \cup Placed(q) :
          t \in [Paths -> Stamps] /\ t[p] # Absent /\ t[Root] = tree[Root]
    <3>1. {Absent, Own} \subseteq Stamps /\ tree \in [Paths -> Stamps] /\ tree[p] # Absent
      BY <1>0, OwnStamp
    <3>2. \A t \in Placed(q) : t \in [Paths -> Stamps]
      BY <2>2, <3>1, PlacedLeaves
    <3>3. \A t \in Placed(q) : t[p] # Absent
      BY <2>2, <3>1, PlacedAdds
    <3>4. \A t \in Placed(q) : t[Root] = tree[Root]
      <4>1. Root \in Paths
        BY DEF Paths
      <4>2. \A t \in Placed(q) : t = tree \/ t = [tree EXCEPT ![q] = Own]
        BY DEF Placed, Visible
      <4> QED  BY <1>0, <2>2, <4>1, <4>2
    <3> QED  BY <3>1, <3>2, <3>3, <3>4
  <2>4. \E t \in {tree} \cup Placed(q) : tree' = t \/ tree' \in Cleanups(t, opened[Root], NoTree)
    BY <1>4 DEF MakeEntry, PrepareFails, q
  <2> QED  BY <1>2, <2>1, <2>3, <2>4
<1>5. CASE BindManifest
  <2>1. ~Minted
    BY <1>5 DEF IInv, CallInv, BindManifest
  <2>2. tree' \in Cleanups(tree, opened[Root], NoTree)
    BY <1>0, <1>5 DEF BindManifest, PrepareFails
  <2> QED  BY <1>0, <1>2, <2>1, <2>2
<1>6. CASE CallUp \/ CallStatus \/ DownCalled \/ UpCheck \/ DeployCommand \/ ProbeNode
           \/ DownAlreadyCleaned \/ DownRefused \/ DownCheck \/ DestroyCommand \/ LabDegrades
  BY <1>0, <1>6 DEF CallUp, UpRefused, UpAlreadyPrepared, UpPreflight, CallStatus, StatusRefused,
       StatusBegins, DownCalled, UpCheck, DeployCommand, ProbeNode, DownAlreadyCleaned,
       DownRefused, DownCheck, DestroyCommand, LabDegrades
<1>7. CASE Interfere
  BY <1>0, <1>7 DEF Interfere
<1>8. CASE UNCHANGED vars
  BY <1>0, <1>8 DEF vars, runVars
<1> QED  BY <1>1, <1>3, <1>4, <1>5, <1>6, <1>7, <1>8 DEF Next, RunStep, Environment

\* Nothing goes from a minted directory that is not wholly the manifest's, and
\* from an unminted one only names of the layout, in the directory the run holds.
THEOREM RemovalsAreVouched == Spec => RemovalsVouched
<1>1. IInv /\ [Next]_vars => [RemovalIsVouched]_vars
  BY StepsVouch
<1> QED  BY <1>1, Invariant, PTL DEF RemovalsVouched, Spec

-----------------------------------------------------------------------------
(***************************************************************************)
(* The command                                                             *)
(***************************************************************************)
\* The directory this run made is the one its manifest bound.
OwnInv == Minted /\ tree[Root] = Own => manifest[Root] = Own

\* Between two calls the run is idle, earlier iterations have left nothing,
\* and status 0 was given to a last iteration that ended CLEANED.
CommandInv ==
  /\ iteration \in Nat
  /\ cli \in {"up", "status", "finally", "record", "done"} => pc = "idle"
  /\ labsLeft = 0 /\ dirsLeft = 0
  /\ exit # "none" => cli = "done"
  /\ exit = "0" => iteration = Repeat /\ state = "CLEANED"

\* What a failed up() leaves: its own deploy failure when it cleaned up, and
\* otherwise nothing that a further down() would clean.
UpFailed ==
  /\ state = "CLEANED" => failure = "DEPLOY_FAILED"
  /\ state = "CLEANED" \/ ~deployAttempted \/ destroyAttempted

\* Where up() can stand, and what became of the run when it did not pass.
FailedInv ==
  /\ cli = "up" => state = "PREPARED" /\ ~Minted /\ ~deployAttempted /\ ~inUp
  /\ cli = "upped" =>
       /\ pc \in {"idle", "construct", "bind", "check", "deploy"} \/ inUp
       /\ pc \in {"construct", "bind", "check", "deploy"} => ~deployAttempted
       /\ pc = "idle" /\ ret # "true" => UpFailed
  /\ cli \in {"status", "statused"} => upOk
  /\ cli \in {"finally", "downed", "record", "done"} /\ ~upOk => UpFailed
  /\ cli = "downed" /\ ~upOk =>
       /\ pc \in {"down", "idle"}
       /\ pc = "idle" /\ state = "CLEANED" => ret = "true"
  /\ cli \in {"record", "done"} /\ ~upOk /\ state = "CLEANED" => downOk

SIInv == IInv /\ OwnInv /\ CommandInv /\ FailedInv

LEMMA InitSIInv == SmokeInit => SIInv
BY Initial DEF SmokeInit, SIInv, OwnInv, CommandInv, FailedInv, UpFailed, Init, RunInit, Minted

\* A step of the command is a step of the run, leaves the run alone, or puts a
\* new run in its place.
LEMMA CommandStepsRun ==
  ASSUME SmokeNext
  PROVE  [Next]_vars \/ CliNextIteration
BY DEF SmokeNext, CliStep, CliUp, CliStatus, CliDown, Call, CliUpEnds, CliStatusEnds, CliDownEnds,
   CliNothingToClean, CliEscapes, CliExits, OtherCalls, RunContinues, Outside, Done, smokeVars, Next

LEMMA FreshRunIInv ==
  ASSUME IInv, FreshRun, UNCHANGED interference
  PROVE  IInv' /\ OwnInv'
<1>1. interference \in 0..MaxInterference /\ {Absent, Own} \subseteq Stamps
  BY OwnStamp DEF IInv, TypeOK
<1>2. ~Minted'
  BY DEF FreshRun, Minted
<1>3. TypeOK'
  <2>1. /\ tree' \in [Paths -> Stamps] /\ manifest' \in [Paths -> Stamps]
        /\ opened' \in [{Root} \cup Dirs -> Stamps]
    BY <1>1 DEF FreshRun, NoTree
  <2>2. /\ deployAttempted' \in BOOLEAN /\ destroyAttempted' \in BOOLEAN /\ inUp' \in BOOLEAN
        /\ raised' \in BOOLEAN
    BY DEF FreshRun
  <2>3. built' \in 0..Entries /\ deploys' \in 0..2 /\ destroys' \in 0..2
    BY DEF FreshRun, Entries
  <2> QED
    BY <1>1, <2>1, <2>2, <2>3 DEF FreshRun, TypeOK, States, Failures, Labs, Points, Returns
<1>4. FreshInv'
  BY <1>1 DEF FreshRun, FreshInv, NoTree, Absent
<1>5. CallInv' /\ DestroyInv' /\ DeployInv' /\ OpenedInv' /\ TreeInv' /\ FailureInv'
  BY <1>2 DEF FreshRun, CallInv, DestroyInv, DeployInv, OpenedInv, TreeInv, FailureInv
<1> QED  BY <1>2, <1>3, <1>4, <1>5 DEF IInv, OwnInv

\* No step of the run puts this run's directory back where it was replaced.
LEMMA RunKeepsOwn ==
  ASSUME IInv, OwnInv, [Next]_vars
  PROVE  OwnInv'
<1> USE DEF OwnInv, Minted
<1>1. Root \in Paths /\ tree \in [Paths -> Stamps] /\ interference \in Nat
  BY InterferenceAssumption DEF IInv, TypeOK, Paths
<1>2. CASE MakeRoot \/ MakeEntry
  BY <1>2 DEF MakeRoot, MakeEntry, PrepareFails, IInv, CallInv
<1>3. CASE BindManifest
  BY <1>3 DEF BindManifest, PrepareFails
<1>4. CASE RemoveArtifact
  <2>1. PICK k \in RemovablePrefixes(tree, manifest[Root], manifest) : tree' = WithoutFirst(tree, k)
    BY <1>4 DEF RemoveArtifact
  <2>2. tree'[Root] \in {Absent, tree[Root]}
    BY <1>1, <2>1 DEF WithoutFirst
  <2> QED  BY <1>4, <2>2 DEF RemoveArtifact, Own, Absent
<1>5. CASE Interfere
  <2>1. PICK u \in AlteredTrees(tree, interference + 2) : tree' = u
    BY <1>5 DEF Interfere
  <2>2. u[Root] \in {Absent, Unsafe, interference + 2, tree[Root]}
    <3> DEFINE S == Stamps \cup {Absent, Unsafe, interference + 2}
    <3>1. tree \in [Paths -> S] /\ {Absent, Unsafe, interference + 2} \subseteq S
      BY <1>1
    <3> HIDE DEF S
    <3> QED  BY <1>1, <3>1, AlteredLeaves
  <2> QED  BY <1>1, <1>5, <2>1, <2>2 DEF Interfere, Own, Absent, Unsafe
<1>6. CASE UNCHANGED <<tree, manifest>>
  BY <1>6
<1> QED
  BY <1>2, <1>3, <1>4, <1>5, <1>6
  DEF Next, RunStep, Environment, CallUp, UpRefused, UpAlreadyPrepared, UpPreflight, CallStatus,
      StatusRefused, StatusBegins, DownCalled, UpCheck, DeployCommand, ProbeNode, DownAlreadyCleaned,
      DownRefused, DownCheck, DestroyCommand, LabDegrades, vars, runVars

LEMMA CommandKeepsRun ==
  ASSUME IInv, OwnInv, [SmokeNext]_smokeVars
  PROVE  IInv' /\ OwnInv'
<1>1. CASE CliNextIteration
  BY <1>1, FreshRunIInv DEF CliNextIteration
<1>2. CASE [Next]_vars
  BY <1>2, Inductive, RunKeepsOwn
<1> QED  BY <1>1, <1>2, CommandStepsRun DEF smokeVars

\* No method goes on while none is in progress.
LEMMA IdleRunStands ==
  ASSUME pc = "idle"
  PROVE  ~RunStep
BY DEF RunStep, MakeRoot, MakeEntry, BindManifest, UpCheck, DeployCommand, ProbeNode,
   DownAlreadyCleaned, DownRefused, DownCheck, DestroyCommand, RemoveArtifact

\* A CLEANED run has left neither a lab nor its directory.
LEMMA CleanedLeavesNothing ==
  ASSUME IInv, OwnInv, state = "CLEANED"
  PROVE  lab = "none" /\ tree[Root] # Own
<1>1. Minted  BY DEF IInv, DestroyInv
<1>2. lab = "none" /\ tree[Root] # manifest[Root]  BY DEF IInv, TreeInv
<1> QED  BY <1>1, <1>2 DEF OwnInv

LEMMA CommandKeepsOwn ==
  ASSUME SIInv, [SmokeNext]_smokeVars
  PROVE  CommandInv'
<1> USE DEF SIInv, CommandInv
<1>1. CASE CliUp \/ CliStatus \/ CliDown
  BY <1>1 DEF CliUp, CliStatus, CliDown, Call
<1>2. CASE CliUpEnds \/ CliStatusEnds \/ CliDownEnds \/ CliNothingToClean
  BY <1>2 DEF CliUpEnds, CliStatusEnds, CliDownEnds, CliNothingToClean, vars, runVars
<1>3. CASE CliEscapes
  BY <1>3 DEF CliEscapes, vars, runVars
<1>4. CASE CliExits
  BY <1>4 DEF CliExits, Clean, vars, runVars
<1>5. CASE CliNextIteration
  BY <1>5, CleanedLeavesNothing DEF CliNextIteration, FreshRun, Clean
<1>6. CASE OtherCalls
  BY <1>6 DEF OtherCalls, cliVars
<1>7. CASE RunContinues
  BY <1>7, IdleRunStands DEF RunContinues, cliVars
<1>8. CASE Outside
  BY <1>8 DEF Outside, Environment, Interfere, LabDegrades, cliVars
<1>9. CASE UNCHANGED smokeVars
  BY <1>9 DEF smokeVars, cliVars, vars, runVars
<1> QED
  BY <1>1, <1>2, <1>3, <1>4, <1>5, <1>6, <1>7, <1>8, <1>9 DEF SmokeNext, CliStep, Done

\* A failed up() keeps its failure through its own cleanup.
LEMMA UpKeepsFailure ==
  ASSUME SIInv, cli = "upped", RunContinues
  PROVE  FailedInv'
<1> USE DEF SIInv, FailedInv, UpFailed
<1>1. cli' = "upped" /\ upOk' = upOk /\ downOk' = downOk /\ pc # "idle"
  BY IdleRunStands DEF RunContinues, cliVars
<1>2. CASE MakeRoot \/ MakeEntry \/ BindManifest \/ UpCheck
  BY <1>1, <1>2 DEF MakeRoot, MakeEntry, BindManifest, UpCheck, PrepareFails, Return, IInv, CallInv
<1>3. CASE DeployCommand
  BY <1>1, <1>3 DEF DeployCommand, Return, Raise, IInv, CallInv
<1>4. CASE ProbeNode
  BY <1>1, <1>4 DEF ProbeNode, IInv, CallInv
<1>5. CASE DownAlreadyCleaned \/ DownRefused
  BY <1>1, <1>5 DEF DownAlreadyCleaned, DownRefused, DownReturns, Return, IInv, CallInv
<1>6. CASE DownCheck
  <2>1. inUp /\ destroyAttempted' = TRUE
    BY <1>6 DEF DownCheck
  <2>2. CASE pc' = "destroy" /\ UNCHANGED <<state, failure, inUp, ret>>
    BY <1>1, <2>1, <2>2
  <2>3. CASE CleanupFails("CLEANUP_FAILED")
    BY <1>1, <2>1, <2>3 DEF CleanupFails, DownReturns, Return
  <2> QED  BY <1>6, <2>2, <2>3 DEF DownCheck
<1>7. CASE DestroyCommand
  BY <1>1, <1>7 DEF DestroyCommand, CleanupFails, DownReturns, Return, Raise, IInv, CallInv
<1>8. CASE RemoveArtifact
  BY <1>1, <1>8 DEF RemoveArtifact, CleanupFails, DownReturns, Return, IInv, CallInv
<1> QED  BY <1>2, <1>3, <1>4, <1>5, <1>6, <1>7, <1>8 DEF RunContinues, RunStep

\* A second down(), after a failed up(), changes nothing.
LEMMA SecondDownChangesNothing ==
  ASSUME SIInv, cli = "downed", RunContinues
  PROVE  FailedInv'
<1> USE DEF SIInv, FailedInv, UpFailed
<1>1. cli' = "downed" /\ upOk' = upOk /\ downOk' = downOk /\ pc # "idle"
  BY IdleRunStands DEF RunContinues, cliVars
<1>2. CASE upOk
  BY <1>1, <1>2
<1>3. CASE ~upOk
  <2>1. pc = "down" BY <1>1, <1>3
  <2>2. DownAlreadyCleaned \/ DownRefused \/ DownCheck
    BY <2>1 DEF RunContinues, RunStep, MakeRoot, MakeEntry, BindManifest, UpCheck, DeployCommand,
       ProbeNode, DestroyCommand, RemoveArtifact
  <2>3. ~DownCheck BY <1>1, <1>3 DEF DownCheck
  <2>4. ~inUp => failure' = failure BY <2>2, <2>3 DEF DownAlreadyCleaned, DownRefused, DownReturns
  <2>5. inUp => state = "PREPARED" BY DEF IInv, CallInv
  <2> QED
    BY <1>1, <1>3, <2>2, <2>3, <2>4, <2>5 DEF DownAlreadyCleaned, DownRefused, DownReturns, Return
<1> QED  BY <1>2, <1>3

LEMMA CommandKeepsFailed ==
  ASSUME SIInv, [SmokeNext]_smokeVars
  PROVE  FailedInv'
<1> USE DEF SIInv, FailedInv, UpFailed
<1>1. CASE CliUp
  BY <1>1 DEF CliUp, Call, CallUp, UpRefused, UpAlreadyPrepared, UpPreflight, Return
<1>2. CASE CliUpEnds
  BY <1>2 DEF CliUpEnds, vars, runVars
<1>3. CASE CliStatus
  BY <1>3 DEF CliStatus, Call
<1>4. CASE CliStatusEnds
  BY <1>4 DEF CliStatusEnds, vars, runVars
<1>5. CASE CliDown
  BY <1>5 DEF CliDown, Call, DownCalled
<1>6. CASE CliDownEnds
  BY <1>6 DEF CliDownEnds, vars, runVars
<1>7. CASE CliNothingToClean
  BY <1>7 DEF CliNothingToClean, vars, runVars, IInv, DestroyInv
<1>8. CASE CliEscapes \/ CliExits
  BY <1>8 DEF CliEscapes, CliExits, vars, runVars
<1>9. CASE CliNextIteration
  BY <1>9 DEF CliNextIteration, FreshRun, Minted
<1>10. CASE OtherCalls
  BY <1>10 DEF OtherCalls, cliVars
<1>11. CASE RunContinues
  <2>1. CASE cli \in {"upped", "downed"}
    BY <1>11, <2>1, UpKeepsFailure, SecondDownChangesNothing
  <2>2. CASE cli = "statused"
    BY <1>11, <2>2 DEF RunContinues, cliVars
  <2>3. CASE cli \in {"up", "status", "finally", "record", "done"}
    BY <1>11, <2>3, IdleRunStands DEF RunContinues, CommandInv
  <2>4. CASE cli \notin {"up", "upped", "status", "statused", "finally", "downed", "record", "done"}
    BY <1>11, <2>4 DEF RunContinues, cliVars
  <2> QED  BY <2>1, <2>2, <2>3, <2>4
<1>12. CASE Outside
  BY <1>12 DEF Outside, Environment, Interfere, LabDegrades, cliVars, Minted
<1>13. CASE UNCHANGED smokeVars
  BY <1>13 DEF smokeVars, cliVars, vars, runVars, Minted
<1> QED
  BY <1>1, <1>2, <1>3, <1>4, <1>5, <1>6, <1>7, <1>8, <1>9, <1>10, <1>11, <1>12, <1>13
  DEF SmokeNext, CliStep, Done

THEOREM CommandInvariant == SmokeSpec => []SIInv
<1>1. SIInv /\ [SmokeNext]_smokeVars => SIInv'
  BY CommandKeepsRun, CommandKeepsOwn, CommandKeepsFailed DEF SIInv
<1> QED  BY <1>1, InitSIInv, PTL DEF SmokeSpec

\* What holds of one run under any caller holds of every run of the command:
\* the answers about lab, directory, commands and recovery are right.
RunPromises ==
  CleanedMeansReleased /\ CommandsAtMostOnce /\ NoSilentLab /\ LeakedLabIsRecoverable
    /\ NoMutationMeansNoLab

THEOREM CommandRunsKeepPromises == SmokeSpec => []RunPromises
<1>1. IInv => CleanedMeansReleased /\ CommandsAtMostOnce
  BY DEF IInv, TreeInv, DestroyInv, DeployInv, CleanedMeansReleased, CommandsAtMostOnce
<1>2. IInv => NoSilentLab
  BY DEF IInv, TypeOK, CallInv, DeployInv, TreeInv, NoSilentLab, States
<1>3. IInv => LeakedLabIsRecoverable
  BY DEF IInv, DestroyInv, TreeInv, LeakedLabIsRecoverable, RecoveryCommandAvailable, Intact, Minted
<1>4. IInv => NoMutationMeansNoLab
  BY DEF IInv, TypeOK, DestroyInv, FailureInv, NoMutationMeansNoLab, ResourceMutation
<1>5. SIInv => RunPromises
  BY <1>1, <1>2, <1>3, <1>4 DEF SIInv, RunPromises
<1> QED  BY <1>5, CommandInvariant, PTL

\* A second iteration of `lab frr-smoke clab-ebgp-v4' begins only when the first
\* has left neither lab nor directory.
THEOREM NoOverlap == SmokeSpec => []IterationsDoNotOverlap
<1>1. SIInv => IterationsDoNotOverlap
  BY DEF SIInv, CommandInv, IterationsDoNotOverlap
<1> QED  BY <1>1, CommandInvariant, PTL

\* Exit status 0 of the command is given only when every iteration ran and no
\* lab and no directory of any of them is left, whatever was changed outside.
THEOREM ExitZeroIsClean == SmokeSpec => []ExitZeroLeavesNothing
<1>1. SIInv => ExitZeroLeavesNothing
  BY CleanedLeavesNothing DEF SIInv, CommandInv, ExitZeroLeavesNothing
<1> QED  BY <1>1, CommandInvariant, PTL

\* A failed deploy stays the recorded failure through the cleanup of up() and the
\* second down() of the finally clause, which answers true.
THEOREM DeployFailureStays == SmokeSpec => []DeployFailureSurvivesCleanup
<1>1. SIInv => DeployFailureSurvivesCleanup
  <2>1. SIInv /\ exit = "1" => cli = "done"
    BY DEF SIInv, CommandInv
  <2> QED  BY <2>1 DEF SIInv, FailedInv, UpFailed, DeployFailureSurvivesCleanup
<1> QED  BY <1>1, CommandInvariant, PTL

\* Within an iteration the command removes an entry only as one run of it may.
THEOREM CommandRemovalsAreVouched == SmokeSpec => RunRemovalsVouched
<1>1. SIInv /\ [SmokeNext]_smokeVars => [iteration' = iteration => RemovalIsVouched]_smokeVars
  <2> SUFFICES ASSUME IInv, SmokeNext, iteration' = iteration, iteration \in Nat
               PROVE  RemovalIsVouched
    BY DEF SIInv, CommandInv
  <2>1. ~CliNextIteration  BY DEF CliNextIteration
  <2> QED  BY <2>1, CommandStepsRun, StepsVouch
<1> QED  BY <1>1, CommandInvariant, PTL DEF SmokeSpec, RunRemovalsVouched

-----------------------------------------------------------------------------
(***************************************************************************)
(* What the command leaves, and that it advances                           *)
(***************************************************************************)
CliPoints ==
  {"up", "upped", "status", "statused", "finally", "downed", "record", "done", "off"}

\* An exception out of a command is on its way to the caller, and a run that
\* deployed has not passed the finally clause without its down().
SettledInv ==
  /\ cli \in CliPoints
  /\ cli # "off" /\ raised =>
       escaping \/ (cli \in {"upped", "statused", "downed"} /\ pc = "idle" /\ ret = "raised")
  /\ state \in {"DEPLOYED", "VERIFIED"} /\ destroyAttempted =>
       pc \in {"destroy", "remove"} \/ raised
  /\ cli = "downed" =>
       /\ deployAttempted /\ pc \in {"idle", "down", "destroy", "remove"}
       /\ pc = "idle" => raised \/ state \notin {"DEPLOYED", "VERIFIED"}
  /\ cli \in {"record", "done"} => escaping \/ state \notin {"DEPLOYED", "VERIFIED"}
  /\ cli = "done" /\ escaping => exit = "exception"
  /\ cli \in {"up", "upped", "status", "statused"} => ~escaping

LEMMA CommandKeepsSettled ==
  ASSUME SIInv, SettledInv, [SmokeNext]_smokeVars
  PROVE  SettledInv'
<1> USE DEF SettledInv, CliPoints
<1>1. CASE CliUp
  BY <1>1 DEF CliUp, Call, CallUp, UpRefused, UpAlreadyPrepared, UpPreflight, Return
<1>2. CASE CliStatus
  BY <1>2 DEF CliStatus, Call, CallStatus, StatusRefused, StatusBegins, Return
<1>3. CASE CliDown
  BY <1>3 DEF CliDown, Call, DownCalled
<1>4. CASE CliUpEnds \/ CliStatusEnds \/ CliDownEnds
  <2>1. vars' = vars /\ pc = "idle" /\ exit' = exit
    BY <1>4 DEF CliUpEnds, CliStatusEnds, CliDownEnds
  <2>2. CASE CliUpEnds
    <3>1. cli = "upped" /\ cli' \in {"status", "finally"} /\ (cli' = "status" => ret = "true")
      BY <2>2 DEF CliUpEnds
    <3>2. escaping' <=> ret = "raised"  BY <2>2 DEF CliUpEnds
    <3> QED  BY <2>1, <3>1, <3>2 DEF vars, runVars
  <2>3. CASE CliStatusEnds
    <3>1. cli = "statused" /\ cli' = "finally"  BY <2>3 DEF CliStatusEnds
    <3>2. escaping' <=> ret = "raised"  BY <2>3 DEF CliStatusEnds
    <3> QED  BY <2>1, <3>1, <3>2 DEF vars, runVars
  <2>4. CASE CliDownEnds
    <3>1. cli = "downed" /\ cli' = "record"  BY <2>4 DEF CliDownEnds
    <3>2. escaping' <=> escaping \/ ret = "raised"  BY <2>4 DEF CliDownEnds
    <3> QED  BY <2>1, <3>1, <3>2 DEF vars, runVars
  <2> QED  BY <1>4, <2>2, <2>3, <2>4
<1>5. CASE CliNothingToClean
  BY <1>5 DEF CliNothingToClean, vars, runVars, SIInv, IInv, DestroyInv
<1>6. CASE CliEscapes \/ CliExits
  BY <1>6 DEF CliEscapes, CliExits, vars, runVars
<1>7. CASE CliNextIteration
  BY <1>7 DEF CliNextIteration, FreshRun
<1>8. CASE OtherCalls
  BY <1>8 DEF OtherCalls, cliVars, CallUp, UpRefused, UpAlreadyPrepared, UpPreflight, CallStatus,
     StatusRefused, StatusBegins, DownCalled
<1>9. CASE RunContinues
  <2>1. cli' = cli /\ escaping' = escaping /\ exit' = exit /\ pc # "idle"
    BY <1>9, IdleRunStands DEF RunContinues, cliVars
  <2>2. cli \in {"upped", "statused", "downed", "off"} BY <2>1 DEF SIInv, CommandInv
  <2>3. CASE MakeRoot \/ MakeEntry \/ BindManifest \/ UpCheck
    BY <2>1, <2>2, <2>3 DEF MakeRoot, MakeEntry, BindManifest, UpCheck, PrepareFails, Return,
       SIInv, IInv, CallInv
  <2>4. CASE DeployCommand
    BY <2>1, <2>2, <2>4 DEF DeployCommand, Return, Raise, SIInv, IInv, CallInv, DestroyInv, DeployInv
  <2>5. CASE ProbeNode
    <3>1. state = "DEPLOYED" /\ pc = "probe" /\ destroyAttempted' = destroyAttempted
      BY <2>5 DEF ProbeNode, SIInv, IInv, CallInv
    <3>2. cli # "downed" /\ cli # "record" /\ cli # "done"  BY <2>2, <3>1
    <3>3. (raised => raised') /\ (raised' => raised \/ (pc' = "idle" /\ ret' = "raised"))
      BY <2>5 DEF ProbeNode, Return, Raise
    <3> QED  BY <2>1, <2>2, <3>1, <3>2, <3>3
  <2>6. CASE DownAlreadyCleaned \/ DownRefused
    BY <2>1, <2>2, <2>6 DEF DownAlreadyCleaned, DownRefused, DownReturns, Return
  <2>7. CASE DownCheck
    BY <2>1, <2>2, <2>7 DEF DownCheck, CleanupFails, DownReturns, Return
  <2>8. CASE DestroyCommand
    BY <2>1, <2>2, <2>8 DEF DestroyCommand, CleanupFails, DownReturns, Return, Raise
  <2>9. CASE RemoveArtifact
    BY <2>1, <2>2, <2>9 DEF RemoveArtifact, CleanupFails, DownReturns, Return
  <2> QED  BY <1>9, <2>3, <2>4, <2>5, <2>6, <2>7, <2>8, <2>9 DEF RunContinues, RunStep
<1>10. CASE Outside
  BY <1>10 DEF Outside, Environment, Interfere, LabDegrades, cliVars
<1>11. CASE UNCHANGED smokeVars
  BY <1>11 DEF smokeVars, cliVars, vars, runVars
<1> QED
  BY <1>1, <1>2, <1>3, <1>4, <1>5, <1>6, <1>7, <1>8, <1>9, <1>10, <1>11
  DEF SmokeNext, CliStep, Done

LEMMA CommandSettled == SmokeSpec => []SettledInv
<1>1. SmokeInit => SettledInv
  BY DEF SmokeInit, Init, RunInit, SettledInv, CliPoints
<1>2. SIInv /\ SettledInv /\ [SmokeNext]_smokeVars => SettledInv'
  BY CommandKeepsSettled
<1> QED  BY <1>1, <1>2, CommandInvariant, PTL DEF SmokeSpec

\* When the command has ended, its last lab is gone, is owed by a run that says
\* CLEANUP_FAILED, or an exception told the caller.
SettledAtTheEnd ==
  cli = "done" => lab = "none" \/ state = "CLEANUP_FAILED" \/ exit = "exception"

\* The command never ends in silence over a lab: what LabIsSettled promises in the
\* end holds whenever the end is reached.
THEOREM EndIsSettled == SmokeSpec => []SettledAtTheEnd
<1>1. SIInv /\ SettledInv /\ RunPromises => SettledAtTheEnd
  <2> SUFFICES ASSUME SIInv, SettledInv, NoSilentLab, cli = "done", exit # "exception",
                      lab # "none"
               PROVE  state = "CLEANUP_FAILED"
    BY DEF SettledAtTheEnd, RunPromises
  <2>1. ~escaping /\ ~raised /\ state \notin {"DEPLOYED", "VERIFIED"} BY DEF SettledInv
  <2>2. pc = "idle" BY DEF SIInv, CommandInv
  <2> QED  BY <2>1, <2>2 DEF NoSilentLab
<1> QED  BY <1>1, CommandInvariant, CommandSettled, CommandRunsKeepPromises, PTL

\* The loop runs its body at most Repeat times.
IterationInv == iteration \in 1..Repeat

LEMMA IterationsBounded == SmokeSpec => []IterationInv
<1>1. SmokeInit => IterationInv
  BY RepeatAssumption DEF SmokeInit, IterationInv
<1>2. IterationInv /\ [SmokeNext]_smokeVars => IterationInv'
  <2> SUFFICES ASSUME IterationInv, [SmokeNext]_smokeVars
               PROVE  IterationInv'
    OBVIOUS
  <2>1. CASE CliNextIteration
    BY <2>1, RepeatAssumption DEF IterationInv, CliNextIteration
  <2>2. CASE ~CliNextIteration
    <3>1. iteration' = iteration
      BY <2>2 DEF SmokeNext, CliStep, OtherCalls, RunContinues, Outside, Done, Call, CliUp,
         CliUpEnds, CliStatus, CliStatusEnds, CliDown, CliDownEnds, CliNothingToClean,
         CliEscapes, CliExits, smokeVars, cliVars
    <3> QED  BY <3>1 DEF IterationInv
  <2> QED  BY <2>1, <2>2
<1> QED  BY <1>1, <1>2, PTL DEF SmokeSpec

\* How many steps a method in progress may still take, at most.
RunLeft ==
  CASE pc = "idle" -> 0
    [] pc = "probe" -> IF "n1" \in seen THEN 1 ELSE 2
    [] pc = "remove" -> 1
    [] pc = "destroy" -> 2
    [] pc = "down" -> 3
    [] pc = "deploy" -> 4
    [] pc = "check" -> 5
    [] pc = "bind" -> 6
    [] pc = "construct" -> 6 + (Entries - built)

\* The statements left, each with room for the method it calls.
CliLeft ==
  CASE cli = "up" -> 7 [] cli = "upped" -> 6 [] cli = "status" -> 5 [] cli = "statused" -> 4
    [] cli = "finally" -> 3 [] cli = "downed" -> 2 [] cli = "record" -> 1 [] cli = "done" -> 0

CommandLeft == 160 * (Repeat - iteration) + 20 * CliLeft + RunLeft

LEMMA RunLeftBounded ==
  ASSUME TypeOK
  PROVE  RunLeft \in 0..12
BY DEF TypeOK, RunLeft, Points, Entries

\* Every step of a method brings its end nearer, whatever the step decides.
LEMMA RunStepAdvances ==
  ASSUME TypeOK, RunStep
  PROVE  RunLeft' < RunLeft
<1> USE DEF RunLeft, Entries
<1>1. built \in 0..6 /\ seen \subseteq Dirs  BY DEF TypeOK
<1>2. CASE MakeRoot
  <2>1. pc = "construct" /\ built = 0 /\ (pc' = "idle" \/ (pc' = "construct" /\ built' = 1))
    BY <1>2 DEF MakeRoot, PrepareFails, Return
  <2> QED  BY <2>1
<1>3. CASE MakeEntry
  <2>1. /\ pc = "construct" /\ built \in 1..5
        /\ pc' = "idle" \/ (pc' \in {"bind", "construct"} /\ built' = built + 1)
    BY <1>3 DEF MakeEntry, PrepareFails, Return
  <2> QED  BY <2>1
<1>4. CASE BindManifest
  <2>1. pc = "bind" /\ pc' \in {"idle", "check"}
    BY <1>4 DEF BindManifest, PrepareFails, Return
  <2> QED  BY <2>1
<1>5. CASE UpCheck
  <2>1. pc = "check" /\ pc' \in {"idle", "deploy"}  BY <1>5 DEF UpCheck, Return
  <2> QED  BY <2>1
<1>6. CASE DeployCommand
  <2>1. pc = "deploy" /\ pc' \in {"idle", "down"}  BY <1>6 DEF DeployCommand, Return, Raise
  <2> QED  BY <2>1
<1>7. CASE ProbeNode
  <2>1. pc = "probe" /\ (pc' = "idle" \/ (pc' = "probe" /\ "n1" \notin seen /\ "n1" \in seen'))
    BY <1>7 DEF ProbeNode, NextNode, Return, Raise
  <2> QED  BY <2>1
<1>8. CASE DownAlreadyCleaned \/ DownRefused
  <2>1. pc = "down" /\ pc' = "idle"
    BY <1>8 DEF DownAlreadyCleaned, DownRefused, DownReturns, Return
  <2> QED  BY <2>1
<1>9. CASE DownCheck
  <2>1. pc = "down" /\ pc' \in {"idle", "destroy"}
    BY <1>9 DEF DownCheck, CleanupFails, DownReturns, Return
  <2> QED  BY <2>1
<1>10. CASE DestroyCommand
  <2>1. pc = "destroy" /\ pc' \in {"idle", "remove"}
    BY <1>10 DEF DestroyCommand, CleanupFails, DownReturns, Return, Raise
  <2> QED  BY <2>1
<1>11. CASE RemoveArtifact
  <2>1. pc = "remove" /\ pc' = "idle"
    BY <1>11 DEF RemoveArtifact, CleanupFails, DownReturns, Return
  <2> QED  BY <2>1
<1> QED
  BY <1>2, <1>3, <1>4, <1>5, <1>6, <1>7, <1>8, <1>9, <1>10, <1>11 DEF RunStep

\* The command spends a natural number: each of its steps and each step of the
\* method it waits for takes some of it, and nothing that happens outside gives
\* any back.
CommandAdvances ==
  /\ cli # "off" /\ (CliStep \/ RunContinues) => CommandLeft' \in Nat /\ CommandLeft' < CommandLeft
  /\ Outside => CommandLeft' = CommandLeft

LEMMA StepsAdvanceCommand ==
  ASSUME SIInv, SIInv', SettledInv, SettledInv', IterationInv, IterationInv',
         cli # "off", CliStep \/ RunContinues
  PROVE  CommandLeft' \in Nat /\ CommandLeft' < CommandLeft
<1>1. RunLeft \in 0..12 /\ RunLeft' \in 0..12
  <2>1. RunLeft \in 0..12  BY RunLeftBounded DEF SIInv, IInv
  <2>2. built' \in 0..6 /\ pc' \in Points  BY DEF SIInv, IInv, TypeOK, Entries
  <2>3. RunLeft' \in 0..12  BY <2>2 DEF RunLeft, Points, Entries
  <2> QED  BY <2>1, <2>3
<1>2. iteration \in 1..Repeat /\ iteration' \in 1..Repeat
  BY DEF IterationInv
<1>3. cli' # "off" /\ CliLeft \in 0..7 /\ CliLeft' \in 0..7
  <2>1. cli' # "off"
    BY DEF CliStep, Call, CliUp, CliUpEnds, CliStatus, CliStatusEnds, CliDown, CliDownEnds,
       CliNothingToClean, CliEscapes, CliExits, CliNextIteration, RunContinues, cliVars
  <2> QED  BY <2>1 DEF CliLeft, SettledInv, CliPoints
<1>4. /\ CommandLeft' \in Nat
      /\ \/ iteration < iteration'
         \/ iteration = iteration' /\ CliLeft' < CliLeft
         \/ iteration = iteration' /\ CliLeft' = CliLeft /\ RunLeft' < RunLeft
         => CommandLeft' < CommandLeft
  <2> DEFINE i == iteration
             j == iteration'
             c == CliLeft
             d == CliLeft'
             a == RunLeft
             b == RunLeft'
             after == 160 * (Repeat - j) + 20 * d + b
             before == 160 * (Repeat - i) + 20 * c + a
  <2>1. CommandLeft = before /\ CommandLeft' = after  BY DEF CommandLeft
  <2>2. /\ i \in 1..Repeat /\ j \in 1..Repeat /\ c \in 0..7 /\ d \in 0..7
        /\ a \in 0..12 /\ b \in 0..12
    BY <1>1, <1>2, <1>3
  <2> HIDE DEF i, j, c, d, a, b
  \* Less of the run, an earlier statement and any run, or the next iteration: each
  \* weighs more than what comes after it can give back.
  <2>3. /\ after \in Nat
        /\ i < j \/ (i = j /\ d < c) \/ (i = j /\ d = c /\ b < a) => after < before
    BY <2>2, RepeatAssumption
  <2> HIDE DEF after, before
  <2> QED  BY <2>1, <2>3 DEF i, j, c, d, a, b
<1>5. CASE RunContinues
  <2>1. RunLeft' < RunLeft  BY <1>5, RunStepAdvances DEF RunContinues, SIInv, IInv
  <2>2. cli' = cli /\ iteration' = iteration  BY <1>5 DEF RunContinues, cliVars
  <2>3. CliLeft' = CliLeft  BY <2>2 DEF CliLeft
  <2> QED  BY <1>4, <2>1, <2>2, <2>3
<1>6. CASE CliNextIteration
  <2>1. iteration' = iteration + 1  BY <1>6 DEF CliNextIteration
  <2>2. iteration < iteration'  BY <1>2, <2>1, RepeatAssumption
  <2> QED  BY <1>4, <2>2
<1>7. CASE CliStep /\ ~CliNextIteration
  <2>1. /\ iteration' = iteration
        /\ \/ cli = "up" /\ cli' = "upped"
           \/ cli = "upped" /\ cli' \in {"status", "finally"}
           \/ cli = "status" /\ cli' = "statused"
           \/ cli = "statused" /\ cli' = "finally"
           \/ cli = "finally" /\ cli' \in {"downed", "record"}
           \/ cli = "downed" /\ cli' = "record"
           \/ cli = "record" /\ cli' = "done"
    BY <1>7 DEF CliStep, Call, CliUp, CliUpEnds, CliStatus, CliStatusEnds, CliDown, CliDownEnds,
       CliNothingToClean, CliEscapes, CliExits
  <2>2. CliLeft' < CliLeft  BY <2>1 DEF CliLeft
  <2> QED  BY <1>4, <2>1, <2>2
<1> QED  BY <1>4, <1>5, <1>6, <1>7

\* What needs no fairness of the promise that the command ends: it cannot go on
\* for ever, whichever way its calls go and whatever is changed under it.
THEOREM CommandCannotRunForever == SmokeSpec => [][CommandAdvances]_smokeVars
<1>1. ASSUME SIInv, SIInv', SettledInv, SettledInv', IterationInv, IterationInv',
             [SmokeNext]_smokeVars
      PROVE  [CommandAdvances]_smokeVars
  <2>1. ASSUME Outside
        PROVE  CommandLeft' = CommandLeft
    <3>1. UNCHANGED <<pc, seen, built, cli, iteration>>
      BY <2>1 DEF Outside, Environment, Interfere, LabDegrades, cliVars
    <3> QED  BY <3>1 DEF CommandLeft, RunLeft, CliLeft
  <2> QED  BY <1>1, <2>1, StepsAdvanceCommand DEF CommandAdvances
<1> QED  BY <1>1, CommandInvariant, CommandSettled, IterationsBounded, PTL DEF SmokeSpec
=============================================================================
