----------------------------- MODULE Capability -----------------------------
(***************************************************************************)
(* Capability assessments and the gate over them.  An application keeps a  *)
(* tuple of assessments, begins new ones, advances them with evidence and  *)
(* asks whether the requirements of a test pack are met.  Assessments are  *)
(* immutable: advancing one replaces its entry.                            *)
(***************************************************************************)
EXTENDS Naturals, Sequences, FiniteSets

CONSTANTS
  Identity,        \* capability identities (vendor, platform, version, feature)
  Clause,          \* clause ids
  MaxAssessments,  \* bound on the length of the tuple
  MaxRequirements  \* bound on the number of requirements

ASSUME BoundAssumption == MaxAssessments \in Nat /\ MaxRequirements \in Nat

Progression == <<"UNKNOWN", "DOCUMENTED", "EXPOSED", "ACCEPTED", "REALIZED", "CONFORMANT">>
Progressive == {"UNKNOWN", "DOCUMENTED", "EXPOSED", "ACCEPTED", "REALIZED", "CONFORMANT"}
States == Progressive \cup {"UNSUPPORTED"}
Rank(s) == CHOOSE i \in 1..6 : Progression[i] = s

Kinds == {"DOCUMENTATION", "EXPOSURE", "ACCEPTANCE", "REALIZATION", "CONFORMANCE", "UNSUPPORTED"}
Origins == {"FIXTURE", "DOCUMENTATION", "READ_ONLY_PROBE", "ACCEPTANCE_TEST", "OBSERVATION",
            "CONFORMANCE_TEST", "AUTHORITATIVE"}

\* _REQUIRED_EVIDENCE
Required ==
  [DOCUMENTED  |-> <<"DOCUMENTATION", "DOCUMENTATION">>,
   EXPOSED     |-> <<"EXPOSURE", "READ_ONLY_PROBE">>,
   ACCEPTED    |-> <<"ACCEPTANCE", "ACCEPTANCE_TEST">>,
   REALIZED    |-> <<"REALIZATION", "OBSERVATION">>,
   CONFORMANT  |-> <<"CONFORMANCE", "CONFORMANCE_TEST">>,
   UNSUPPORTED |-> <<"UNSUPPORTED", "AUTHORITATIVE">>]

\* The evidence a CapabilityEvidence can hold.
Evidence ==
  {e \in [identity : Identity, clause : Clause, kind : Kinds, origin : Origins, authority : BOOLEAN] :
     /\ e.origin # "FIXTURE"
     /\ e.authority <=> e.origin = "AUTHORITATIVE" \/ e.kind \in {"CONFORMANCE", "UNSUPPORTED"}}

\* A CapabilityAssessment: the kind and origin of its evidence follow from its
\* state, and the evidence is about the same identity and clause.
Assessment == [identity : Identity, clause : Clause, state : States]
Requirement == [identity : Identity, clause : Clause, minimum : Progressive]

VARIABLES
  book,        \* the tuple of assessments
  accepted,    \* for each entry, the evidence accepted for it so far
  begun,       \* for each entry, the state it was constructed with
  requires     \* the requirements of the test pack

vars == <<book, accepted, begun, requires>>

\* A test pack names at most one requirement for a clause.
Init ==
  /\ book = << >> /\ accepted = << >> /\ begun = << >>
  /\ \E D \in SUBSET Clause : \E f \in [D -> Requirement] :
       Cardinality(D) <= MaxRequirements /\ requires = {f[c] : c \in D}
  /\ \A p, q \in requires : p.clause = q.clause => p = q

\* Constructing an assessment: UNKNOWN, or any other state with its evidence.
Construct(i, c, s) ==
  /\ Len(book) < MaxAssessments
  /\ book' = Append(book, [identity |-> i, clause |-> c, state |-> s])
  /\ accepted' = Append(accepted, << >>)
  /\ begun' = Append(begun, s)
  /\ UNCHANGED requires

(***************************************************************************)
(* assess_capability()                                                     *)
(***************************************************************************)
Attests(e, prior, target) ==
  /\ e.identity = prior.identity /\ e.clause = prior.clause
  /\ <<e.kind, e.origin>> = Required[target]

\* Deviation: evidence may carry an assessment over several states.
LegalSkip(prior, target) ==
  /\ prior.state \notin {"UNSUPPORTED", "CONFORMANT"} /\ target # "UNKNOWN"
  /\ target = "UNSUPPORTED" \/ Rank(target) > Rank(prior.state)

Legal(prior, target) ==
  /\ prior.state \notin {"UNSUPPORTED", "CONFORMANT"}
  /\ target = "UNSUPPORTED" \/ target = Progression[Rank(prior.state) + 1]

Assess(n, target) ==
  /\ Legal(book[n], target)
  /\ \E e \in Evidence :
       /\ Attests(e, book[n], target)
       /\ accepted' = [accepted EXCEPT ![n] = Append(@, <<e.kind, e.origin>>)]
  /\ book' = [book EXCEPT ![n].state = target]
  /\ UNCHANGED <<begun, requires>>

Next ==
  \/ \E i \in Identity, c \in Clause, s \in States : Construct(i, c, s)
  \/ \E n \in DOMAIN book, target \in States : Assess(n, target)

Spec == Init /\ [][Next]_vars

(***************************************************************************)
(* capabilities_satisfy()                                                  *)
(***************************************************************************)
\* Deviation: a state meets only a requirement of that very state.
MeetsExactly(a, r) ==
  /\ a.identity = r.identity
  /\ a.state \notin {"UNKNOWN", "UNSUPPORTED"}
  /\ a.state = r.minimum

Meets(a, r) ==
  /\ a.identity = r.identity
  /\ a.state \notin {"UNKNOWN", "UNSUPPORTED"}
  /\ Rank(a.state) >= Rank(r.minimum)

\* The dict built from the tuple: of the assessments of one clause, the last.
ByClause(assessments) ==
  [c \in {assessments[n].clause : n \in DOMAIN assessments} |->
     assessments[CHOOSE n \in DOMAIN assessments :
       /\ assessments[n].clause = c
       /\ \A m \in DOMAIN assessments : assessments[m].clause = c => m <= n]]

\* The duplicate check comes first; without it the dict would let the order of
\* the tuple decide.
Satisfied(assessments) ==
  /\ \A m, n \in DOMAIN assessments : assessments[m].clause = assessments[n].clause => m = n
  /\ \A r \in requires :
       /\ r.clause \in DOMAIN ByClause(assessments)
       /\ Meets(ByClause(assessments)[r.clause], r)
-----------------------------------------------------------------------------
\* Every variable keeps its type.
TypeOK ==
  /\ book \in Seq(Assessment)
  /\ DOMAIN accepted = DOMAIN book /\ DOMAIN begun = DOMAIN book
  /\ \A n \in DOMAIN book : accepted[n] \in Seq(Kinds \X Origins) /\ begun[n] \in States
  /\ requires \subseteq Requirement

\* However long the sequence of legal calls, an assessment has met every state
\* between the one it was constructed with and its own, each with the evidence
\* that state requires and in that order, and UNSUPPORTED only at the end.
ChainIsComplete ==
  \A n \in DOMAIN book :
    LET first == Rank(begun[n])
        chain == accepted[n]
        climbed == IF book[n].state = "UNSUPPORTED" /\ begun[n] # "UNSUPPORTED"
                   THEN Len(chain) - 1 ELSE Len(chain)
    IN  /\ \A k \in 1..climbed : chain[k] = Required[Progression[first + k]]
        /\ book[n].state \in Progressive => Rank(book[n].state) = first + Len(chain)
        /\ climbed < Len(chain) => chain[Len(chain)] = Required["UNSUPPORTED"]

\* A gate that was passed stays passed while evidence comes in, unless some
\* assessment turned out UNSUPPORTED; only a further assessment of a clause
\* already assessed can close it otherwise.
GateStays ==
  [][Satisfied(book) /\ ~Satisfied(book') =>
       \/ \E n \in DOMAIN book : book[n].state # "UNSUPPORTED" /\ book'[n].state = "UNSUPPORTED"
       \/ \E n \in DOMAIN book : Len(book') > Len(book) /\ book[n].clause = book'[Len(book')].clause]_vars
=============================================================================
