--------------------------- MODULE EvidenceBundle ---------------------------
(***************************************************************************)
(* An evidence bundle: a producer collects records, observations, captures *)
(* and clause coverage in any order, create() validates and freezes them   *)
(* under the requirements, and structurally_complete() names the missing   *)
(* links of the frozen bundle, for the requirements a verifier presents.   *)
(***************************************************************************)
EXTENDS Naturals, FiniteSets, Functions

CONSTANTS
  Check,           \* check ids
  Axis,            \* coverage axes
  Capture,         \* captures, by their digest
  Requirements,    \* requirements a bundle may be made for
  Givens,          \* what comes with a payload besides its links
  MaxItems         \* bound on the entries of a payload

ASSUME ItemsAssumption == MaxItems \in Nat

\* Requirements: a phase and an applicability for each required check, the
\* required axes, and whether a provenance clause is required.  Given: the
\* axes claimed as covered, whether the provenance clause, an image and a
\* component are there.
Phases == {"semantic", "target"}
Outcomes == {"PASS", "other"}

VARIABLES
  requirements,    \* EvidenceRequirements of the bundle
  records,         \* check id -> phase and result
  observations,    \* check id -> result and the captures it refers to
  captures,
  clauses,         \* the ClauseCoverage entries
  given,
  repeated,        \* an id occurs twice among the records or the observations
  stage,           \* "collecting", "created", "rejected", "verified"
  presented,       \* requirements handed to structurally_complete, in a tuple
  findings         \* its answer

payload == <<requirements, records, observations, captures, clauses, given, repeated>>
vars == <<payload, stage, presented, findings>>

Init ==
  /\ requirements \in Requirements /\ given \in Givens
  /\ records = <<>> /\ observations = <<>> /\ captures = {} /\ clauses = {}
  /\ repeated = FALSE
  /\ stage = "collecting" /\ presented = <<>> /\ findings = {}

(***************************************************************************)
(* The producer                                                            *)
(***************************************************************************)
Items == Cardinality(DOMAIN records) + Cardinality(DOMAIN observations)
           + Cardinality(captures) + Cardinality(clauses)

\* Ids are unique, a recorded check is a required one, in its phase.
BindsRequirements ==
  /\ ~repeated
  /\ \A c \in DOMAIN records :
       c \in DOMAIN requirements.checks /\ records[c].phase = requirements.checks[c].phase

\* A payload that can only be rejected is not continued.
Collecting == stage = "collecting" /\ Items < MaxItems /\ BindsRequirements
Collected == UNCHANGED <<requirements, given, stage, presented, findings>>

With(f, c, x) == [d \in DOMAIN f \cup {c} |-> IF d = c THEN x ELSE f[d]]

Record ==
  /\ Collecting
  /\ \E c \in Check \ DOMAIN records, p \in Phases, r \in Outcomes :
       records' = With(records, c, [phase |-> p, result |-> r])
  /\ UNCHANGED <<observations, captures, clauses, repeated>> /\ Collected

Observe ==
  /\ Collecting
  /\ \E c \in Check \ DOMAIN observations, r \in Outcomes, refs \in SUBSET Capture :
       observations' = With(observations, c, [result |-> r, refs |-> refs])
  /\ UNCHANGED <<records, captures, clauses, repeated>> /\ Collected

Repeat ==
  /\ Collecting /\ DOMAIN records \cup DOMAIN observations # {}
  /\ repeated' = TRUE
  /\ UNCHANGED <<records, observations, captures, clauses>> /\ Collected

TakeCapture ==
  /\ Collecting
  /\ \E k \in Capture \ captures : captures' = captures \cup {k}
  /\ UNCHANGED <<records, observations, clauses, repeated>> /\ Collected

CoverClause ==
  /\ Collecting
  /\ \E a \in Axis, cs \in SUBSET Check, refs \in SUBSET Capture :
       clauses' = clauses \cup {[axis |-> a, checks |-> cs, refs |-> refs]}
  /\ UNCHANGED <<records, observations, captures, repeated>> /\ Collected

\* EvidenceBundle.create
Create ==
  /\ stage = "collecting"
  /\ stage' = IF BindsRequirements THEN "created" ELSE "rejected"
  /\ UNCHANGED <<payload, presented, findings>>

(***************************************************************************)
(* EvidenceBundle.structurally_complete                                    *)
(***************************************************************************)
Applicable(req) == {c \in DOMAIN req.checks : req.checks[c].applicable}

RecordPasses(c) == c \in DOMAIN records /\ records[c].result = "PASS"

\* Deviation: an observation that did not pass counts.
PassingWhateverObserved(req, clause) ==
  {c \in clause.checks : c \in DOMAIN observations /\ c \in Applicable(req) /\ RecordPasses(c)}

\* The checks a clause is linked to through an observation that passed.
Passing(req, clause) ==
  {c \in clause.checks : /\ c \in DOMAIN observations /\ observations[c].result = "PASS"
                         /\ c \in Applicable(req) /\ RecordPasses(c)}

CheckFinding(req, c) ==
  IF c \notin DOMAIN records THEN "missing_check_result"
  ELSE IF records[c].phase # req.checks[c].phase THEN "check_phase_mismatch"
  ELSE IF ~RecordPasses(c) THEN "check_result_not_pass"
  ELSE "none"

CheckFindings(req) ==
  {<<CheckFinding(req, c), c>> : c \in {d \in Applicable(req) : CheckFinding(req, d) # "none"}}

ProvenanceFindings(req) ==
  {f \in {<<"missing_image_provenance", "">>} : ~given.images}
    \cup {f \in {<<"missing_component_provenance", "">>} : ~given.components}
    \cup {f \in {<<"missing_provenance_clause", "">>} : req.provenance /\ ~given.provenance}

\* Deviation: a capture reference is taken for a capture.
LinkFindingsUnresolved(refs, clause) ==
  {f \in {<<"missing_capture_link", clause.axis>>} :
     clause.refs = {} \/ ~(clause.refs \subseteq refs)}

LinkFindings(refs, clause) ==
  {f \in {<<"unknown_capture_reference", clause.axis>>} : ~(refs \cup clause.refs \subseteq captures)}
    \cup {f \in {<<"missing_capture_link", clause.axis>>} :
            \/ clause.refs = {}
            \/ clause.refs \subseteq captures /\ ~(clause.refs \subseteq refs)}

ClauseFindings(req, clause) ==
  LET passing == Passing(req, clause) IN
  IF passing = {} THEN {<<"missing_passing_observation", clause.axis>>}
  ELSE LinkFindings(UNION {observations[c].refs : c \in passing}, clause)

AxisFindings(req, a) ==
  LET onAxis == {cl \in clauses : cl.axis = a} IN
  {f \in {<<"missing_coverage_axis", a>>} : a \notin given.axes}
    \cup {f \in {<<"missing_clause_coverage", a>>} : onAxis = {}}
    \cup UNION {ClauseFindings(req, cl) : cl \in onAxis}

Findings(req) ==
  IF req # requirements THEN {<<"requirements_hash_mismatch", "">>}
  ELSE CheckFindings(req) \cup ProvenanceFindings(req)
         \cup UNION {AxisFindings(req, a) : a \in req.axes}

Verify ==
  /\ stage = "created"
  /\ \E req \in Requirements : presented' = <<req>> /\ findings' = Findings(req)
  /\ stage' = "verified"
  /\ UNCHANGED payload

Next == Record \/ Observe \/ Repeat \/ TakeCapture \/ CoverClause \/ Create \/ Verify

Spec == Init /\ [][Next]_vars
-----------------------------------------------------------------------------
\* A bundle without findings carries an unbroken chain: every applicable
\* check passed, every required axis is claimed and covered, and every clause
\* on it cites captures that are in the bundle, each of them cited by the
\* passing observation of an applicable check that itself passed.  Evidence
\* about a check that does not apply, or that failed, supports nothing.
CompleteMeansLinked ==
  stage = "verified" /\ findings = {} =>
    LET req == presented[1]
        supports(c) == /\ c \in DOMAIN req.checks /\ req.checks[c].applicable
                       /\ c \in DOMAIN records /\ records[c].result = "PASS"
                       /\ c \in DOMAIN observations /\ observations[c].result = "PASS"
    IN
    /\ req = requirements
    /\ \A c \in DOMAIN req.checks : req.checks[c].applicable => RecordPasses(c)
    /\ given.images /\ given.components
    /\ req.provenance => given.provenance
    /\ \A a \in req.axes :
         /\ a \in given.axes
         /\ \E cl \in clauses : cl.axis = a
         /\ \A cl \in clauses : cl.axis = a =>
              /\ cl.refs # {} /\ cl.refs \subseteq captures
              /\ \A k \in cl.refs : \E c \in cl.checks : supports(c) /\ k \in observations[c].refs

\* Evidence that did not pass never completes a bundle: while the producer
\* collects, a record or an observation with another result than PASS does
\* not remove the last finding.
NonPassNeverCompletes ==
  [][/\ stage = "collecting" /\ stage' = "collecting"
     /\ captures' = captures /\ clauses' = clauses
     /\ \A c \in DOMAIN records' \ DOMAIN records : records'[c].result # "PASS"
     /\ \A c \in DOMAIN observations' \ DOMAIN observations : observations'[c].result # "PASS"
     /\ Findings(requirements) # {}
     => Findings(requirements)' # {}]_vars
=============================================================================
