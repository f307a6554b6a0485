------------------------ MODULE EvidenceBundleProofs ------------------------
(***************************************************************************)
(* Theorems about EvidenceBundle, for any checks, axes, captures and       *)
(* requirements and payloads of any size.                                  *)
(***************************************************************************)
EXTENDS EvidenceBundle, TLAPS

-----------------------------------------------------------------------------
(***************************************************************************)
(* What the absence of findings means                                      *)
(***************************************************************************)
\* The chain of evidence CompleteMeansLinked asks for, part by part.
Supports(req, c) ==
  /\ c \in DOMAIN req.checks /\ req.checks[c].applicable
  /\ c \in DOMAIN records /\ records[c].result = "PASS"
  /\ c \in DOMAIN observations /\ observations[c].result = "PASS"

ClauseLinked(req, cl) ==
  /\ cl.refs # {} /\ cl.refs \subseteq captures
  /\ \A k \in cl.refs : \E c \in cl.checks : Supports(req, c) /\ k \in observations[c].refs

\* A clause that names no finding is linked.
LEMMA NoClauseFinding ==
  ASSUME NEW req, NEW cl, ClauseFindings(req, cl) = {}
  PROVE  ClauseLinked(req, cl)
<1> DEFINE passing == Passing(req, cl)
           refs == UNION {observations[c].refs : c \in passing}
<1>1. passing # {} /\ LinkFindings(refs, cl) = {}
  BY DEF ClauseFindings
<1>2. /\ refs \cup cl.refs \subseteq captures /\ cl.refs # {}
      /\ cl.refs \subseteq captures => cl.refs \subseteq refs
  <2> HIDE DEF refs
  <2> QED BY <1>1 DEF LinkFindings
<1>3. ASSUME NEW k \in cl.refs
      PROVE  \E c \in cl.checks : Supports(req, c) /\ k \in observations[c].refs
  <2>1. PICK c \in passing : k \in observations[c].refs BY <1>2
  <2>2. c \in cl.checks /\ Supports(req, c)
    BY DEF Passing, Applicable, RecordPasses, Supports
  <2> QED BY <2>1, <2>2
<1> QED BY <1>2, <1>3 DEF ClauseLinked

\* An axis without a finding is claimed, covered and linked.
LEMMA NoAxisFinding ==
  ASSUME NEW req, NEW a, AxisFindings(req, a) = {}
  PROVE  /\ a \in given.axes
         /\ \E cl \in clauses : cl.axis = a
         /\ \A cl \in clauses : cl.axis = a => ClauseLinked(req, cl)
<1>1. a \in given.axes BY DEF AxisFindings
<1>2. \E cl \in clauses : cl.axis = a BY DEF AxisFindings
<1>3. \A cl \in {x \in clauses : x.axis = a} : ClauseFindings(req, cl) = {}
  BY DEF AxisFindings
<1> QED BY <1>1, <1>2, <1>3, NoClauseFinding

\* An applicable check without a finding passed.
LEMMA NoCheckFinding ==
  ASSUME NEW req, CheckFindings(req) = {}, NEW c \in Applicable(req)
  PROVE  RecordPasses(c)
<1>1. CheckFinding(req, c) = "none" BY DEF CheckFindings
<1> QED BY <1>1 DEF CheckFinding

LEMMA NoFinding ==
  ASSUME NEW req, Findings(req) = {}
  PROVE  /\ req = requirements
         /\ \A c \in DOMAIN req.checks : req.checks[c].applicable => RecordPasses(c)
         /\ given.images /\ given.components /\ (req.provenance => given.provenance)
         /\ \A a \in req.axes :
              /\ a \in given.axes
              /\ \E cl \in clauses : cl.axis = a
              /\ \A cl \in clauses : cl.axis = a => ClauseLinked(req, cl)
<1>1. req = requirements BY DEF Findings
<1>2. /\ CheckFindings(req) = {} /\ ProvenanceFindings(req) = {}
      /\ \A a \in req.axes : AxisFindings(req, a) = {}
  BY <1>1 DEF Findings
<1>3. given.images /\ given.components /\ (req.provenance => given.provenance)
  BY <1>2 DEF ProvenanceFindings
<1>4. \A c \in DOMAIN req.checks : req.checks[c].applicable => RecordPasses(c)
  BY <1>2, NoCheckFinding DEF Applicable
<1> QED BY <1>1, <1>2, <1>3, <1>4, NoAxisFinding

\* The findings depend on the records of applicable checks only, and on the
\* observations that passed.
LEMMA FindingsSame ==
  ASSUME NEW req, UNCHANGED <<requirements, captures, clauses, given>>,
         \A c \in Applicable(req) :
           /\ c \in DOMAIN records' <=> c \in DOMAIN records
           /\ c \in DOMAIN records => records'[c] = records[c],
         \A c : (c \in DOMAIN observations' /\ observations'[c].result = "PASS")
                  <=> (c \in DOMAIN observations /\ observations[c].result = "PASS"),
         \A c \in DOMAIN observations : observations'[c] = observations[c]
  PROVE  Findings(req)' = Findings(req)
<1>1. Applicable(req)' = Applicable(req) BY DEF Applicable
<1>2. \A c \in Applicable(req) : RecordPasses(c)' <=> RecordPasses(c) BY DEF RecordPasses
<1>3. CheckFindings(req)' = CheckFindings(req)
  <2>1. \A c \in Applicable(req) : CheckFinding(req, c)' = CheckFinding(req, c)
    BY <1>2 DEF CheckFinding
  <2> QED BY <1>1, <2>1 DEF CheckFindings
<1>4. ProvenanceFindings(req)' = ProvenanceFindings(req)
  BY DEF ProvenanceFindings
<1>5. ASSUME NEW cl PROVE ClauseFindings(req, cl)' = ClauseFindings(req, cl)
  <2>1. Passing(req, cl)' = Passing(req, cl) BY <1>1, <1>2 DEF Passing
  <2>2. {observations'[c].refs : c \in Passing(req, cl)} = {observations[c].refs : c \in Passing(req, cl)}
    BY DEF Passing
  <2> QED BY <2>1, <2>2 DEF ClauseFindings, LinkFindings
<1>6. \A a : AxisFindings(req, a)' = AxisFindings(req, a)
  BY <1>5 DEF AxisFindings
<1> QED BY <1>3, <1>4, <1>6 DEF Findings

-----------------------------------------------------------------------------
(***************************************************************************)
(* The answer is about the bundle that was frozen                          *)
(***************************************************************************)
AnswerInv ==
  stage = "verified" => \E req : presented = <<req>> /\ findings = Findings(req)

LEMMA StepKeepsAnswer ==
  ASSUME AnswerInv, [Next]_vars
  PROVE  AnswerInv'
<1>1. CASE Record \/ Observe \/ Repeat \/ TakeCapture \/ CoverClause
  BY <1>1 DEF AnswerInv, Record, Observe, Repeat, TakeCapture, CoverClause, Collecting, Collected
<1>2. CASE Create
  BY <1>2 DEF AnswerInv, Create
<1>3. CASE Verify
  <2>1. PICK req \in Requirements : presented' = <<req>> /\ findings' = Findings(req)
    BY <1>3 DEF Verify
  <2>2. Findings(req)' = Findings(req)
    BY <1>3, FindingsSame DEF Verify, payload
  <2> QED BY <2>1, <2>2 DEF AnswerInv
<1>4. CASE UNCHANGED vars
  <2>1. \A req : Findings(req)' = Findings(req)
    BY <1>4, FindingsSame DEF vars, payload
  <2> QED BY <1>4, <2>1 DEF AnswerInv, vars
<1> QED BY <1>1, <1>2, <1>3, <1>4 DEF Next

\* A bundle in which structurally_complete() finds nothing missing carries an
\* unbroken chain from every required axis to captures and passed checks.
THEOREM CompleteLinked == Spec => []CompleteMeansLinked
<1>1. Init => AnswerInv BY DEF Init, AnswerInv
<1>2. AnswerInv /\ [Next]_vars => AnswerInv' BY StepKeepsAnswer
<1>3. AnswerInv => CompleteMeansLinked
  <2> SUFFICES ASSUME AnswerInv, stage = "verified", findings = {}
               PROVE  CompleteMeansLinked
    BY DEF CompleteMeansLinked
  <2>1. PICK req : presented = <<req>> /\ Findings(req) = {} BY DEF AnswerInv
  <2>2. presented[1] = req BY <2>1
  <2> QED BY <2>1, <2>2, NoFinding DEF CompleteMeansLinked, ClauseLinked, Supports
<1> QED BY <1>1, <1>2, <1>3, PTL DEF Spec

-----------------------------------------------------------------------------
(***************************************************************************)
(* Evidence that did not pass                                              *)
(***************************************************************************)
LEMMA NonPassStep ==
  ASSUME Next, stage' = "collecting", captures' = captures, clauses' = clauses,
         \A c \in DOMAIN records' \ DOMAIN records : records'[c].result # "PASS",
         \A c \in DOMAIN observations' \ DOMAIN observations : observations'[c].result # "PASS",
         Findings(requirements) # {}
  PROVE  Findings(requirements)' # {}
<1>1. requirements' = requirements /\ given' = given
  BY DEF Next, Record, Observe, Repeat, TakeCapture, CoverClause, Create, Verify, Collected
<1>2. CASE Record
  <2>1. PICK c \in Check \ DOMAIN records, p \in Phases, r \in Outcomes :
               records' = With(records, c, [phase |-> p, result |-> r])
    BY <1>2 DEF Record
  <2>2. /\ DOMAIN records' = DOMAIN records \cup {c}
        /\ records'[c] = [phase |-> p, result |-> r]
        /\ \A d \in DOMAIN records : records'[d] = records[d]
    BY <2>1 DEF With
  <2>3. observations' = observations BY <1>2 DEF Record
  <2>4. CASE c \in Applicable(requirements)
    <3>1. records'[c].result # "PASS" BY <2>1, <2>2
    <3>2. CheckFinding(requirements, c)' # "none"
      BY <1>1, <3>1 DEF CheckFinding, RecordPasses
    <3>3. c \in Applicable(requirements)' BY <1>1, <2>4 DEF Applicable
    <3>4. CheckFindings(requirements)' # {} BY <3>2, <3>3 DEF CheckFindings
    <3> QED BY <3>4 DEF Findings
  <2>5. CASE c \notin Applicable(requirements)
    <3>1. \A d \in Applicable(requirements) :
            /\ d \in DOMAIN records' <=> d \in DOMAIN records
            /\ d \in DOMAIN records => records'[d] = records[d]
      BY <2>2, <2>5
    <3>2. Findings(requirements)' = Findings(requirements)
      <4>1. ASSUME NEW req, req = requirements PROVE Findings(req)' = Findings(req)
        BY <1>1, <2>3, <3>1, <4>1, FindingsSame
      <4> QED BY <1>1, <4>1
    <3> QED BY <3>2
  <2> QED BY <2>4, <2>5
<1>3. CASE Observe
  <2>1. PICK c \in Check \ DOMAIN observations, r \in Outcomes, refs \in SUBSET Capture :
               observations' = With(observations, c, [result |-> r, refs |-> refs])
    BY <1>3 DEF Observe
  <2>2. /\ DOMAIN observations' = DOMAIN observations \cup {c}
        /\ \A d \in DOMAIN observations : observations'[d] = observations[d]
        /\ observations'[c].result # "PASS"
    BY <2>1 DEF With
  <2>3. records' = records BY <1>3 DEF Observe
  <2>4. ASSUME NEW req, req = requirements PROVE Findings(req)' = Findings(req)
    BY <1>1, <2>1, <2>2, <2>3, FindingsSame
  <2> QED BY <1>1, <2>4
<1>4. CASE Repeat \/ TakeCapture \/ CoverClause
  <2>1. UNCHANGED <<records, observations>> BY <1>4 DEF Repeat, TakeCapture, CoverClause
  <2>2. ASSUME NEW req, req = requirements PROVE Findings(req)' = Findings(req)
    BY <1>1, <2>1, FindingsSame
  <2> QED BY <1>1, <2>2
<1>5. ~Create /\ ~Verify BY DEF Create, Verify
<1> QED BY <1>2, <1>3, <1>4, <1>5 DEF Next

\* While a producer collects evidence, a record or an observation with another
\* result than PASS never removes the last thing structurally_complete() misses.
THEOREM NonPassCompletesNothing == Spec => NonPassNeverCompletes
<1> DEFINE NonPass ==
             /\ stage = "collecting" /\ stage' = "collecting"
             /\ captures' = captures /\ clauses' = clauses
             /\ \A c \in DOMAIN records' \ DOMAIN records : records'[c].result # "PASS"
             /\ \A c \in DOMAIN observations' \ DOMAIN observations : observations'[c].result # "PASS"
             /\ Findings(requirements) # {}
             => Findings(requirements)' # {}
<1>1. [Next]_vars => [NonPass]_vars BY NonPassStep
<1> QED BY <1>1, PTL DEF Spec, NonPassNeverCompletes
=============================================================================
