-------------------------- MODULE MCEvidenceBundle --------------------------
(* Two checks of which the second applies, does not apply, or is not        *)
(* required; one axis; two captures; payloads of up to MaxItems entries.    *)
EXTENDS EvidenceBundle, TLC

CONSTANTS c1, c2, a1, k1, k2

MCCheck == {c1, c2}
MCAxis == {a1}
MCCapture == {k1, k2}
Symmetry == Permutations(MCCapture)

Checks(second) ==
  (c1 :> [phase |-> "semantic", applicable |-> TRUE])
    @@ (IF second = "none" THEN <<>>
        ELSE c2 :> [phase |-> "target", applicable |-> second = "applies"])

Require(second) == [checks |-> Checks(second), axes |-> {a1}, provenance |-> TRUE]

MCRequirements == {Require("applies"), Require("does not apply"), Require("none")}

Full == [axes |-> {a1}, images |-> TRUE, components |-> TRUE, provenance |-> TRUE]

MCGivens == {Full, [Full EXCEPT !.axes = {}, !.provenance = FALSE]}
=============================================================================
