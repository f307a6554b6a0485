--------------------------- MODULE MCBundleStore ---------------------------
EXTENDS BundleStore

CONSTANTS w1, w2, w3, b1, b2

MCWriter == {w1, w2, w3}
MCBundle == {b1, b2}

\* w2 is a concurrent call or a rerun for the bundle of w1.
MCBundleOf == [w \in MCWriter |-> IF w = w3 THEN b2 ELSE b1]
=============================================================================
