------------------------ MODULE MCBatfishComparison -------------------------
(* Two queries and one result of every kind that the comparison tells apart. *)
EXTENDS BatfishComparison

R(status, answer, reason) == [status |-> status, answer |-> answer, reason |-> reason]

MCResults ==
  {R("PASS", "a1", FALSE), R("PASS", "a2", FALSE), R("FAIL", "a1", FALSE), R("FAIL", "a1", TRUE),
   R("PASS", Null, FALSE), R("UNKNOWN", "a1", TRUE), R("ERROR", Null, TRUE), R("ERROR", "a1", FALSE)}
=============================================================================
