-------------------------- MODULE CreateOnlyStore --------------------------
(***************************************************************************)
(* What the evidence store promises: a bundle is put in place once and is  *)
(* never replaced; a call that reported success put it there itself; only  *)
(* a loss of power takes a bundle away again, and then only one that no    *)
(* successful call stands for - unless the store itself is still fragile,  *)
(* created by one of the calls and never yet through a loss of power.      *)
(***************************************************************************)
CONSTANTS Writer, Bundle, Nobody

VARIABLES
  holder,     \* who put a bundle in place
  answer,     \* how a call ended
  fragile     \* the store itself may vanish with the power

vars == <<holder, answer, fragile>>

Init ==
  /\ holder = [b \in Bundle |-> Nobody]
  /\ answer = [w \in Writer |-> "none"]
  /\ fragile = FALSE

Found ==
  /\ fragile' = TRUE
  /\ UNCHANGED <<holder, answer>>

Place(w, b) ==
  /\ answer[w] = "none" /\ holder[b] = Nobody
  /\ holder' = [holder EXCEPT ![b] = w]
  /\ UNCHANGED <<answer, fragile>>

Succeed(w) ==
  /\ answer[w] = "none" /\ \E b \in Bundle : holder[b] = w
  /\ answer' = [answer EXCEPT ![w] = "stored"]
  /\ UNCHANGED <<holder, fragile>>

Fail(w) ==
  /\ answer[w] = "none"
  /\ answer' = [answer EXCEPT ![w] = "failed"]
  /\ UNCHANGED <<holder, fragile>>

PowerLoss ==
  /\ \/ /\ \A b \in Bundle : holder'[b] \in {holder[b], Nobody}
        /\ \A b \in Bundle : \A w \in Writer :
             holder[b] = w /\ answer[w] = "stored" => holder'[b] = w
     \/ fragile /\ \A b \in Bundle : holder'[b] = Nobody
  /\ DOMAIN holder' = Bundle
  /\ fragile' = FALSE
  /\ UNCHANGED answer

Next ==
  \/ Found \/ PowerLoss
  \/ \E w \in Writer : Succeed(w) \/ Fail(w) \/ \E b \in Bundle : Place(w, b)

Spec == Init /\ [][Next]_vars
=============================================================================
