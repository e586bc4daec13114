-------------------------- MODULE MCUniPinGateway ---------------------------
(* Small instances of UniPinGateway for TLC: what the messages hold. *)
EXTENDS UniPinGateway, TLC

CONSTANTS m1, m2

(* A message of any kind, and one of another kind behind it in the queue   *)
(* that keeps the consumer busy.                                           *)
OneOfEach == {m1 :> k @@ m2 :> "junk" : k \in {"voucher", "game", "flawed"}}

MCInit == Init /\ kind \in OneOfEach
MCSpec == MCInit /\ [][Next]_vars /\ Fairness
=============================================================================
