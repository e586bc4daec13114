------------------------------ MODULE MCPayment ------------------------------
(* Small instances of Payment for TLC: who sends what. *)
EXTENDS Payment, TLC

CONSTANTS r1, r2, r3, f1, f2, i1, i2

(* r1 and r2 share a ref_id, r2 and r3 an inquiry. *)
ChainRef     == r1 :> f1 @@ r2 :> f1 @@ r3 :> f2
ChainInquiry == r1 :> i1 @@ r2 :> i2 @@ r3 :> i2
OneFlawed    == r1 :> "data" @@ r2 :> "none" @@ r3 :> "none"

(* Only r2 and r3, with ref_ids of their own. *)
PairRef     == r2 :> f1 @@ r3 :> f2
PairInquiry == r2 :> i2 @@ r3 :> i2
PairSound   == r2 :> "none" @@ r3 :> "none"
=============================================================================
