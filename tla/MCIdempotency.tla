--------------------------- MODULE MCIdempotency ---------------------------
(* Idempotency for TLC: two requests with one body and a third with another. *)
EXTENDS Idempotency, TLC

CONSTANTS q1, q2, q3

Bodies == q1 :> "a" @@ q2 :> "a" @@ q3 :> "b"
=============================================================================
