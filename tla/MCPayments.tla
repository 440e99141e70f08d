----------------------------- MODULE MCPayments -----------------------------
(* The instance of Payments for TLC. *)
EXTENDS Payments, TLC

CONSTANTS k1, k2, u1

\* Both keys from one user's client.
OneOwner == k1 :> u1 @@ k2 :> u1
=============================================================================
