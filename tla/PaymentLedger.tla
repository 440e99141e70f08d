--------------------------- MODULE PaymentLedger ---------------------------
(***************************************************************************)
(* What the payment component promises about money, with no transactions,  *)
(* requests, sweeps or crashes in sight.  An attempt is opened once,       *)
(* charged at most once, and ends either paid, which hands its buyer       *)
(* exactly one entitlement nobody else's attempt already bought, or        *)
(* failed.  A failed attempt may still become paid: the money of a late    *)
(* confirmation is honoured, never dropped.  A paid attempt never changes. *)
(* Payments is shown to implement this module.                             *)
(***************************************************************************)
CONSTANTS Attempts,      \* one per idempotency key
          Entitlements   \* what an attempt can buy: a (user, drop) pair

VARIABLES status,   \* status of each attempt
          charged,  \* the attempts whose money was taken
          owned     \* the entitlements handed out so far

vars == <<status, charged, owned>>

Init ==
  /\ status = [a \in Attempts |-> "none"]
  /\ charged = {}
  /\ owned = {}

Open(a) ==
  /\ status[a] = "none"
  /\ status' = [status EXCEPT ![a] = "pending"]
  /\ UNCHANGED <<charged, owned>>

Charge(a) ==
  /\ status[a] \in {"pending", "failed"}
  /\ a \notin charged
  /\ charged' = charged \union {a}
  /\ UNCHANGED <<status, owned>>

Pay(a, e) ==
  /\ status[a] \in {"pending", "failed"}
  /\ a \in charged
  /\ e \notin owned
  /\ status' = [status EXCEPT ![a] = "succeeded"]
  /\ owned' = owned \union {e}
  /\ UNCHANGED charged

\* Several attempts may be given up at once, as one sweep does.
GiveUp(S) ==
  /\ \A a \in S : status[a] \in {"pending", "failed"}
  /\ status' = [a \in Attempts |-> IF a \in S THEN "failed" ELSE status[a]]
  /\ UNCHANGED <<charged, owned>>

Next ==
  \/ \E a \in Attempts : Open(a) \/ Charge(a)
  \/ \E a \in Attempts, e \in Entitlements : Pay(a, e)
  \/ \E S \in SUBSET Attempts : GiveUp(S)

Spec == Init /\ [][Next]_vars
=============================================================================
