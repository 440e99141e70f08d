----------------------------- MODULE MCDelivery -----------------------------
(* Instances of Delivery for TLC. *)
EXTENDS Delivery, TLC

CONSTANTS u1, x1, p1

\* The first asset of a drop is text, the second a photo.
TextThenPhoto == Drops \X {2}

OneUser == [d \in Deliveries |-> u1]
OneDrop == [d \in Deliveries |-> x1]
OneReplica == [d \in Deliveries |-> p1]
=============================================================================
