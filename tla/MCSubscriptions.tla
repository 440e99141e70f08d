-------------------------- MODULE MCSubscriptions --------------------------
(* Instances of Subscriptions for TLC. *)
EXTENDS Subscriptions, TLC

CONSTANTS k1, k2, k3, m1, m2, p1, p2

\* Every key from one member's client.
OneOwner == [k \in Keys |-> m1]

\* Two keys of one member, one of another.
TwoOwners == k1 :> m1 @@ k2 :> m1 @@ k3 :> m2

\* Two plans of one creator, the second twice as long.
OneAndTwo == p1 :> 1 @@ p2 :> 2
OnlyOne == p1 :> 1

\* Calls, and sweepers, are interchangeable; keys are when one member has all.
Symmetry == Permutations(Requests) \union Permutations(Sweeps)
SymmetryOfKeys == Symmetry \union Permutations(Keys)
=============================================================================
