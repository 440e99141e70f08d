------------------------------- MODULE MCBot -------------------------------
(* Instances of Bot for TLC: two updates of one user and one of another. *)
EXTENDS Bot, TLC

CONSTANTS u1, u2, x1, x2, x3, s0, s1

MCFrom == x1 :> u1 @@ x2 :> u1 @@ x3 :> u2

\* A link, then a command or another link of the one user; a command of the other.
MCScripts ==
  {x1 :> [name |-> "start", slug |-> s1] @@ x2 :> [name |-> "follow"] @@ x3 :> [name |-> "unfollow"],
   x1 :> [name |-> "start", slug |-> s1] @@ x2 :> [name |-> "start", slug |-> s0]
     @@ x3 :> [name |-> "browse"]}

Symmetry == Permutations(Replicas) \union Permutations(Creators)
=============================================================================
