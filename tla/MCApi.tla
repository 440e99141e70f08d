------------------------------- MODULE MCApi -------------------------------
(* Instances of Api for TLC. *)
EXTENDS Api, TLC

CONSTANTS f1, f2

\* f1 is a plain name; f2 leads from any drop to the f1 of FirstDrop.
Paths == Creators \X Drops \X Files
PathOf == [p \in Paths |-> IF p[3] = f2 THEN <<Founder, FirstDrop, f1>> ELSE p]

\* Calls are interchangeable, and so are positions, and creators and names nobody
\* has at first.
Symmetry ==
  Permutations(Calls) \union Permutations(Slugs) \union Permutations(Positions)
    \union Permutations(Creators \ {Founder})
=============================================================================
