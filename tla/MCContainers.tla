---------------------------- MODULE MCContainers -----------------------------
(* Small instances of Containers for TLC. *)
EXTENDS Containers, TLC

CONSTANTS v, w, h1, h2, h3, n1, n2, n3, n4, n5, x, y

TwoVectors   == {v, w}
ThreeHandles == {h1, h2, h3}
FiveNodes    == {n1, n2, n3, n4, n5}
TwoData      == {x, y}

\* No call depends on what is in the cells of a block that are not in use: states
\* that differ only in them are one.
UsedCells == <<size, capacity, dtor, [n \in Names |-> Resized(block[n], size[n])],
               owned, moved, alive, overrun, part, list>>

AnyName == Permutations(ThreeHandles) \union Permutations(TwoVectors)
             \union Permutations(FiveNodes)
=============================================================================
