-------------------------------- MODULE Vector --------------------------------
(***************************************************************************)
(* uga_vector: a block of `capacity' elements of which `size' are in use,  *)
(* and perhaps a destructor for them.  Elements are resources a client     *)
(* hands over: one pushed into a vector that was created with a destructor *)
(* belongs to it, and stays alive until the destructor is called on it.    *)
(*                                                                         *)
(* One step is one call; allocation succeeds.  A call that reads or writes *)
(* outside the block is noted in `overrun' and is the last one: after it   *)
(* the program has no defined behaviour.                                   *)
(***************************************************************************)
EXTENDS Integers, Sequences, FiniteSets

CONSTANTS Names,      \* the vectors of the client
          Handles,    \* the elements
          Garbage,    \* content of a cell nothing was written to, or zeroed
          MaxCap      \* bound: capacity

ASSUME VectorConstants ==
  /\ IsFiniteSet(Names) /\ IsFiniteSet(Handles) /\ Garbage \notin Handles
  /\ MaxCap \in Nat \ {0}

VARIABLES size, capacity, dtor,
          block,     \* the cells of each vector's data; its length is the capacity
          owned,     \* history: the client created the content with a destructor
          moved,     \* history: uga_vec_move brought that content from another vector
          alive,     \* owned elements not destructed yet
          overrun    \* history: a call left its block

vars == <<size, capacity, dtor, block, owned, moved, alive, overrun>>

Zero == [v \in Names |-> 0]
No   == [v \in Names |-> FALSE]

Init ==
  /\ size = Zero /\ capacity = Zero /\ dtor = No /\ block = [v \in Names |-> <<>>]
  /\ owned = No /\ moved = No /\ alive = {} /\ overrun = FALSE

InUse(v) == {block[v][k] : k \in 1 .. size[v]}

\* realloc keeps the cells there is room for.
Resized(cells, n) == [k \in 1 .. n |-> IF k <= Len(cells) THEN cells[k] ELSE Garbage]

Fresh == {h \in Handles : h \notin alive /\ \A v \in Names : h \notin InUse(v)}

\* v holds no element; assigning to it loses none.
Unused(v) == capacity[v] = 0

\* uga_vec_create_0, _1 and _2, assigned to v.
Create(v, n, withDtor) ==
  /\ Unused(v)
  /\ size' = [size EXCEPT ![v] = 0]
  /\ capacity' = [capacity EXCEPT ![v] = n]
  /\ block' = [block EXCEPT ![v] = Resized(<<>>, n)]
  /\ dtor' = [dtor EXCEPT ![v] = withDtor]
  /\ owned' = [owned EXCEPT ![v] = withDtor]
  /\ moved' = [moved EXCEPT ![v] = FALSE]
  /\ UNCHANGED <<alive, overrun>>

Reserve(v, n) ==
  /\ n > capacity[v]
  /\ capacity' = [capacity EXCEPT ![v] = n]
  /\ block' = [block EXCEPT ![v] = Resized(@, n)]
  /\ UNCHANGED <<size, dtor, owned, moved, alive, overrun>>

\* Mutant: the shrunk vector is a new one, without destructor.
ShrinkToFitForgets(v) ==
  /\ size[v] < capacity[v]
  /\ capacity' = [capacity EXCEPT ![v] = size[v]]
  /\ block' = [block EXCEPT ![v] = Resized(@, size[v])]
  /\ dtor' = [dtor EXCEPT ![v] = FALSE]
  /\ UNCHANGED <<size, owned, moved, alive, overrun>>

ShrinkToFit(v) ==
  /\ size[v] < capacity[v]
  /\ capacity' = [capacity EXCEPT ![v] = size[v]]
  /\ block' = [block EXCEPT ![v] = Resized(@, size[v])]
  /\ UNCHANGED <<size, dtor, owned, moved, alive, overrun>>

\* Mutant: the vector grows one push too late.
GrownLate(v) ==
  IF capacity[v] - size[v] < 0
  THEN capacity[v] * 2
  ELSE capacity[v]

\* The capacity a push makes sure of: an empty vector grows too.
Grown(v) ==
  IF size[v] = 0 \/ capacity[v] - size[v] < 1
  THEN IF capacity[v] = 0 THEN 1 ELSE capacity[v] * 2
  ELSE capacity[v]

PushBack(v, h) ==
  /\ Grown(v) <= MaxCap
  /\ capacity' = [capacity EXCEPT ![v] = Grown(v)]
  /\ block' = [block EXCEPT ![v] = [k \in 1 .. Grown(v) |->
                 IF k = size[v] + 1 THEN h ELSE Resized(@, Grown(v))[k]]]
  /\ overrun' = (overrun \/ size[v] >= Grown(v))
  /\ size' = [size EXCEPT ![v] = @ + 1]
  /\ alive' = IF owned[v] THEN alive \union {h} ELSE alive
  /\ UNCHANGED <<dtor, owned, moved>>

Destruct(v, elements) == alive' = IF dtor[v] THEN alive \ elements ELSE alive

\* The last element takes the place of the one erased.
Erase(v, index) ==
  /\ index \in 0 .. size[v] - 1
  /\ Destruct(v, {block[v][index + 1]})
  /\ block' = [block EXCEPT ![v][index + 1] = block[v][size[v]]]
  /\ size' = [size EXCEPT ![v] = @ - 1]
  /\ UNCHANGED <<capacity, dtor, owned, moved, overrun>>

\* memmove of size - index + 1 elements from index + 1 to index, two more than
\* there are behind the one erased.
EraseStable(v, index) ==
  /\ index \in 0 .. size[v] - 1
  /\ Destruct(v, {block[v][index + 1]})
  /\ IF index < size[v] - 1
     THEN /\ block' = [block EXCEPT ![v] = [k \in DOMAIN @ |->
                         IF k <= index \/ k > size[v] + 1 THEN @[k]
                         ELSE IF k < Len(@) THEN @[k + 1] ELSE Garbage]]
          /\ overrun' = (overrun \/ size[v] + 2 > capacity[v])
     ELSE UNCHANGED <<block, overrun>>
  /\ size' = [size EXCEPT ![v] = @ - 1]
  /\ UNCHANGED <<capacity, dtor, owned, moved>>

Clear(v) ==
  /\ Destruct(v, InUse(v))
  /\ block' = [block EXCEPT ![v] = Resized(<<>>, capacity[v])]
  /\ size' = [size EXCEPT ![v] = 0]
  /\ UNCHANGED <<capacity, dtor, owned, moved, overrun>>

\* What `*this = _uga_vec_create_0( ... )' leaves of v.
Emptied(v) ==
  /\ size' = [size EXCEPT ![v] = 0]
  /\ capacity' = [capacity EXCEPT ![v] = 0]
  /\ block' = [block EXCEPT ![v] = <<>>]
  /\ dtor' = [dtor EXCEPT ![v] = FALSE]
  /\ owned' = [owned EXCEPT ![v] = FALSE]
  /\ moved' = [moved EXCEPT ![v] = FALSE]

Destroy(v) ==
  /\ Destruct(v, InUse(v))
  /\ Emptied(v)
  /\ UNCHANGED overrun

\* Mutant: the destructor is copied, too.
CopyWithDtor(v, w) ==
  /\ v # w /\ Unused(w)
  /\ size' = [size EXCEPT ![w] = size[v]]
  /\ capacity' = [capacity EXCEPT ![w] = size[v]]
  /\ block' = [block EXCEPT ![w] = Resized(block[v], size[v])]
  /\ dtor' = [dtor EXCEPT ![w] = dtor[v]]
  /\ owned' = [owned EXCEPT ![w] = FALSE]
  /\ moved' = [moved EXCEPT ![w] = FALSE]
  /\ UNCHANGED <<alive, overrun>>

\* uga_vec_copy: the elements, byte for byte, without their destructor.
Copy(v, w) ==
  /\ v # w /\ Unused(w)
  /\ size' = [size EXCEPT ![w] = size[v]]
  /\ capacity' = [capacity EXCEPT ![w] = size[v]]
  /\ block' = [block EXCEPT ![w] = Resized(block[v], size[v])]
  /\ dtor' = [dtor EXCEPT ![w] = FALSE]
  /\ owned' = [owned EXCEPT ![w] = FALSE]
  /\ moved' = [moved EXCEPT ![w] = FALSE]
  /\ UNCHANGED <<alive, overrun>>

\* uga_vec_move: data, size and capacity go over, the destructor does not.
Move(v, w) ==
  /\ v # w /\ Unused(w)
  /\ size' = [size EXCEPT ![w] = size[v], ![v] = 0]
  /\ capacity' = [capacity EXCEPT ![w] = capacity[v], ![v] = 0]
  /\ block' = [block EXCEPT ![w] = block[v], ![v] = <<>>]
  /\ dtor' = [dtor EXCEPT ![w] = FALSE, ![v] = FALSE]
  /\ owned' = [owned EXCEPT ![w] = owned[v], ![v] = FALSE]
  /\ moved' = [moved EXCEPT ![w] = TRUE, ![v] = FALSE]
  /\ UNCHANGED <<alive, overrun>>

Next ==
  /\ ~overrun
  /\ \E v \in Names :
       \/ \E n \in 0 .. MaxCap : Create(v, n, TRUE) \/ Create(v, n, FALSE) \/ Reserve(v, n)
       \/ \E h \in Fresh : PushBack(v, h)
       \/ \E index \in 0 .. MaxCap : Erase(v, index) \/ EraseStable(v, index)
       \/ ShrinkToFit(v) \/ Clear(v) \/ Destroy(v)
       \/ \E w \in Names : Copy(v, w) \/ Move(v, w)

Spec == Init /\ [][Next]_vars

-----------------------------------------------------------------------------
Owned == UNION {InUse(v) : v \in {n \in Names : owned[n]}}

(***************************************************************************)
(* The destructor never runs on an element a client still has in a vector  *)
(* it gave the destructor to, and no such element is in two cells, of one  *)
(* vector or of two: nothing is destructed twice, whatever was copied,     *)
(* moved, shrunk or erased.                                                *)
(***************************************************************************)
DestructedOnce ==
  /\ Owned \subseteq alive
  /\ \A v \in Names : owned[v] => Cardinality(InUse(v)) = size[v]
  /\ \A v, w \in Names : owned[v] /\ owned[w] /\ v # w => InUse(v) \intersect InUse(w) = {}

(***************************************************************************)
(* An element drops out of reach without being destructed only from a      *)
(* vector whose content uga_vec_move brought there, which leaves the       *)
(* destructor behind.  Creating, reserving, shrinking, erasing, clearing   *)
(* and copying never part elements from their destructor.                  *)
(***************************************************************************)
Lost == alive \ Owned

LostByMoveOnly ==
  [][\A h \in Lost' \ Lost : \E v \in Names : owned[v] /\ moved[v] /\ h \in InUse(v)]_vars

(***************************************************************************)
(* README on uga_vec_destroy: "calls string destructors before             *)
(* deallocating".  No element handed to a vector with a destructor drops   *)
(* out of the client's reach without being destructed.                     *)
(***************************************************************************)
NoneLost == Lost = {}

(***************************************************************************)
(* A call leaves its block only if it is uga_vec_erase_stable of an        *)
(* element that is not the last, in a vector with fewer than two cells to  *)
(* spare; no push and no other erase does, whatever the vector went        *)
(* through before.                                                         *)
(***************************************************************************)
OnlyStableEraseOverruns ==
  [][overrun' =>
       \E v \in Names, index \in 0 .. MaxCap :
         EraseStable(v, index) /\ index < size[v] - 1 /\ capacity[v] - size[v] < 2]_vars
=============================================================================
