--------------------------- MODULE ContainersProofs ---------------------------
(***************************************************************************)
(* Theorems about Containers, for any vectors, elements and capacities,    *)
(* and for lists of any number of nodes.                                   *)
(*                                                                         *)
(* Vectors: the length of each block is its capacity, and each element a   *)
(* vector owns is alive, in one used cell of one vector (VectorInv).       *)
(* Lists: there is a sequence of distinct nodes that head and next, and    *)
(* prev, and the nodes not freed agree with (SlHas, DlHas); every call is  *)
(* shown to insert into it or to remove from it at one place.              *)
(***************************************************************************)
EXTENDS Containers, SequenceTheorems, FiniteSetTheorems, TLAPS

-----------------------------------------------------------------------------
(* The vectors. *)

Cells == Handles \union {Garbage}

\* The block of a vector is as long as its capacity says, and holds elements
\* as far as its size says.
FitsIn(cells, n, cap) ==
  /\ cells \in Seq(Cells) /\ Len(cells) = cap
  /\ n \in Nat /\ cap \in Nat /\ n <= cap
  /\ \A k \in 1 .. n : cells[k] \in Handles

Fits(v) == FitsIn(block[v], size[v], capacity[v])

VectorTypes ==
  /\ size \in [Names -> Nat] /\ capacity \in [Names -> Nat]
  /\ dtor \in [Names -> BOOLEAN] /\ owned \in [Names -> BOOLEAN] /\ moved \in [Names -> BOOLEAN]
  /\ block \in [Names -> Seq(Cells)]
  /\ \A v \in Names : Fits(v)

\* The elements among the first n cells.
Among(cells, n) == {cells[k] : k \in 1 .. n}

\* No element is twice among the first n cells.
NoneTwice(cells, n) == \A j, k \in 1 .. n : cells[j] = cells[k] => j = k

\* The elements the vector owns.
Holds(v) == {h \in InUse(v) : owned[v]}

\* Whoever has a destructor was created with it; whoever was created with one
\* still has it, but for what uga_vec_move left without.
Destructible(v) == (dtor[v] => owned[v]) /\ (owned[v] => dtor[v] \/ moved[v])

\* What a vector owns is alive, each element in one cell of one vector.
OwnInv ==
  /\ \A v \in Names : Destructible(v)
  /\ \A v \in Names : owned[v] => NoneTwice(block[v], size[v])
  /\ \A v, w \in Names : v # w => Holds(v) \intersect Holds(w) = {}
  /\ \A v \in Names : Holds(v) \subseteq alive

VectorInv == VectorTypes /\ OwnInv

\* What a step may make of the elements alive.
LossAllowed ==
  \A h \in Lost' \ Lost : \E v \in Names : owned[v] /\ moved[v] /\ h \in InUse(v)

LEMMA ResizedIs ==
  ASSUME NEW cells \in Seq(Cells), NEW n \in Nat
  PROVE  /\ Resized(cells, n) \in Seq(Cells) /\ Len(Resized(cells, n)) = n
         /\ \A k \in 1 .. n : k <= Len(cells) => Resized(cells, n)[k] = cells[k]
<1> DEFINE r == Resized(cells, n)
<1>1. /\ r = [k \in 1 .. n |-> r[k]]
      /\ \A k \in 1 .. n : r[k] = IF k <= Len(cells) THEN cells[k] ELSE Garbage
  BY DEF Resized
<1> HIDE DEF r
<1>2. ASSUME NEW k \in 1 .. n PROVE r[k] \in Cells
  <2>1. CASE k <= Len(cells)
    <3>1. k \in 1 .. Len(cells) BY <2>1
    <3> QED BY <1>1, <2>1, <3>1
  <2>2. CASE ~(k <= Len(cells)) BY <1>1, <2>2 DEF Cells
  <2> QED BY <2>1, <2>2
<1>3. r \in [1 .. n -> Cells] BY <1>1, <1>2
<1>4. r \in Seq(Cells) /\ Len(r) = n BY <1>3
<1> QED BY <1>1, <1>4 DEF r

LEMMA NoCells ==
  <<>> \in Seq(Cells) /\ Len(<<>>) = 0
OBVIOUS

LEMMA VectorType ==
  ASSUME VectorTypes, NEW v \in Names
  PROVE  /\ block[v] \in Seq(Cells) /\ Len(block[v]) = capacity[v]
         /\ size[v] \in Nat /\ capacity[v] \in Nat /\ size[v] <= capacity[v]
         /\ \A k \in 1 .. size[v] : block[v][k] \in Handles
         /\ dtor[v] \in BOOLEAN /\ owned[v] \in BOOLEAN /\ moved[v] \in BOOLEAN
BY DEF VectorTypes, Fits, FitsIn

\* A step of the vector v; the others are as before.
Others(v) ==
  \A w \in Names \ {v} :
    /\ size'[w] = size[w] /\ block'[w] = block[w]
    /\ dtor'[w] = dtor[w] /\ owned'[w] = owned[w] /\ moved'[w] = moved[w]
    /\ Holds(w)' = Holds(w)

Becomes(v, n, cells) ==
  /\ VectorTypes' /\ Others(v)
  /\ size'[v] = n /\ block'[v] = cells
  /\ InUse(v)' = Among(cells, n)

LEMMA VectorChanged ==
  ASSUME VectorTypes, NEW v \in Names, NEW n, NEW cap, NEW cells, FitsIn(cells, n, cap),
         size' = [size EXCEPT ![v] = n], capacity' = [capacity EXCEPT ![v] = cap],
         block' = [block EXCEPT ![v] = cells],
         dtor' \in [Names -> BOOLEAN], owned' \in [Names -> BOOLEAN], moved' \in [Names -> BOOLEAN],
         \A w \in Names \ {v} : dtor'[w] = dtor[w] /\ owned'[w] = owned[w] /\ moved'[w] = moved[w]
  PROVE  Becomes(v, n, cells)
<1>1. cells \in Seq(Cells) /\ n \in Nat /\ cap \in Nat BY DEF FitsIn
<1>2. /\ size'[v] = n /\ capacity'[v] = cap /\ block'[v] = cells
      /\ \A w \in Names \ {v} :
           /\ size'[w] = size[w] /\ capacity'[w] = capacity[w] /\ block'[w] = block[w]
           /\ dtor'[w] = dtor[w] /\ owned'[w] = owned[w] /\ moved'[w] = moved[w]
  BY DEF VectorTypes
<1>3. /\ size' \in [Names -> Nat] /\ capacity' \in [Names -> Nat]
      /\ dtor' \in [Names -> BOOLEAN] /\ owned' \in [Names -> BOOLEAN] /\ moved' \in [Names -> BOOLEAN]
      /\ block' \in [Names -> Seq(Cells)]
  BY <1>1 DEF VectorTypes
<1>4. \A w \in Names : Fits(w)' BY <1>2 DEF VectorTypes, Fits
<1>5. VectorTypes' BY <1>3, <1>4 DEF VectorTypes
<1>6. InUse(v)' = Among(cells, n) BY <1>2 DEF InUse, Among
<1>7. \A w \in Names \ {v} : Holds(w)' = Holds(w) BY <1>2 DEF Holds, InUse, Among
<1> QED BY <1>2, <1>5, <1>6, <1>7 DEF Becomes, Others

\* What the ownership of elements rests on when one vector changes: it keeps its
\* elements, or gains one that nobody owned, or loses some to the destructor, or
\* was moved and drops some.
LEMMA OwnershipKept ==
  ASSUME OwnInv, NEW v \in Names,
         Destructible(v)', owned'[v] => NoneTwice(block'[v], size'[v]),
         Others(v),
         \/ Holds(v)' = Holds(v) /\ alive' = alive
         \/ \E h : h \notin alive /\ Holds(v)' = Holds(v) \union {h} /\ alive' = alive \union {h}
         \/ \E E \in SUBSET Holds(v) : Holds(v)' = Holds(v) \ E /\ alive' = alive \ E
         \/ owned[v] /\ moved[v] /\ Holds(v)' \subseteq Holds(v) /\ alive' = alive
  PROVE  OwnInv' /\ LossAllowed
<1> USE DEF Others
<1>1. \A w \in Names : Destructible(w)' BY DEF OwnInv, Destructible
<1>2. \A w \in Names : owned'[w] => NoneTwice(block'[w], size'[w]) BY DEF OwnInv
<1>3. \A u, w \in Names : u # w => Holds(u) \intersect Holds(w) = {} BY DEF OwnInv
<1>4. \A w \in Names : \A h \in Holds(w) : h \in alive BY DEF OwnInv
<1>5. \A x \in Names \ {v} : Holds(x)' = Holds(x) OBVIOUS
<1>6. \A h : h \in Holds(v)' => h \in Holds(v) \/ h \notin alive OBVIOUS
<1>7. \A u, w \in Names : u # w => Holds(u)' \intersect Holds(w)' = {}
  <2> SUFFICES ASSUME NEW u \in Names, NEW w \in Names, u # w, NEW h,
                      h \in Holds(u)', h \in Holds(w)'
               PROVE  FALSE
    OBVIOUS
  <2>2. \A x \in Names \ {v} : h \in Holds(x)' => h \in Holds(x) /\ h \in alive BY <1>4, <1>5
  <2>3. h \in Holds(v)' => h \in Holds(v) \/ h \notin alive BY <1>6
  <2>4. CASE u # v /\ w # v BY <1>3, <2>2, <2>4
  <2>5. CASE u = v BY <1>3, <2>2, <2>3, <2>5
  <2>6. CASE w = v BY <1>3, <2>2, <2>3, <2>6
  <2> QED BY <2>4, <2>5, <2>6
<1>8. ASSUME NEW w \in Names, NEW h \in Holds(w)' PROVE h \in alive'
  <2>1. CASE Holds(v)' = Holds(v) /\ alive' = alive BY <1>4, <1>5, <2>1
  <2>2. CASE \E e : Holds(v)' = Holds(v) \union {e} /\ alive' = alive \union {e}
    BY <1>4, <1>5, <2>2
  <2>3. ASSUME NEW E \in SUBSET Holds(v), Holds(v)' = Holds(v) \ E, alive' = alive \ E
        PROVE  h \in alive'
    <3>1. CASE w = v BY <1>4, <2>3, <3>1
    <3>2. CASE w # v
      <4>1. h \in Holds(w) BY <1>5, <3>2
      <4>2. h \notin E BY <1>3, <3>2, <4>1
      <4> QED BY <1>4, <2>3, <4>1, <4>2
    <3> QED BY <3>1, <3>2
  <2>4. CASE Holds(v)' \subseteq Holds(v) /\ alive' = alive BY <1>4, <1>5, <2>4
  <2> QED BY <2>1, <2>2, <2>3, <2>4
<1>9. LossAllowed
  <2> SUFFICES ASSUME NEW h \in Lost', h \notin Lost
               PROVE  \E w \in Names : owned[w] /\ moved[w] /\ h \in InUse(w)
    BY DEF LossAllowed
  <2>1. h \in alive' /\ \A w \in Names : h \notin Holds(w)' BY DEF Lost, Owned, Holds
  <2>2. h \notin alive \/ \E w \in Names : h \in Holds(w) BY DEF Lost, Owned, Holds
  <2>3. h \in alive BY <2>1
  <2>4. h \in Holds(v) BY <1>5, <2>1, <2>2, <2>3
  <2>5. owned[v] /\ moved[v] BY <2>1, <2>4
  <2> QED BY <2>4, <2>5 DEF Holds
<1> QED BY <1>1, <1>2, <1>7, <1>8, <1>9 DEF OwnInv

\* What v holds after the step.
LEMMA HoldsAfter ==
  ASSUME NEW v, NEW n, NEW cells, Becomes(v, n, cells)
  PROVE  /\ Holds(v)' = {h \in Among(cells, n) : owned'[v]} /\ Others(v)
         /\ NoneTwice(cells, n) => NoneTwice(block'[v], size'[v])
BY DEF Becomes, Holds

LEMMA CreateStep ==
  ASSUME VectorInv, NEW v \in Names, NEW n \in Nat, NEW d \in BOOLEAN, Create(v, n, d)
  PROVE  VectorInv' /\ LossAllowed
<1> USE DEF VectorInv
<1> DEFINE cells == Resized(<<>>, n)
<1>1. /\ capacity[v] = 0 /\ UNCHANGED <<alive, overrun>>
      /\ size' = [size EXCEPT ![v] = 0] /\ capacity' = [capacity EXCEPT ![v] = n]
      /\ block' = [block EXCEPT ![v] = cells]
      /\ dtor' = [dtor EXCEPT ![v] = d] /\ owned' = [owned EXCEPT ![v] = d]
      /\ moved' = [moved EXCEPT ![v] = FALSE]
  BY DEF Create, Unused
<1>2. cells \in Seq(Cells) /\ Len(cells) = n BY NoCells, ResizedIs
<1> HIDE DEF cells
<1>3. FitsIn(cells, 0, n) BY <1>2 DEF FitsIn
<1>4. Becomes(v, 0, cells)
  <2>1. /\ dtor' \in [Names -> BOOLEAN] /\ owned' \in [Names -> BOOLEAN] /\ moved' \in [Names -> BOOLEAN]
        /\ \A w \in Names \ {v} : dtor'[w] = dtor[w] /\ owned'[w] = owned[w] /\ moved'[w] = moved[w]
    BY <1>1 DEF VectorTypes
  <2> QED BY <1>1, <1>3, <2>1, VectorChanged
<1>5. OwnInv' /\ LossAllowed
  <2>1. size[v] = 0 BY <1>1, VectorType
  <2>2. Holds(v) = {} /\ Holds(v)' = {} BY <1>4, <2>1, HoldsAfter DEF Holds, InUse, Among
  <2>3. NoneTwice(cells, 0) BY DEF NoneTwice
  <2>4. Destructible(v)' BY <1>1 DEF VectorTypes, Destructible
  <2> QED BY <1>1, <2>4, <1>4, <2>2, <2>3, HoldsAfter, OwnershipKept
<1> QED BY <1>1, <1>4, <1>5 DEF Becomes

\* The block is moved to another capacity that holds what is in use.
LEMMA MovedToStep ==
  ASSUME VectorInv, NEW v \in Names, NEW cap \in Nat, size[v] <= cap,
         capacity' = [capacity EXCEPT ![v] = cap],
         block' = [block EXCEPT ![v] = Resized(block[v], cap)],
         UNCHANGED <<size, dtor, owned, moved, alive, overrun>>
  PROVE  VectorInv' /\ LossAllowed
<1> USE DEF VectorInv
<1> DEFINE cells == Resized(block[v], cap)
<1>1. /\ block[v] \in Seq(Cells) /\ Len(block[v]) = capacity[v] /\ size[v] <= capacity[v]
      /\ size[v] \in Nat /\ dtor[v] \in BOOLEAN /\ owned[v] \in BOOLEAN
      /\ \A k \in 1 .. size[v] : block[v][k] \in Handles
  BY VectorType
<1>2. /\ cells \in Seq(Cells) /\ Len(cells) = cap
      /\ \A k \in 1 .. cap : k <= Len(block[v]) => cells[k] = block[v][k]
  BY <1>1, ResizedIs
<1>3. block' = [block EXCEPT ![v] = cells] OBVIOUS
<1> HIDE DEF cells
<1>4. \A k \in 1 .. size[v] : cells[k] = block[v][k] BY <1>1, <1>2, VectorType
<1>5. FitsIn(cells, size[v], cap) BY <1>1, <1>2, <1>4 DEF FitsIn
<1>6. Becomes(v, size[v], cells)
  <2>1. /\ dtor' \in [Names -> BOOLEAN] /\ owned' \in [Names -> BOOLEAN] /\ moved' \in [Names -> BOOLEAN]
        /\ \A w \in Names \ {v} : dtor'[w] = dtor[w] /\ owned'[w] = owned[w] /\ moved'[w] = moved[w]
    BY DEF VectorTypes
  <2>2. size' = [size EXCEPT ![v] = size[v]] BY DEF VectorTypes
  <2> QED BY <1>1, <1>3, <1>5, <2>1, <2>2, VectorChanged
<1>7. OwnInv' /\ LossAllowed
  <2>1. Among(cells, size[v]) = InUse(v) BY <1>4 DEF InUse, Among
  <2>2. Holds(v)' = Holds(v) BY <1>6, <2>1, HoldsAfter DEF Holds
  <2>3. owned[v] => NoneTwice(cells, size[v]) BY <1>4 DEF OwnInv, NoneTwice
  <2>4. Destructible(v)' BY DEF OwnInv, Destructible
  <2> QED BY <1>6, <2>2, <2>3, <2>4, HoldsAfter, OwnershipKept
<1> QED BY <1>6, <1>7 DEF Becomes

LEMMA ReserveStep ==
  ASSUME VectorInv, NEW v \in Names, NEW n \in Nat, Reserve(v, n)
  PROVE  VectorInv' /\ LossAllowed
<1>1. /\ n > capacity[v] /\ capacity' = [capacity EXCEPT ![v] = n]
      /\ block' = [block EXCEPT ![v] = Resized(block[v], n)]
      /\ UNCHANGED <<size, dtor, owned, moved, alive, overrun>>
  BY DEF Reserve
<1>2. size[v] <= n BY <1>1, VectorType DEF VectorInv
<1> QED BY <1>1, <1>2, MovedToStep

LEMMA ShrinkToFitStep ==
  ASSUME VectorInv, NEW v \in Names, ShrinkToFit(v)
  PROVE  VectorInv' /\ LossAllowed
<1>1. /\ capacity' = [capacity EXCEPT ![v] = size[v]]
      /\ block' = [block EXCEPT ![v] = Resized(block[v], size[v])]
      /\ UNCHANGED <<size, dtor, owned, moved, alive, overrun>>
  BY DEF ShrinkToFit
<1>2. size[v] \in Nat /\ size[v] <= size[v] BY VectorType DEF VectorInv
<1> QED BY <1>1, <1>2, MovedToStep

LEMMA PushBackStep ==
  ASSUME VectorInv, NEW v \in Names, NEW h \in Fresh, PushBack(v, h)
  PROVE  VectorInv' /\ LossAllowed
<1> USE DEF VectorInv
<1> DEFINE n     == size[v]
           cap   == Grown(v)
           old   == Resized(block[v], cap)
           cells == [k \in 1 .. cap |-> IF k = n + 1 THEN h ELSE old[k]]
<1>1. /\ capacity' = [capacity EXCEPT ![v] = cap] /\ block' = [block EXCEPT ![v] = cells]
      /\ size' = [size EXCEPT ![v] = n + 1]
      /\ alive' = (IF owned[v] THEN alive \union {h} ELSE alive)
      /\ UNCHANGED <<dtor, owned, moved>>
  BY DEF PushBack
<1>2. /\ block[v] \in Seq(Cells) /\ Len(block[v]) = capacity[v] /\ n <= capacity[v]
      /\ n \in Nat /\ capacity[v] \in Nat /\ dtor[v] \in BOOLEAN /\ owned[v] \in BOOLEAN
      /\ \A k \in 1 .. n : block[v][k] \in Handles
  BY VectorType
<1>3. cap \in Nat /\ n + 1 <= cap BY <1>2 DEF Grown
<1> HIDE DEF cap
<1>4. /\ old \in Seq(Cells) /\ Len(old) = cap
      /\ \A k \in 1 .. cap : k <= Len(block[v]) => old[k] = block[v][k]
  BY <1>2, <1>3, ResizedIs
<1> HIDE DEF old
<1>5. h \in Handles /\ h \notin alive /\ h \notin InUse(v) BY DEF Fresh
<1>6. cells \in Seq(Cells) /\ Len(cells) = cap
  <2>1. \A k \in 1 .. cap : old[k] \in Cells BY <1>4
  <2>2. cells \in [1 .. cap -> Cells] BY <1>5, <2>1 DEF Cells
  <2> QED BY <1>3, <2>2
<1>7. cells[n + 1] = h /\ \A k \in 1 .. n : cells[k] = block[v][k] BY <1>2, <1>3, <1>4
<1> HIDE DEF cells
<1>8. FitsIn(cells, n + 1, cap)
  <2>1. \A k \in 1 .. n + 1 : cells[k] \in Handles BY <1>2, <1>5, <1>7
  <2> QED BY <1>2, <1>3, <1>6, <2>1 DEF FitsIn
<1>9. Becomes(v, n + 1, cells)
  <2>1. /\ dtor' \in [Names -> BOOLEAN] /\ owned' \in [Names -> BOOLEAN] /\ moved' \in [Names -> BOOLEAN]
        /\ \A w \in Names \ {v} : dtor'[w] = dtor[w] /\ owned'[w] = owned[w] /\ moved'[w] = moved[w]
    BY <1>1 DEF VectorTypes
  <2> QED BY <1>1, <1>2, <1>8, <2>1, VectorChanged
<1>10. OwnInv' /\ LossAllowed
  <2>1. Among(cells, n + 1) = InUse(v) \union {h}
    <3>1. InUse(v) = {block[v][k] : k \in 1 .. n} BY <1>2 DEF InUse
    <3>2. InUse(v) = {cells[k] : k \in 1 .. n} BY <1>7, <3>1
    <3>3. n \in Nat /\ 1 .. n + 1 = (1 .. n) \union {n + 1} BY <1>2
    <3> QED BY <1>7, <3>2, <3>3 DEF Among
  <2>2. /\ owned[v] => Holds(v)' = Holds(v) \union {h}
        /\ ~owned[v] => Holds(v)' = Holds(v)
    <3>1. Holds(v)' = {e \in InUse(v) \union {h} : owned[v]} BY <1>1, <1>9, <2>1, HoldsAfter
    <3> HIDE DEF n
    <3> QED BY <3>1 DEF Holds
  <2>3. owned[v] => NoneTwice(cells, n + 1)
    <3> SUFFICES ASSUME owned[v], NEW j \in 1 .. n + 1, NEW k \in 1 .. n + 1,
                        cells[j] = cells[k]
                 PROVE  j = k
      BY DEF NoneTwice
    <3>1. \A i \in 1 .. n : cells[i] # h BY <1>5, <1>7 DEF InUse, Among
    <3>2. CASE j \in 1 .. n /\ k \in 1 .. n BY <1>7, <3>2 DEF OwnInv, NoneTwice
    <3>3. CASE j = n + 1 \/ k = n + 1 BY <1>2, <1>7, <3>1, <3>3
    <3> QED BY <1>2, <3>2, <3>3
  <2>4. Destructible(v)' BY <1>1 DEF OwnInv, Destructible
  <2> QED BY <1>1, <1>5, <1>9, <2>2, <2>3, <2>4, HoldsAfter, OwnershipKept
<1> QED BY <1>9, <1>10 DEF Becomes

\* v loses elements, to its destructor if it has one.
LEMMA ElementsLost ==
  ASSUME VectorInv, NEW v \in Names, NEW n, NEW cells, Becomes(v, n, cells),
         Destructible(v)', NEW E, Destruct(v, E),
         owned[v] => E \subseteq InUse(v),
         Among(cells, n) \subseteq InUse(v),
         owned'[v] => owned[v] /\ Among(cells, n) = InUse(v) \ E /\ NoneTwice(cells, n),
         owned[v] /\ ~owned'[v] => E = InUse(v)
  PROVE  OwnInv' /\ LossAllowed
<1> USE DEF VectorInv
<1>1. Destructible(v) /\ owned[v] \in BOOLEAN BY VectorType DEF OwnInv
<1>2. Holds(v)' = {h \in Among(cells, n) : owned'[v]} /\ Others(v) BY HoldsAfter
<1>3. owned'[v] => NoneTwice(block'[v], size'[v]) BY HoldsAfter
<1>4. CASE owned[v]
  <2>1. Holds(v) = InUse(v) BY <1>4 DEF Holds
  <2>2. Holds(v)' = Holds(v) \ E
    <3>1. CASE owned'[v] BY <1>2, <2>1, <3>1
    <3>2. CASE ~owned'[v] BY <1>2, <1>4, <2>1, <3>2
    <3> QED BY <3>1, <3>2
  <2>3. E \in SUBSET Holds(v) BY <1>4, <2>1
  <2>4. CASE dtor[v]
    <3>1. alive' = alive \ E BY <2>4 DEF Destruct
    <3> QED BY <1>2, <1>3, <2>2, <2>3, <3>1, OwnershipKept
  <2>5. CASE ~dtor[v]
    <3>1. alive' = alive BY <2>5 DEF Destruct
    <3>2. moved[v] BY <1>1, <1>4, <2>5 DEF Destructible
    <3>3. Holds(v)' \subseteq Holds(v) BY <2>2
    <3> QED BY <1>2, <1>3, <1>4, <3>1, <3>2, <3>3, OwnershipKept
  <2> QED BY <2>4, <2>5
<1>5. CASE ~owned[v]
  <2>1. alive' = alive BY <1>1, <1>5 DEF Destruct, Destructible
  <2>2. Holds(v) = {} BY <1>5 DEF Holds
  <2>3. Holds(v)' = {} BY <1>2, <1>5
  <2> QED BY <1>2, <1>3, <2>1, <2>2, <2>3, OwnershipKept
<1> QED BY <1>4, <1>5

\* The first n cells without the one at the place p, in whatever order.
Without(cells, n, p, left) ==
  /\ \A k \in 1 .. n - 1 : \E j \in 1 .. n : j # p /\ left[k] = cells[j]
  /\ \A j \in 1 .. n : j # p => \E k \in 1 .. n - 1 : left[k] = cells[j]

LEMMA ElementGone ==
  ASSUME NEW n \in Nat, NEW p \in 1 .. n, NEW cells, NEW left,
         NoneTwice(cells, n),
         Without(cells, n, p, left)
  PROVE  Among(left, n - 1) = Among(cells, n) \ {cells[p]}
BY DEF NoneTwice, Without, Among

LEMMA EraseStep ==
  ASSUME VectorInv, NEW v \in Names, NEW index, Erase(v, index)
  PROVE  VectorInv' /\ LossAllowed
<1> USE DEF VectorInv
<1> DEFINE n     == size[v]
           old   == block[v]
           p     == index + 1
           cells == [block[v] EXCEPT ![index + 1] = block[v][size[v]]]
<1>1. /\ index \in 0 .. n - 1 /\ Destruct(v, {old[p]})
      /\ block' = [block EXCEPT ![v] = cells] /\ size' = [size EXCEPT ![v] = n - 1]
      /\ UNCHANGED <<capacity, dtor, owned, moved>>
  BY DEF Erase
<1>2. /\ old \in Seq(Cells) /\ Len(old) = capacity[v] /\ n <= capacity[v]
      /\ n \in Nat /\ capacity[v] \in Nat
      /\ \A k \in 1 .. n : old[k] \in Handles
  BY VectorType
<1>3. p \in 1 .. n /\ p \in 1 .. Len(old) /\ n \in 1 .. Len(old) BY <1>1, <1>2
<1>4. cells \in Seq(Cells) /\ Len(cells) = Len(old)
  <2>1. old[n] \in Cells BY <1>2, <1>3
  <2> QED BY <1>2, <1>3, <2>1, ExceptSeq
<1>5. \A k \in 1 .. n : cells[k] = IF k = p THEN old[n] ELSE old[k] BY <1>2, <1>3
<1> HIDE DEF cells
<1>6. FitsIn(cells, n - 1, capacity[v])
  <2>1. \A k \in 1 .. n - 1 : cells[k] \in Handles BY <1>2, <1>3, <1>5
  <2> QED BY <1>2, <1>3, <1>4, <2>1 DEF FitsIn
<1>7. Becomes(v, n - 1, cells)
  <2>1. /\ dtor' \in [Names -> BOOLEAN] /\ owned' \in [Names -> BOOLEAN] /\ moved' \in [Names -> BOOLEAN]
        /\ \A w \in Names \ {v} : dtor'[w] = dtor[w] /\ owned'[w] = owned[w] /\ moved'[w] = moved[w]
    BY <1>1 DEF VectorTypes
  <2>2. capacity' = [capacity EXCEPT ![v] = capacity[v]] BY <1>1 DEF VectorTypes
  <2> QED BY <1>1, <1>6, <2>1, <2>2, VectorChanged
<1>8. OwnInv' /\ LossAllowed
  <2>1. Without(old, n, p, cells)
    <3>1. ASSUME NEW k \in 1 .. n - 1 PROVE \E j \in 1 .. n : j # p /\ cells[k] = old[j]
      <4>1. k \in 1 .. n /\ n \in 1 .. n /\ k # n BY <1>2, <1>3
      <4>2. CASE k = p BY <1>5, <4>1, <4>2
      <4>3. CASE k # p BY <1>5, <4>1, <4>3
      <4> QED BY <4>2, <4>3
    <3>2. ASSUME NEW j \in 1 .. n, j # p PROVE \E k \in 1 .. n - 1 : cells[k] = old[j]
      <4>1. CASE j = n
        <5>1. p \in 1 .. n - 1 BY <1>2, <1>3, <3>2, <4>1
        <5> QED BY <1>3, <1>5, <4>1, <5>1
      <4>2. CASE j # n
        <5>1. j \in 1 .. n - 1 BY <1>2, <4>2
        <5> QED BY <1>5, <3>2, <5>1
      <4> QED BY <4>1, <4>2
    <3> QED BY <3>1, <3>2 DEF Without
  <2>2. owned[v] => NoneTwice(old, n) BY DEF OwnInv
  <2>3. owned[v] => Among(cells, n - 1) = InUse(v) \ {old[p]}
    <3>1. InUse(v) = Among(old, n) BY DEF InUse, Among
    <3> HIDE DEF n, old, p
    <3>2. owned[v] => Among(cells, n - 1) = Among(old, n) \ {old[p]}
      BY <1>2, <1>3, <2>1, <2>2, ElementGone
    <3> QED BY <3>1, <3>2
  <2>4. owned[v] => NoneTwice(cells, n - 1)
    <3> SUFFICES ASSUME owned[v], NEW j \in 1 .. n - 1, NEW k \in 1 .. n - 1,
                        cells[j] = cells[k]
                 PROVE  j = k
      BY DEF NoneTwice
    <3>1. j \in 1 .. n /\ k \in 1 .. n /\ n \in 1 .. n /\ j # n /\ k # n BY <1>2, <1>3
    <3> QED BY <1>5, <2>2, <3>1 DEF NoneTwice
  <2>5. Among(cells, n - 1) \subseteq InUse(v) BY <2>1 DEF InUse, Among, Without
  <2>6. {old[p]} \subseteq InUse(v) BY <1>3 DEF InUse, Among
  <2>7. Destructible(v)' /\ owned'[v] = owned[v] BY <1>1 DEF OwnInv, Destructible
  <2> HIDE DEF n, old, p
  <2> QED BY <1>1, <1>7, <2>3, <2>4, <2>5, <2>6, <2>7, ElementsLost
<1> QED BY <1>1, <1>7, <1>8 DEF Becomes

LEMMA EraseStableStep ==
  ASSUME VectorInv, NEW v \in Names, NEW index, EraseStable(v, index)
  PROVE  VectorInv' /\ LossAllowed
<1> USE DEF VectorInv
<1> DEFINE n     == size[v]
           old   == block[v]
           p     == index + 1
           shifted == [k \in DOMAIN old |->
                         IF k <= index \/ k > n + 1 THEN old[k]
                         ELSE IF k < Len(old) THEN old[k + 1] ELSE Garbage]
           cells == IF index < n - 1 THEN shifted ELSE old
<1>1. /\ index \in 0 .. n - 1 /\ Destruct(v, {old[p]})
      /\ size' = [size EXCEPT ![v] = n - 1]
      /\ UNCHANGED <<capacity, dtor, owned, moved>>
  BY DEF EraseStable
<1>2. /\ old \in Seq(Cells) /\ Len(old) = capacity[v] /\ n <= capacity[v]
      /\ n \in Nat /\ capacity[v] \in Nat /\ DOMAIN old = 1 .. Len(old)
      /\ \A k \in 1 .. n : old[k] \in Handles
  BY VectorType
<1>3. p \in 1 .. n /\ index \in Nat BY <1>1, <1>2
<1>4. block' = [block EXCEPT ![v] = cells]
  <2>1. CASE index < n - 1 BY <2>1 DEF EraseStable
  <2>2. CASE ~(index < n - 1)
    <3>1. block' = block BY <2>2 DEF EraseStable
    <3> QED BY <2>2, <3>1 DEF VectorTypes
  <2> QED BY <2>1, <2>2
<1>5. cells \in Seq(Cells) /\ Len(cells) = Len(old)
  <2>1. ASSUME NEW k \in DOMAIN old PROVE shifted[k] \in Cells
    <3>1. k \in 1 .. Len(old) BY <1>2
    <3>2. CASE k <= index \/ k > n + 1 BY <1>2, <3>1, <3>2
    <3>3. CASE ~(k <= index \/ k > n + 1) /\ k < Len(old)
      <4>1. k + 1 \in 1 .. Len(old) BY <1>2, <3>1, <3>3
      <4> QED BY <1>2, <3>1, <3>3, <4>1
    <3>4. CASE ~(k <= index \/ k > n + 1) /\ ~(k < Len(old)) BY <3>4 DEF Cells
    <3> QED BY <3>2, <3>3, <3>4
  <2>2. shifted \in [1 .. Len(old) -> Cells] BY <1>2, <2>1
  <2>3. shifted \in Seq(Cells) /\ Len(shifted) = Len(old)
    <3> HIDE DEF shifted
    <3>1. Len(old) \in Nat BY <1>2
    <3> QED BY <2>2, <3>1
  <2> QED BY <1>2, <2>3
<1>6. \A k \in 1 .. n - 1 : cells[k] = IF k < p THEN old[k] ELSE old[k + 1]
  <2> SUFFICES ASSUME NEW k \in 1 .. n - 1
               PROVE  cells[k] = IF k < p THEN old[k] ELSE old[k + 1]
    OBVIOUS
  <2>1. k \in DOMAIN old /\ k < Len(old) /\ ~(k > n + 1) BY <1>2
  <2>2. k < p <=> k <= index BY <1>2, <1>3
  <2>3. ~(index < n - 1) => k <= index BY <1>2, <1>3
  <2> QED BY <2>1, <2>2, <2>3
<1> HIDE DEF cells
<1>7. FitsIn(cells, n - 1, capacity[v])
  <2>1. ASSUME NEW k \in 1 .. n - 1 PROVE cells[k] \in Handles
    <3>1. k \in 1 .. n /\ k + 1 \in 1 .. n BY <1>2
    <3>2. cells[k] = old[k] \/ cells[k] = old[k + 1] BY <1>6
    <3> QED BY <1>2, <3>1, <3>2
  <2> QED BY <1>2, <1>3, <1>5, <2>1 DEF FitsIn
<1>8. Becomes(v, n - 1, cells)
  <2>1. /\ dtor' \in [Names -> BOOLEAN] /\ owned' \in [Names -> BOOLEAN] /\ moved' \in [Names -> BOOLEAN]
        /\ \A w \in Names \ {v} : dtor'[w] = dtor[w] /\ owned'[w] = owned[w] /\ moved'[w] = moved[w]
    BY <1>1 DEF VectorTypes
  <2>2. capacity' = [capacity EXCEPT ![v] = capacity[v]] BY <1>1 DEF VectorTypes
  <2> QED BY <1>1, <1>4, <1>7, <2>1, <2>2, VectorChanged
<1>9. OwnInv' /\ LossAllowed
  <2>1. Without(old, n, p, cells)
    <3>1. ASSUME NEW k \in 1 .. n - 1 PROVE \E j \in 1 .. n : j # p /\ cells[k] = old[j]
      <4>1. CASE k < p
        <5>1. k \in 1 .. n /\ k # p BY <1>2, <1>3, <4>1
        <5> QED BY <1>6, <4>1, <5>1
      <4>2. CASE ~(k < p)
        <5>1. k + 1 \in 1 .. n /\ k + 1 # p BY <1>2, <1>3, <4>2
        <5> QED BY <1>6, <4>2, <5>1
      <4> QED BY <4>1, <4>2
    <3>2. ASSUME NEW j \in 1 .. n, j # p PROVE \E k \in 1 .. n - 1 : cells[k] = old[j]
      <4>1. CASE j < p
        <5>1. j \in 1 .. n - 1 BY <1>2, <1>3, <4>1
        <5> QED BY <1>6, <4>1, <5>1
      <4>2. CASE ~(j < p)
        <5>1. j - 1 \in 1 .. n - 1 /\ ~(j - 1 < p) /\ (j - 1) + 1 = j BY <1>2, <1>3, <3>2, <4>2
        <5> QED BY <1>6, <5>1
      <4> QED BY <4>1, <4>2
    <3> QED BY <3>1, <3>2 DEF Without
  <2>2. owned[v] => NoneTwice(old, n) BY DEF OwnInv
  <2>3. owned[v] => Among(cells, n - 1) = InUse(v) \ {old[p]}
    <3>1. InUse(v) = Among(old, n) BY DEF InUse, Among
    <3> HIDE DEF n, old, p
    <3>2. owned[v] => Among(cells, n - 1) = Among(old, n) \ {old[p]}
      BY <1>2, <1>3, <2>1, <2>2, ElementGone
    <3> QED BY <3>1, <3>2
  <2>4. owned[v] => NoneTwice(cells, n - 1)
    <3> SUFFICES ASSUME owned[v], NEW j \in 1 .. n - 1, NEW k \in 1 .. n - 1,
                        cells[j] = cells[k]
                 PROVE  j = k
      BY DEF NoneTwice
    <3>1. j \in 1 .. n /\ k \in 1 .. n /\ j + 1 \in 1 .. n /\ k + 1 \in 1 .. n BY <1>2
    <3>2. \A a, b \in 1 .. n : old[a] = old[b] => a = b BY <2>2 DEF NoneTwice
    <3>3. cells[j] = old[IF j < p THEN j ELSE j + 1] /\ cells[k] = old[IF k < p THEN k ELSE k + 1]
      BY <1>6
    <3>4. (IF j < p THEN j ELSE j + 1) = (IF k < p THEN k ELSE k + 1) BY <3>1, <3>2, <3>3
    <3> QED BY <1>2, <1>3, <3>4
  <2>5. Among(cells, n - 1) \subseteq InUse(v) BY <2>1 DEF InUse, Among, Without
  <2>6. {old[p]} \subseteq InUse(v) BY <1>3 DEF InUse, Among
  <2>7. Destructible(v)' /\ owned'[v] = owned[v] BY <1>1 DEF OwnInv, Destructible
  <2> HIDE DEF n, old, p
  <2> QED BY <1>1, <1>8, <2>3, <2>4, <2>5, <2>6, <2>7, ElementsLost
<1> QED BY <1>8, <1>9 DEF Becomes

LEMMA ClearStep ==
  ASSUME VectorInv, NEW v \in Names, Clear(v)
  PROVE  VectorInv' /\ LossAllowed
<1> USE DEF VectorInv
<1> DEFINE cells == Resized(<<>>, capacity[v])
<1>1. /\ Destruct(v, InUse(v)) /\ block' = [block EXCEPT ![v] = cells]
      /\ size' = [size EXCEPT ![v] = 0] /\ UNCHANGED <<capacity, dtor, owned, moved>>
  BY DEF Clear
<1>2. capacity[v] \in Nat BY VectorType
<1>3. cells \in Seq(Cells) /\ Len(cells) = capacity[v] BY <1>2, NoCells, ResizedIs
<1> HIDE DEF cells
<1>4. FitsIn(cells, 0, capacity[v]) BY <1>2, <1>3 DEF FitsIn
<1>5. Becomes(v, 0, cells)
  <2>1. /\ dtor' \in [Names -> BOOLEAN] /\ owned' \in [Names -> BOOLEAN] /\ moved' \in [Names -> BOOLEAN]
        /\ \A w \in Names \ {v} : dtor'[w] = dtor[w] /\ owned'[w] = owned[w] /\ moved'[w] = moved[w]
    BY <1>1 DEF VectorTypes
  <2>2. capacity' = [capacity EXCEPT ![v] = capacity[v]] BY <1>1 DEF VectorTypes
  <2> QED BY <1>1, <1>4, <2>1, <2>2, VectorChanged
<1>6. OwnInv' /\ LossAllowed
  <2>1. Among(cells, 0) = {} /\ NoneTwice(cells, 0) BY DEF Among, NoneTwice
  <2>2. Destructible(v)' /\ owned'[v] = owned[v] BY <1>1 DEF OwnInv, Destructible
  <2> QED BY <1>1, <1>5, <2>1, <2>2, ElementsLost
<1> QED BY <1>1, <1>5, <1>6 DEF Becomes

LEMMA DestroyStep ==
  ASSUME VectorInv, NEW v \in Names, Destroy(v)
  PROVE  VectorInv' /\ LossAllowed
<1> USE DEF VectorInv
<1>1. /\ Destruct(v, InUse(v))
      /\ size' = [size EXCEPT ![v] = 0] /\ capacity' = [capacity EXCEPT ![v] = 0]
      /\ block' = [block EXCEPT ![v] = <<>>]
      /\ dtor' = [dtor EXCEPT ![v] = FALSE] /\ owned' = [owned EXCEPT ![v] = FALSE]
      /\ moved' = [moved EXCEPT ![v] = FALSE]
  BY DEF Destroy, Emptied
<1>2. FitsIn(<<>>, 0, 0) BY NoCells DEF FitsIn
<1>3. /\ dtor' \in [Names -> BOOLEAN] /\ owned' \in [Names -> BOOLEAN] /\ moved' \in [Names -> BOOLEAN]
      /\ \A w \in Names \ {v} : dtor'[w] = dtor[w] /\ owned'[w] = owned[w] /\ moved'[w] = moved[w]
      /\ dtor'[v] = FALSE /\ owned'[v] = FALSE
  BY <1>1 DEF VectorTypes
<1>4. Becomes(v, 0, <<>>) BY <1>1, <1>2, <1>3, VectorChanged
<1>5. OwnInv' /\ LossAllowed
  <2>1. Among(<<>>, 0) = {} BY DEF Among
  <2>2. Destructible(v)' BY <1>3 DEF Destructible
  <2> QED BY <1>1, <1>3, <1>4, <2>1, <2>2, ElementsLost
<1> QED BY <1>1, <1>4, <1>5 DEF Becomes

LEMMA CopyStep ==
  ASSUME VectorInv, NEW v \in Names, NEW w \in Names, Copy(v, w)
  PROVE  VectorInv' /\ LossAllowed
<1> USE DEF VectorInv
<1> DEFINE n     == size[v]
           cells == Resized(block[v], n)
<1>1. /\ capacity[w] = 0 /\ UNCHANGED <<alive, overrun>>
      /\ size' = [size EXCEPT ![w] = n] /\ capacity' = [capacity EXCEPT ![w] = n]
      /\ block' = [block EXCEPT ![w] = cells]
      /\ dtor' = [dtor EXCEPT ![w] = FALSE] /\ owned' = [owned EXCEPT ![w] = FALSE]
      /\ moved' = [moved EXCEPT ![w] = FALSE]
  BY DEF Copy, Unused
<1>2. /\ block[v] \in Seq(Cells) /\ Len(block[v]) = capacity[v] /\ n <= capacity[v]
      /\ n \in Nat /\ capacity[v] \in Nat /\ \A k \in 1 .. n : block[v][k] \in Handles
  BY VectorType
<1>3. /\ cells \in Seq(Cells) /\ Len(cells) = n
      /\ \A k \in 1 .. n : k <= Len(block[v]) => cells[k] = block[v][k]
  BY <1>2, ResizedIs
<1> HIDE DEF cells
<1>4. FitsIn(cells, n, n) BY <1>2, <1>3 DEF FitsIn
<1>5. /\ dtor' \in [Names -> BOOLEAN] /\ owned' \in [Names -> BOOLEAN] /\ moved' \in [Names -> BOOLEAN]
      /\ \A u \in Names \ {w} : dtor'[u] = dtor[u] /\ owned'[u] = owned[u] /\ moved'[u] = moved[u]
      /\ dtor'[w] = FALSE /\ owned'[w] = FALSE
  BY <1>1 DEF VectorTypes
<1> HIDE DEF n
<1>6. Becomes(w, n, cells) BY <1>1, <1>4, <1>5, VectorChanged
<1>7. OwnInv' /\ LossAllowed
  <2>1. size[w] = 0 BY <1>1, VectorType
  <2>2. Holds(w) = {} BY <2>1 DEF Holds, InUse
  <2>3. Holds(w)' = {} BY <1>5, <1>6, HoldsAfter
  <2>4. Destructible(w)' BY <1>5 DEF Destructible
  <2> QED BY <1>1, <1>5, <1>6, <2>2, <2>3, <2>4, HoldsAfter, OwnershipKept
<1> QED BY <1>1, <1>6, <1>7 DEF Becomes

LEMMA MoveStep ==
  ASSUME VectorInv, NEW v \in Names, NEW w \in Names, Move(v, w)
  PROVE  VectorInv' /\ LossAllowed
<1> USE DEF VectorInv
<1>1. /\ v # w /\ capacity[w] = 0 /\ UNCHANGED <<alive, overrun>>
      /\ size' = [size EXCEPT ![w] = size[v], ![v] = 0]
      /\ capacity' = [capacity EXCEPT ![w] = capacity[v], ![v] = 0]
      /\ block' = [block EXCEPT ![w] = block[v], ![v] = <<>>]
      /\ dtor' = [dtor EXCEPT ![w] = FALSE, ![v] = FALSE]
      /\ owned' = [owned EXCEPT ![w] = owned[v], ![v] = FALSE]
      /\ moved' = [moved EXCEPT ![w] = TRUE, ![v] = FALSE]
  BY DEF Move, Unused
<1>2. /\ size' \in [Names -> Nat] /\ capacity' \in [Names -> Nat]
      /\ dtor' \in [Names -> BOOLEAN] /\ owned' \in [Names -> BOOLEAN] /\ moved' \in [Names -> BOOLEAN]
      /\ block' \in [Names -> Seq(Cells)]
  BY <1>1, NoCells DEF VectorTypes
<1>3. /\ size'[w] = size[v] /\ capacity'[w] = capacity[v] /\ block'[w] = block[v]
      /\ size'[v] = 0 /\ capacity'[v] = 0 /\ block'[v] = <<>>
      /\ \A u \in Names \ {v, w} :
           size'[u] = size[u] /\ capacity'[u] = capacity[u] /\ block'[u] = block[u]
  BY <1>1 DEF VectorTypes
<1>4. ASSUME NEW u \in Names PROVE Fits(u)'
  <2>1. CASE u = v
    <3>1. FitsIn(<<>>, 0, 0) BY NoCells DEF FitsIn
    <3> QED BY <1>3, <2>1, <3>1 DEF Fits
  <2>2. CASE u = w BY <1>3, <2>2 DEF VectorTypes, Fits
  <2>3. CASE u \notin {v, w} BY <1>3, <2>3 DEF VectorTypes, Fits
  <2> QED BY <2>1, <2>2, <2>3
<1>5. VectorTypes' BY <1>2, <1>4 DEF VectorTypes
<1>6. /\ owned'[w] = owned[v] /\ owned'[v] = FALSE
      /\ dtor'[v] = FALSE /\ dtor'[w] = FALSE /\ moved'[w] = TRUE
      /\ \A u \in Names \ {v, w} :
           dtor'[u] = dtor[u] /\ owned'[u] = owned[u] /\ moved'[u] = moved[u]
  BY <1>1 DEF VectorTypes
<1>7. /\ Holds(w) = {} /\ Holds(v)' = {} /\ Holds(w)' = Holds(v)
      /\ \A u \in Names \ {v, w} : Holds(u)' = Holds(u)
  <2>1. size[w] = 0 BY <1>1, VectorType
  <2>2. Holds(w) = {} BY <2>1 DEF Holds, InUse
  <2>3. Holds(v)' = {} BY <1>6 DEF Holds
  <2>4. InUse(w)' = InUse(v) BY <1>3 DEF InUse
  <2>5. Holds(w)' = Holds(v) BY <1>6, <2>4 DEF Holds
  <2>6. \A u \in Names \ {v, w} : Holds(u)' = Holds(u) BY <1>3, <1>6 DEF Holds, InUse
  <2> QED BY <2>2, <2>3, <2>5, <2>6
<1>8. OwnInv'
  <2>1. \A u \in Names : Destructible(u)' BY <1>6 DEF OwnInv, Destructible
  <2>2. \A u \in Names : owned'[u] => NoneTwice(block'[u], size'[u]) BY <1>3, <1>6 DEF OwnInv
  <2>3. \A u, x \in Names : u # x => Holds(u)' \intersect Holds(x)' = {} BY <1>1, <1>7 DEF OwnInv
  <2>4. \A u \in Names : Holds(u)' \subseteq alive' BY <1>1, <1>7 DEF OwnInv
  <2> QED BY <2>1, <2>2, <2>3, <2>4 DEF OwnInv
<1>9. LossAllowed
  <2> SUFFICES ASSUME NEW h \in Lost', h \notin Lost PROVE FALSE BY DEF LossAllowed
  <2>1. h \in alive' /\ \A u \in Names : h \notin Holds(u)' BY DEF Lost, Owned, Holds
  <2>2. h \in alive BY <1>1, <2>1
  <2>3. PICK u \in Names : h \in Holds(u) BY <2>2 DEF Lost, Owned, Holds
  <2>4. h \in Holds(w)' \/ h \in Holds(u)' BY <1>7, <2>3
  <2> QED BY <2>1, <2>4
<1> QED BY <1>5, <1>8, <1>9

LEMMA VectorInit ==
  Init => VectorInv
<1> SUFFICES ASSUME Init PROVE VectorInv OBVIOUS
<1> USE DEF Init, Zero, No
<1>1. FitsIn(<<>>, 0, 0) BY NoCells DEF FitsIn
<1>2. \A v \in Names : Fits(v) BY <1>1 DEF Fits
<1>3. VectorTypes BY <1>2, NoCells DEF VectorTypes
<1>4. \A v \in Names : Holds(v) = {} BY DEF Holds
<1>5. OwnInv BY <1>4 DEF OwnInv, Destructible
<1> QED BY <1>3, <1>5 DEF VectorInv

LEMMA VectorStep ==
  ASSUME VectorInv, Next
  PROVE  VectorInv' /\ LossAllowed
<1>1. \A n \in 0 .. MaxCap : n \in Nat OBVIOUS
<1>2. PICK v \in Names :
        \/ \E n \in 0 .. MaxCap : Create(v, n, TRUE) \/ Create(v, n, FALSE) \/ Reserve(v, n)
        \/ \E h \in Fresh : PushBack(v, h)
        \/ \E index \in 0 .. MaxCap : Erase(v, index) \/ EraseStable(v, index)
        \/ ShrinkToFit(v) \/ Clear(v) \/ Destroy(v)
        \/ \E w \in Names : Copy(v, w) \/ Move(v, w)
  BY DEF Next
<1>3. CASE \E n \in 0 .. MaxCap : Create(v, n, TRUE) \/ Create(v, n, FALSE) \/ Reserve(v, n)
  BY <1>1, <1>3, CreateStep, ReserveStep
<1>4. CASE \E h \in Fresh : PushBack(v, h) BY <1>4, PushBackStep
<1>5. CASE \E index \in 0 .. MaxCap : Erase(v, index) \/ EraseStable(v, index)
  BY <1>5, EraseStep, EraseStableStep
<1>6. CASE ShrinkToFit(v) \/ Clear(v) \/ Destroy(v)
  BY <1>6, ShrinkToFitStep, ClearStep, DestroyStep
<1>7. CASE \E w \in Names : Copy(v, w) \/ Move(v, w) BY <1>7, CopyStep, MoveStep
<1> QED BY <1>2, <1>3, <1>4, <1>5, <1>6, <1>7

LEMMA VectorKept ==
  ASSUME VectorInv, UNCHANGED vars
  PROVE  VectorInv' /\ LossAllowed
<1> USE DEF VectorInv, vars
<1>1. VectorTypes' BY DEF VectorTypes, Fits
<1>2. \A v \in Names : Holds(v)' = Holds(v) BY DEF Holds, InUse
<1>3. OwnInv' BY <1>2 DEF OwnInv, Destructible
<1>4. Lost' = Lost BY DEF Lost, Owned, InUse
<1> QED BY <1>1, <1>3, <1>4 DEF LossAllowed

\* Among n cells without repetition there are n elements.
LEMMA CountAmong ==
  ASSUME NEW n \in Nat, NEW cells, NoneTwice(cells, n)
  PROVE  Cardinality(Among(cells, n)) = n
<1> DEFINE f == [k \in 1 .. n |-> cells[k]]
           S == Among(cells, n)
<1>1. f \in [1 .. n -> S] BY DEF Among
<1>2. \A j, k \in 1 .. n : f[j] = f[k] => j = k BY DEF NoneTwice
<1>3. \A e \in S : \E k \in 1 .. n : f[k] = e BY DEF Among
<1> HIDE DEF f, S
<1>4. f \in Bijection(1 .. n, S) BY <1>1, <1>2, <1>3 DEF Bijection, Injection, Surjection, IsInjective
<1>5. ExistsBijection(1 .. n, S) BY <1>4 DEF ExistsBijection
<1> QED BY <1>5, FS_CountingElements DEF S

LEMMA OwnedOnce ==
  ASSUME VectorInv
  PROVE  DestructedOnce
<1>1. OwnInv BY DEF VectorInv
<1>2. Owned \subseteq alive BY <1>1 DEF OwnInv, Owned, Holds
<1>3. ASSUME NEW v \in Names, owned[v] PROVE Cardinality(InUse(v)) = size[v]
  <2>1. NoneTwice(block[v], size[v]) /\ size[v] \in Nat
    BY <1>1, <1>3, VectorType DEF OwnInv, VectorInv
  <2>2. InUse(v) = Among(block[v], size[v]) BY DEF InUse, Among
  <2> QED BY <2>1, <2>2, CountAmong
<1>4. ASSUME NEW v \in Names, NEW w \in Names, owned[v], owned[w], v # w
      PROVE  InUse(v) \intersect InUse(w) = {}
  <2>1. Holds(v) = InUse(v) /\ Holds(w) = InUse(w) BY <1>4 DEF Holds
  <2> QED BY <1>1, <1>4, <2>1 DEF OwnInv
<1> QED BY <1>2, <1>3, <1>4 DEF DestructedOnce

\* The two kinds of calls that touch a block: what they do to overrun.
LEMMA OverrunStep ==
  ASSUME VectorInv, Next, overrun'
  PROVE  \E v \in Names, index \in 0 .. MaxCap :
           EraseStable(v, index) /\ index < size[v] - 1 /\ capacity[v] - size[v] < 2
<1>1. ~overrun BY DEF Next
<1>2. PICK v \in Names :
        \/ \E n \in 0 .. MaxCap : Create(v, n, TRUE) \/ Create(v, n, FALSE) \/ Reserve(v, n)
        \/ \E h \in Fresh : PushBack(v, h)
        \/ \E index \in 0 .. MaxCap : Erase(v, index) \/ EraseStable(v, index)
        \/ ShrinkToFit(v) \/ Clear(v) \/ Destroy(v)
        \/ \E w \in Names : Copy(v, w) \/ Move(v, w)
  BY DEF Next
<1>3. size[v] \in Nat /\ capacity[v] \in Nat /\ size[v] <= capacity[v]
  BY VectorType DEF VectorInv
<1>4. ASSUME NEW h \in Fresh, PushBack(v, h) PROVE FALSE
  <2>1. Grown(v) \in Nat /\ size[v] + 1 <= Grown(v) BY <1>3 DEF Grown
  <2>2. ~(size[v] >= Grown(v)) BY <1>3, <2>1
  <2>3. overrun' = (overrun \/ size[v] >= Grown(v)) BY <1>4 DEF PushBack
  <2> QED BY <1>1, <2>2, <2>3, Zenon
<1>5. PICK index \in 0 .. MaxCap : EraseStable(v, index)
  BY <1>1, <1>2, <1>4
     DEF Create, Reserve, Erase, ShrinkToFit, Clear, Destroy, Copy, Move
<1>6. index < size[v] - 1 BY <1>1, <1>5 DEF EraseStable
<1>7. size[v] + 2 > capacity[v]
  <2>1. overrun' = (overrun \/ size[v] + 2 > capacity[v]) BY <1>5, <1>6 DEF EraseStable
  <2> QED BY <1>1, <2>1, Zenon
<1>8. capacity[v] - size[v] < 2 BY <1>3, <1>7
<1> QED BY <1>5, <1>6, <1>8

LEMMA AnyVectorStep ==
  ASSUME VectorInv, [AnyNext /\ UNCHANGED part]_everything
  PROVE  VectorInv' /\ [Next]_vars /\ [LossAllowed]_vars
<1>1. [Next]_vars BY DEF AnyNext, everything
<1> QED BY <1>1, VectorStep, VectorKept

(***************************************************************************)
(* The blocks, sizes and capacities of the vectors fit each other; and     *)
(* each element a vector owns is alive, in one cell of one vector.         *)
(***************************************************************************)
THEOREM ContainersVectors == AnySpec => []VectorInv
<1>1. AnyInit => VectorInv BY VectorInit DEF AnyInit
<1>2. VectorInv /\ [AnyNext /\ UNCHANGED part]_everything => VectorInv' BY AnyVectorStep
<1> QED BY <1>1, <1>2, PTL DEF AnySpec

(***************************************************************************)
(* Whatever calls came before, a call leaves the block of its vector only  *)
(* if it is uga_vec_erase_stable of an element that is not the last, in a  *)
(* vector with fewer than two cells to spare.                              *)
(***************************************************************************)
THEOREM ContainersInBlock == AnySpec => OnlyStableEraseOverruns
<1> DEFINE Body ==
      overrun' => \E v \in Names, index \in 0 .. MaxCap :
                    EraseStable(v, index) /\ index < size[v] - 1 /\ capacity[v] - size[v] < 2
<1>1. VectorInv /\ [AnyNext /\ UNCHANGED part]_everything => [Body]_vars
  BY AnyVectorStep, OverrunStep
<1> QED BY <1>1, ContainersVectors, PTL DEF AnySpec, OnlyStableEraseOverruns

(***************************************************************************)
(* No element is destructed while a vector created with a destructor has   *)
(* it, and none is in two cells: none is destructed twice, moved or not.   *)
(***************************************************************************)
THEOREM ContainersDestructed == AnySpec => []DestructedOnce
<1>1. VectorInv => DestructedOnce BY OwnedOnce
<1> QED BY <1>1, ContainersVectors, PTL

(***************************************************************************)
(* No element drops out of reach without being destructed, but from a      *)
(* vector that was the target of uga_vec_move.                             *)
(***************************************************************************)
THEOREM ContainersLost == AnySpec => LostByMoveOnly
<1>1. VectorInv /\ [AnyNext /\ UNCHANGED part]_everything
        => [\A h \in Lost' \ Lost :
              \E v \in Names : owned[v] /\ moved[v] /\ h \in InUse(v)]_vars
  BY AnyVectorStep DEF LossAllowed
<1> QED BY <1>1, ContainersVectors, PTL DEF AnySpec, LostByMoveOnly

-----------------------------------------------------------------------------
(* Chains of nodes. *)

Cap == Cardinality(Addr)

\* The addresses met when following next from h.
IsPath(f, h, cells) ==
  f = [i \in 0 .. Cap |-> IF i = 0 THEN h
                          ELSE IF f[i - 1] = Null THEN Null ELSE cells[f[i - 1]].next]

LEMMA NatSet ==
  ASSUME NEW S, 0 \in S, \A n \in Nat : n \in S => n + 1 \in S
  PROVE  Nat \subseteq S
<1> SUFFICES ASSUME Nat \ S # {} PROVE FALSE OBVIOUS
<1>1. PICK m \in Nat \ S : \A y \in Nat \ S : ~(<<y, m>> \in OpToRel(<, Nat))
  <2>1. Nat \ S \subseteq Nat OBVIOUS
  <2> QED BY <2>1, NatLessThanWellFounded, WFMin
<1>2. m # 0 /\ m - 1 \in Nat /\ m - 1 < m OBVIOUS
<1>3. <<m - 1, m>> \in OpToRel(<, Nat) BY <1>2, Zenon DEF OpToRel
<1>4. m - 1 \in S BY <1>1, <1>2, <1>3, Zenon
<1>5. (m - 1) + 1 = m OBVIOUS
<1> QED BY <1>2, <1>4, <1>5

\* The instances count as this module does.
LEMMA DlCardinality == Dl!Cardinality(Addr) = Cap
BY Zenon DEF Dl!Cardinality, Cardinality, Cap

LEMMA SlCardinality == Sl!Cardinality(Addr) = Cap
BY Zenon DEF Sl!Cardinality, Cardinality, Cap

LEMMA CapType ==
  /\ IsFiniteSet(Addr) /\ Cap \in Nat /\ Null \notin Addr
  /\ Void \notin Data /\ Failed \notin Data /\ Void # Failed
<1>1. Dl!ListConstants BY ContainersConstants
<1>2. IsFiniteSet(Addr) BY <1>1, Zenon DEF Dl!ListConstants, Dl!IsFiniteSet, IsFiniteSet
<1>3. Cap \in Nat BY <1>2, FS_CardinalityType DEF Cap
<1> QED BY <1>1, <1>2, <1>3 DEF Dl!ListConstants

\* Such a function exists.
LEMMA PathExists ==
  ASSUME NEW h, NEW cells
  PROVE  \E f : IsPath(f, h, cells)
<1> DEFINE After(x) == IF x = Null THEN Null ELSE cells[x].next
           Starts(f, n) ==
             /\ f = [i \in 0 .. n |-> f[i]] /\ f[0] = h
             /\ \A i \in 1 .. n : f[i] = After(f[i - 1])
           S == {n \in Nat : \E f : Starts(f, n)}
<1> HIDE DEF After
<1>1. 0 \in S
  <2> DEFINE g == [i \in 0 .. 0 |-> h]
  <2>1. Starts(g, 0) OBVIOUS
  <2> HIDE DEF Starts, g
  <2> QED BY <2>1
<1>2. ASSUME NEW n \in Nat, n \in S PROVE n + 1 \in S
  <2>1. PICK f : Starts(f, n) BY <1>2
  <2> DEFINE g == [i \in 0 .. n + 1 |-> IF i = n + 1 THEN After(f[n]) ELSE f[i]]
  <2>2. \A i \in 0 .. n : g[i] = f[i] OBVIOUS
  <2>3. g[n + 1] = After(f[n]) OBVIOUS
  <2>4. g = [i \in 0 .. n + 1 |-> g[i]] OBVIOUS
  <2> HIDE DEF g
  <2>5. ASSUME NEW i \in 1 .. n + 1 PROVE g[i] = After(g[i - 1])
    <3>1. CASE i = n + 1
      <4>1. i - 1 = n /\ n \in 0 .. n BY <3>1
      <4> QED BY <2>2, <2>3, <3>1, <4>1
    <3>2. CASE i # n + 1
      <4>1. i \in 1 .. n /\ i \in 0 .. n /\ i - 1 \in 0 .. n BY <3>2
      <4> QED BY <2>1, <2>2, <4>1
    <3> QED BY <3>1, <3>2
  <2>6. g[0] = h BY <2>1, <2>2
  <2>7. Starts(g, n + 1) BY <2>4, <2>5, <2>6
  <2> HIDE DEF Starts
  <2> QED BY <2>7
<1>3. Cap \in S
  <2> HIDE DEF S
  <2> QED BY <1>1, <1>2, CapType, NatSet
<1>4. PICK f : Starts(f, Cap) BY <1>3
<1> DEFINE g == [i \in 0 .. Cap |-> IF i = 0 THEN h ELSE After(f[i - 1])]
<1>5. f = g
  <2>1. f = [i \in 0 .. Cap |-> f[i]] BY <1>4
  <2>2. \A i \in 0 .. Cap : f[i] = g[i]
    <3> SUFFICES ASSUME NEW i \in 0 .. Cap PROVE f[i] = g[i] OBVIOUS
    <3>1. i = 0 \/ i \in 1 .. Cap BY CapType
    <3> QED BY <1>4, <3>1
  <2> QED BY <2>1, <2>2
<1>6. IsPath(f, h, cells) BY <1>5, Zenon DEF IsPath, After
<1> QED BY <1>6

LEMMA DlPath ==
  /\ IsPath(Dl!path, head, heap)
  /\ IsPath(Dl!path', head', heap')
<1>1. \A h, cells : \E f : IsPath(f, h, cells) BY PathExists
<1>2. (\E f : IsPath(f, head, heap)) /\ (\E f : IsPath(f, head', heap')) BY <1>1
<1> QED BY <1>2, DlCardinality, Zenon DEF Dl!path, IsPath

LEMMA SlPath ==
  /\ IsPath(Sl!path, head, heap)
  /\ IsPath(Sl!path', head', heap')
<1>1. \A h, cells : \E f : IsPath(f, h, cells) BY PathExists
<1>2. (\E f : IsPath(f, head, heap)) /\ (\E f : IsPath(f, head', heap')) BY <1>1
<1> QED BY <1>2, SlCardinality, Zenon DEF Sl!path, IsPath

\* The nodes of the list from h on are c[1] to c[n].
Chain(c, h, n, cells) ==
  /\ n \in 0 .. Cap
  /\ \A k \in 1 .. n : c[k] \in Addr
  /\ NoneTwice(c, n)
  /\ h = IF n = 0 THEN Null ELSE c[1]
  /\ \A k \in 1 .. n : cells[c[k]].next = IF k = n THEN Null ELSE c[k + 1]

\* prev undoes next.
Backed(c, n, cells) ==
  \A k \in 1 .. n : cells[c[k]].prev = IF k = 1 THEN Null ELSE c[k - 1]

\* What the list holds.
Content(c, n, cells) == [k \in 1 .. n |-> cells[c[k]].data]

LEMMA PathIs ==
  ASSUME NEW f, NEW h, NEW cells, IsPath(f, h, cells), NEW c, NEW n, Chain(c, h, n, cells)
  PROVE  /\ DOMAIN f = 0 .. Cap
         /\ \A i \in 0 .. n - 1 : f[i] = c[i + 1]
         /\ \A i \in n .. Cap : f[i] = Null
<1> DEFINE Is(i) == f[i] = IF i < n THEN c[i + 1] ELSE Null
           S == {i \in Nat : i <= Cap => Is(i)}
<1>1. n \in Nat /\ n <= Cap /\ Cap \in Nat /\ Null \notin Addr BY CapType DEF Chain
<1>2. /\ DOMAIN f = 0 .. Cap /\ f[0] = h
      /\ \A i \in 1 .. Cap :
           f[i] = IF f[i - 1] = Null THEN Null ELSE cells[f[i - 1]].next
  <2>1. DOMAIN f = 0 .. Cap BY Zenon DEF IsPath
  <2>2. \A i \in 0 .. Cap : f[i] = IF i = 0 THEN h
                                   ELSE IF f[i - 1] = Null THEN Null ELSE cells[f[i - 1]].next
    BY Zenon DEF IsPath
  <2> QED BY <1>1, <2>1, <2>2
<1>3. 0 \in S
  <2>1. Is(0) BY <1>1, <1>2 DEF Chain
  <2> QED BY <2>1
<1>4. ASSUME NEW i \in Nat, i \in S PROVE i + 1 \in S
  <2> SUFFICES ASSUME i + 1 <= Cap PROVE Is(i + 1) OBVIOUS
  <2>1. Is(i) /\ i + 1 \in 1 .. Cap BY <1>1, <1>4
  <2>2. f[i + 1] = IF f[i] = Null THEN Null ELSE cells[f[i]].next BY <1>2, <2>1
  <2>3. CASE i < n
    <3>1. i + 1 \in 1 .. n BY <1>1, <2>3
    <3>2. f[i] = c[i + 1] /\ c[i + 1] \in Addr BY <2>1, <2>3, <3>1 DEF Chain
    <3>3. cells[c[i + 1]].next = IF i + 1 = n THEN Null ELSE c[i + 2] BY <3>1 DEF Chain
    <3> QED BY <1>1, <2>2, <2>3, <3>2, <3>3
  <2>4. CASE ~(i < n) BY <1>1, <2>1, <2>2, <2>4
  <2> QED BY <2>3, <2>4
<1> HIDE DEF Is
<1>5. \A i \in Nat : i \in S
  <2> HIDE DEF S
  <2> QED BY <1>3, <1>4, NatSet
<1>6. \A i \in 0 .. Cap : Is(i) BY <1>1, <1>5
<1> QED BY <1>1, <1>2, <1>6 DEF Is

LEMMA LastOfChain ==
  ASSUME NEW f, NEW h, NEW cells, IsPath(f, h, cells), NEW c, NEW n, Chain(c, h, n, cells),
         n > 0
  PROVE  f[CHOOSE i \in DOMAIN f : f[i] # Null /\ cells[f[i]].next = Null] = c[n]
<1> DEFINE P(i) == i \in DOMAIN f /\ f[i] # Null /\ cells[f[i]].next = Null
<1>1. n \in Nat /\ n <= Cap /\ Cap \in Nat /\ Null \notin Addr BY CapType DEF Chain
<1>2. /\ DOMAIN f = 0 .. Cap /\ \A i \in 0 .. n - 1 : f[i] = c[i + 1]
      /\ \A i \in n .. Cap : f[i] = Null
  BY PathIs
<1>3. n \in 1 .. n /\ c[n] \in Addr /\ cells[c[n]].next = Null BY <1>1 DEF Chain
<1>4. P(n - 1) BY <1>1, <1>2, <1>3
<1>5. ASSUME NEW i, P(i) PROVE f[i] = c[n]
  <2>1. i \in 0 .. Cap /\ ~(i \in n .. Cap) BY <1>2, <1>5
  <2>2. i \in 0 .. n - 1 /\ i + 1 \in 1 .. n BY <1>1, <2>1
  <2>3. f[i] = c[i + 1] BY <1>2, <2>2
  <2>4. i + 1 # n => cells[c[i + 1]].next = c[i + 2] /\ c[i + 2] \in Addr
    BY <1>1, <2>2 DEF Chain
  <2>5. i + 1 = n BY <1>1, <1>5, <2>3, <2>4
  <2> QED BY <2>3, <2>5
<1>6. P(CHOOSE i : P(i))
  <2> HIDE DEF P
  <2> QED BY <1>4, Zenon
<1> QED BY <1>5, <1>6, Zenon

LEMMA LastButOneOfChain ==
  ASSUME NEW f, NEW h, NEW cells, IsPath(f, h, cells), NEW c, NEW n, Chain(c, h, n, cells),
         n > 1
  PROVE  f[CHOOSE i \in DOMAIN f :
             f[i] # Null /\ cells[f[i]].next # Null /\ cells[cells[f[i]].next].next = Null]
           = c[n - 1]
<1> DEFINE P(i) == /\ i \in DOMAIN f
                   /\ f[i] # Null /\ cells[f[i]].next # Null
                   /\ cells[cells[f[i]].next].next = Null
<1>1. n \in Nat /\ n <= Cap /\ Cap \in Nat /\ Null \notin Addr BY CapType DEF Chain
<1>2. /\ DOMAIN f = 0 .. Cap /\ \A i \in 0 .. n - 1 : f[i] = c[i + 1]
      /\ \A i \in n .. Cap : f[i] = Null
  BY PathIs
<1>3. /\ \A k \in 1 .. n : c[k] \in Addr
      /\ \A k \in 1 .. n : cells[c[k]].next = IF k = n THEN Null ELSE c[k + 1]
  BY DEF Chain
<1>4. P(n - 2)
  <2>1. /\ n - 2 \in 0 .. n - 1 /\ n - 2 \in 0 .. Cap /\ n - 1 \in 1 .. n /\ n \in 1 .. n
        /\ n - 1 # n /\ (n - 1) + 1 = n /\ (n - 2) + 1 = n - 1
    BY <1>1
  <2> QED BY <1>1, <1>2, <1>3, <2>1
<1>5. ASSUME NEW i, P(i) PROVE f[i] = c[n - 1]
  <2>1. i \in 0 .. Cap /\ ~(i \in n .. Cap) BY <1>2, <1>5
  <2>2. i \in 0 .. n - 1 /\ i + 1 \in 1 .. n BY <1>1, <2>1
  <2>3. f[i] = c[i + 1] BY <1>2, <2>2
  <2>4. i + 1 # n BY <1>3, <1>5, <2>2, <2>3
  <2>5. i + 2 \in 1 .. n /\ (i + 1) + 1 = i + 2 BY <1>1, <2>2, <2>4
  <2>6. cells[f[i]].next = c[i + 2] BY <1>3, <2>2, <2>3, <2>4, <2>5
  <2>7. i + 2 # n => c[(i + 2) + 1] = Null /\ (i + 2) + 1 \in 1 .. n
    BY <1>1, <1>3, <1>5, <2>5, <2>6
  <2>8. i + 2 = n BY <1>1, <1>3, <2>7
  <2>9. i + 1 = n - 1 BY <1>1, <2>2, <2>8
  <2> QED BY <2>3, <2>9
<1>6. P(CHOOSE i : P(i))
  <2> HIDE DEF P
  <2> QED BY <1>4, Zenon
<1> QED BY <1>5, <1>6, Zenon

\* c with a as its j-th node, and c without its j-th node.
With(c, n, j, a) ==
  [k \in 1 .. n + 1 |-> IF k < j THEN c[k] ELSE IF k = j THEN a ELSE c[k - 1]]

Less(c, n, j) == [k \in 1 .. n - 1 |-> IF k < j THEN c[k] ELSE c[k + 1]]

\* a, holding d, is linked in as the j-th node: the head becomes h2, the heap cells2.
LinkedIn(c, h, n, cells, j, a, d, h2, cells2) ==
  /\ cells2[a].next = IF j = n + 1 THEN Null ELSE c[j]
  /\ cells2[a].data = d
  /\ h2 = IF j = 1 THEN a ELSE h
  /\ j > 1 => cells2[c[j - 1]].next = a
  /\ \A k \in 1 .. n : k # j - 1 => cells2[c[k]].next = cells[c[k]].next
  /\ \A k \in 1 .. n : cells2[c[k]].data = cells[c[k]].data

BackedIn(c, n, cells, j, a, cells2) ==
  /\ cells2[a].prev = IF j = 1 THEN Null ELSE c[j - 1]
  /\ j <= n => cells2[c[j]].prev = a
  /\ \A k \in 1 .. n : k # j => cells2[c[k]].prev = cells[c[k]].prev

\* The j-th node is linked out.
LinkedOut(c, h, n, cells, j, h2, cells2) ==
  /\ h2 = IF j > 1 THEN h ELSE IF n = 1 THEN Null ELSE c[2]
  /\ j > 1 => cells2[c[j - 1]].next = IF j = n THEN Null ELSE c[j + 1]
  /\ \A k \in 1 .. n : k # j /\ k # j - 1 => cells2[c[k]].next = cells[c[k]].next
  /\ \A k \in 1 .. n : k # j => cells2[c[k]].data = cells[c[k]].data

BackedOut(c, n, cells, j, cells2) ==
  /\ j < n => cells2[c[j + 1]].prev = IF j = 1 THEN Null ELSE c[j - 1]
  /\ \A k \in 1 .. n : k # j /\ k # j + 1 => cells2[c[k]].prev = cells[c[k]].prev

LEMMA NodeIn ==
  ASSUME NEW c, NEW h, NEW n, NEW cells, Chain(c, h, n, cells), n < Cap,
         NEW j \in 1 .. n + 1, NEW a \in Addr, a \notin Among(c, n), NEW d, NEW h2, NEW cells2,
         LinkedIn(c, h, n, cells, j, a, d, h2, cells2)
  PROVE  /\ Chain(With(c, n, j, a), h2, n + 1, cells2)
         /\ Among(With(c, n, j, a), n + 1) = Among(c, n) \union {a}
         /\ Content(With(c, n, j, a), n + 1, cells2)
              = [k \in 1 .. n + 1 |->
                   IF k < j THEN Content(c, n, cells)[k]
                   ELSE IF k = j THEN d ELSE Content(c, n, cells)[k - 1]]
<1> DEFINE e == With(c, n, j, a)
<1>1. /\ n \in Nat /\ Cap \in Nat /\ j \in Nat /\ \A k \in 1 .. n : c[k] \in Addr
      /\ \A k \in 1 .. n : c[k] # a
  BY CapType DEF Chain, Among
<1>2. \A k \in 1 .. n + 1 : e[k] = IF k < j THEN c[k] ELSE IF k = j THEN a ELSE c[k - 1]
  BY DEF With
<1> HIDE DEF e
<1>3. \A k \in 1 .. n + 1 : (k < j => k \in 1 .. n) /\ (k > j => k - 1 \in 1 .. n)
  BY <1>1
<1>4. n + 1 \in 0 .. Cap BY <1>1
<1>5. \A k \in 1 .. n + 1 : e[k] \in Addr BY <1>1, <1>2, <1>3
<1>6. NoneTwice(e, n + 1)
  <2> SUFFICES ASSUME NEW i \in 1 .. n + 1, NEW k \in 1 .. n + 1, e[i] = e[k]
               PROVE  i = k
    BY DEF NoneTwice
  <2>1. \A l, m \in 1 .. n : c[l] = c[m] => l = m BY DEF Chain, NoneTwice
  <2>2. CASE i = j BY <1>1, <1>2, <1>3, <2>2
  <2>3. CASE k = j BY <1>1, <1>2, <1>3, <2>3
  <2>4. CASE i # j /\ k # j
    <3>1. /\ e[i] = c[IF i < j THEN i ELSE i - 1] /\ e[k] = c[IF k < j THEN k ELSE k - 1]
          /\ (IF i < j THEN i ELSE i - 1) \in 1 .. n
          /\ (IF k < j THEN k ELSE k - 1) \in 1 .. n
      BY <1>1, <1>2, <1>3, <2>4
    <3>2. (IF i < j THEN i ELSE i - 1) = (IF k < j THEN k ELSE k - 1) BY <2>1, <3>1
    <3> QED BY <1>1, <2>4, <3>2
  <2> QED BY <2>2, <2>3, <2>4
<1>7. h2 = IF n + 1 = 0 THEN Null ELSE e[1]
  <2>1. n + 1 # 0 /\ 1 \in 1 .. n + 1 BY <1>1
  <2>2. j # 1 => n # 0 /\ 1 < j BY <1>1
  <2> QED BY <1>2, <2>1, <2>2 DEF LinkedIn, Chain
<1>8. ASSUME NEW k \in 1 .. n + 1
      PROVE  cells2[e[k]].next = IF k = n + 1 THEN Null ELSE e[k + 1]
  <2>1. /\ \A i \in 1 .. n : cells[c[i]].next = IF i = n THEN Null ELSE c[i + 1]
        /\ \A i \in 1 .. n : i # j - 1 => cells2[c[i]].next = cells[c[i]].next
    BY DEF Chain, LinkedIn
  <2>2. CASE k < j - 1
    <3>1. k \in 1 .. n /\ k + 1 \in 1 .. n + 1 /\ k + 1 < j /\ k < j /\ k # n /\ k # n + 1
      BY <1>1, <2>2
    <3> QED BY <1>2, <2>1, <2>2, <3>1
  <2>3. CASE k = j - 1
    <3>1. k + 1 = j /\ k < j /\ j > 1 /\ k # n + 1 /\ j \in 1 .. n + 1 BY <1>1, <2>3
    <3> QED BY <1>2, <2>3, <3>1 DEF LinkedIn
  <2>4. CASE k = j
    <3>1. CASE k = n + 1 BY <1>2, <2>4, <3>1 DEF LinkedIn
    <3>2. CASE k # n + 1
      <4>1. k + 1 \in 1 .. n + 1 /\ ~(k + 1 < j) /\ k + 1 # j /\ (k + 1) - 1 = k
        BY <1>1, <2>4, <3>2
      <4> QED BY <1>2, <2>4, <3>2, <4>1 DEF LinkedIn
    <3> QED BY <3>1, <3>2
  <2>5. CASE k > j
    <3>1. /\ k - 1 \in 1 .. n /\ k - 1 # j - 1 /\ ~(k < j) /\ k # j /\ (k - 1) + 1 = k
          /\ k - 1 = n <=> k = n + 1
      BY <1>1, <2>5
    <3>2. e[k] = c[k - 1] BY <1>2, <3>1
    <3>3. k # n + 1 => e[k + 1] = c[k]
      <4> SUFFICES ASSUME k # n + 1 PROVE e[k + 1] = c[k] OBVIOUS
      <4>1. k + 1 \in 1 .. n + 1 /\ ~(k + 1 < j) /\ k + 1 # j /\ (k + 1) - 1 = k BY <1>1, <2>5
      <4> QED BY <1>2, <4>1
    <3> QED BY <2>1, <3>1, <3>2, <3>3
  <2> QED BY <1>1, <2>2, <2>3, <2>4, <2>5
<1>9. Chain(e, h2, n + 1, cells2) BY <1>4, <1>5, <1>6, <1>7, <1>8 DEF Chain
<1>10. Among(e, n + 1) = Among(c, n) \union {a}
  <2>1. ASSUME NEW x \in Among(e, n + 1) PROVE x \in Among(c, n) \union {a}
    BY <1>2, <1>3, <2>1, <1>1 DEF Among
  <2>2. a \in Among(e, n + 1) BY <1>2, <1>1 DEF Among
  <2>3. ASSUME NEW k \in 1 .. n PROVE c[k] \in Among(e, n + 1)
    <3>1. CASE k < j
      <4>1. k \in 1 .. n + 1 BY <1>1
      <4> QED BY <1>2, <3>1, <4>1 DEF Among
    <3>2. CASE ~(k < j)
      <4>1. k + 1 \in 1 .. n + 1 /\ ~(k + 1 < j) /\ k + 1 # j /\ (k + 1) - 1 = k BY <1>1, <3>2
      <4>2. e[k + 1] = c[k] BY <1>2, <4>1
      <4> QED BY <4>1, <4>2 DEF Among
    <3> QED BY <3>1, <3>2
  <2> QED BY <2>1, <2>2, <2>3 DEF Among
<1>11. Content(e, n + 1, cells2)
         = [k \in 1 .. n + 1 |->
              IF k < j THEN Content(c, n, cells)[k]
              ELSE IF k = j THEN d ELSE Content(c, n, cells)[k - 1]]
  <2>1. /\ \A k \in 1 .. n : Content(c, n, cells)[k] = cells2[c[k]].data
        /\ cells2[a].data = d
    BY DEF Content, LinkedIn
  <2>2. \A k \in 1 .. n + 1 :
          cells2[e[k]].data = IF k < j THEN Content(c, n, cells)[k]
                              ELSE IF k = j THEN d ELSE Content(c, n, cells)[k - 1]
    BY <1>1, <1>2, <1>3, <2>1
  <2> QED BY <2>2 DEF Content
<1> QED BY <1>9, <1>10, <1>11 DEF e

LEMMA BackIn ==
  ASSUME NEW c, NEW h, NEW n, NEW cells, Chain(c, h, n, cells), Backed(c, n, cells),
         NEW j \in 1 .. n + 1, NEW a, NEW cells2, BackedIn(c, n, cells, j, a, cells2)
  PROVE  Backed(With(c, n, j, a), n + 1, cells2)
<1> DEFINE e == With(c, n, j, a)
<1>1. n \in Nat /\ j \in Nat BY DEF Chain
<1>2. \A k \in 1 .. n + 1 : e[k] = IF k < j THEN c[k] ELSE IF k = j THEN a ELSE c[k - 1]
  BY DEF With
<1> HIDE DEF e
<1>3. ASSUME NEW k \in 1 .. n + 1
      PROVE  cells2[e[k]].prev = IF k = 1 THEN Null ELSE e[k - 1]
  <2>1. /\ \A i \in 1 .. n : cells[c[i]].prev = IF i = 1 THEN Null ELSE c[i - 1]
        /\ \A i \in 1 .. n : i # j => cells2[c[i]].prev = cells[c[i]].prev
    BY DEF Backed, BackedIn
  <2>2. k # 1 => k - 1 \in 1 .. n + 1 BY <1>1
  <2>3. CASE k < j
    <3>1. k \in 1 .. n /\ k # j BY <1>1, <2>3
    <3>2. k # 1 => e[k - 1] = c[k - 1] BY <1>1, <1>2, <2>2, <2>3
    <3> QED BY <1>2, <2>1, <2>3, <3>1, <3>2
  <2>4. CASE k = j
    <3>1. k # 1 => e[k - 1] = c[k - 1] BY <1>1, <1>2, <2>2, <2>4
    <3> QED BY <1>1, <1>2, <2>4, <3>1 DEF BackedIn
  <2>5. CASE k = j + 1
    <3>1. e[k] = c[j] /\ e[k - 1] = a /\ j <= n /\ k # 1 BY <1>1, <1>2, <2>5
    <3> QED BY <3>1 DEF BackedIn
  <2>6. CASE k > j + 1
    <3>1. e[k] = c[k - 1] /\ e[k - 1] = c[k - 2] BY <1>1, <1>2, <2>2, <2>6
    <3>2. k - 1 \in 1 .. n /\ k - 1 # j /\ k - 1 # 1 /\ (k - 1) - 1 = k - 2 /\ k # 1
      BY <1>1, <2>6
    <3> QED BY <2>1, <3>1, <3>2
  <2> QED BY <1>1, <2>3, <2>4, <2>5, <2>6
<1> QED BY <1>3 DEF Backed, e

LEMMA NodeOut ==
  ASSUME NEW c, NEW h, NEW n, NEW cells, Chain(c, h, n, cells),
         NEW j \in 1 .. n, NEW h2, NEW cells2, LinkedOut(c, h, n, cells, j, h2, cells2)
  PROVE  /\ Chain(Less(c, n, j), h2, n - 1, cells2)
         /\ Among(Less(c, n, j), n - 1) = Among(c, n) \ {c[j]}
         /\ Content(Less(c, n, j), n - 1, cells2)
              = [k \in 1 .. n - 1 |->
                   IF k < j THEN Content(c, n, cells)[k] ELSE Content(c, n, cells)[k + 1]]
<1> DEFINE e == Less(c, n, j)
<1>1. /\ n \in Nat /\ Cap \in Nat /\ j \in Nat /\ 1 <= j /\ j <= n
      /\ \A k \in 1 .. n : c[k] \in Addr
  BY CapType DEF Chain
<1>2. \A k \in 1 .. n - 1 : e[k] = IF k < j THEN c[k] ELSE c[k + 1] BY DEF Less
<1> HIDE DEF e
<1>3. \A k \in 1 .. n - 1 : k \in 1 .. n /\ k + 1 \in 1 .. n BY <1>1
<1>4. n - 1 \in 0 .. Cap BY <1>1 DEF Chain
<1>5. \A k \in 1 .. n - 1 : e[k] \in Addr BY <1>1, <1>2, <1>3
<1>6. NoneTwice(e, n - 1)
  <2> SUFFICES ASSUME NEW i \in 1 .. n - 1, NEW k \in 1 .. n - 1, e[i] = e[k]
               PROVE  i = k
    BY DEF NoneTwice
  <2>1. \A l, m \in 1 .. n : c[l] = c[m] => l = m BY DEF Chain, NoneTwice
  <2>2. /\ e[i] = c[IF i < j THEN i ELSE i + 1] /\ e[k] = c[IF k < j THEN k ELSE k + 1]
        /\ (IF i < j THEN i ELSE i + 1) \in 1 .. n
        /\ (IF k < j THEN k ELSE k + 1) \in 1 .. n
    BY <1>2, <1>3
  <2>3. (IF i < j THEN i ELSE i + 1) = (IF k < j THEN k ELSE k + 1) BY <2>1, <2>2
  <2> QED BY <1>1, <2>3
<1>7. h2 = IF n - 1 = 0 THEN Null ELSE e[1]
  <2>1. CASE j > 1
    <3>1. n - 1 # 0 /\ 1 \in 1 .. n - 1 /\ n # 0 BY <1>1, <2>1
    <3> QED BY <1>2, <2>1, <3>1 DEF LinkedOut, Chain
  <2>2. CASE j = 1
    <3>1. CASE n = 1 BY <2>2, <3>1 DEF LinkedOut
    <3>2. CASE n # 1
      <4>1. n - 1 # 0 /\ 1 \in 1 .. n - 1 BY <1>1, <3>2
      <4>2. e[1] = c[2] BY <1>2, <2>2, <4>1
      <4> QED BY <2>2, <3>2, <4>1, <4>2 DEF LinkedOut
    <3> QED BY <3>1, <3>2
  <2> QED BY <1>1, <2>1, <2>2
<1>8. ASSUME NEW k \in 1 .. n - 1
      PROVE  cells2[e[k]].next = IF k = n - 1 THEN Null ELSE e[k + 1]
  <2>1. /\ \A i \in 1 .. n : cells[c[i]].next = IF i = n THEN Null ELSE c[i + 1]
        /\ \A i \in 1 .. n : i # j /\ i # j - 1 => cells2[c[i]].next = cells[c[i]].next
    BY DEF Chain, LinkedOut
  <2>2. k # n - 1 => k + 1 \in 1 .. n - 1 BY <1>1
  <2>3. CASE k < j - 1
    <3>1. k \in 1 .. n /\ k # j /\ k # j - 1 /\ k < j /\ k + 1 < j /\ k # n /\ k # n - 1
      BY <1>1, <2>3
    <3> QED BY <1>2, <2>1, <2>2, <3>1
  <2>4. CASE k = j - 1
    <3>1. k < j /\ j > 1 /\ ~(k + 1 < j) /\ (k + 1) + 1 = j + 1 /\ (k = n - 1 <=> j = n)
      BY <1>1, <2>4
    <3>2. k # n - 1 => e[k + 1] = c[j + 1] BY <1>2, <2>2, <3>1
    <3>3. e[k] = c[j - 1] BY <1>2, <2>4, <3>1
    <3> QED BY <3>1, <3>2, <3>3 DEF LinkedOut
  <2>5. CASE k >= j
    <3>1. /\ k + 1 \in 1 .. n /\ k + 1 # j /\ k + 1 # j - 1 /\ ~(k < j) /\ ~(k + 1 < j)
          /\ (k + 1 = n <=> k = n - 1)
      BY <1>1, <2>5
    <3>2. e[k] = c[k + 1] /\ (k # n - 1 => e[k + 1] = c[(k + 1) + 1]) BY <1>2, <2>2, <3>1
    <3> QED BY <2>1, <3>1, <3>2
  <2> QED BY <1>1, <2>3, <2>4, <2>5
<1>9. Chain(e, h2, n - 1, cells2) BY <1>4, <1>5, <1>6, <1>7, <1>8 DEF Chain
<1>10. Among(e, n - 1) = Among(c, n) \ {c[j]}
  <2>1. NoneTwice(c, n) BY DEF Chain
  <2>2. ASSUME NEW k \in 1 .. n - 1 PROVE \E i \in 1 .. n : i # j /\ e[k] = c[i]
    <3>1. CASE k < j BY <1>2, <1>3, <3>1
    <3>2. CASE ~(k < j)
      <4>1. k + 1 # j BY <1>1, <3>2
      <4> QED BY <1>2, <1>3, <3>2, <4>1
    <3> QED BY <3>1, <3>2
  <2>3. ASSUME NEW i \in 1 .. n, i # j PROVE \E k \in 1 .. n - 1 : e[k] = c[i]
    <3>1. CASE i < j
      <4>1. i \in 1 .. n - 1 BY <1>1, <3>1
      <4> QED BY <1>2, <3>1, <4>1
    <3>2. CASE ~(i < j)
      <4>1. i - 1 \in 1 .. n - 1 /\ ~(i - 1 < j) /\ (i - 1) + 1 = i BY <1>1, <2>3, <3>2
      <4> QED BY <1>2, <4>1
    <3> QED BY <3>1, <3>2
  <2>4. Without(c, n, j, e) BY <2>2, <2>3 DEF Without
  <2> QED BY <1>1, <2>1, <2>4, ElementGone
<1>11. Content(e, n - 1, cells2)
         = [k \in 1 .. n - 1 |->
              IF k < j THEN Content(c, n, cells)[k] ELSE Content(c, n, cells)[k + 1]]
  <2>1. /\ \A k \in 1 .. n : k # j => Content(c, n, cells)[k] = cells2[c[k]].data
    BY DEF Content, LinkedOut
  <2>2. ASSUME NEW k \in 1 .. n - 1
        PROVE  cells2[e[k]].data = IF k < j THEN Content(c, n, cells)[k]
                                   ELSE Content(c, n, cells)[k + 1]
    <3>1. k < j => k # j BY <1>1
    <3>2. ~(k < j) => k + 1 # j BY <1>1
    <3> QED BY <1>2, <1>3, <2>1, <3>1, <3>2
  <2> QED BY <2>2 DEF Content
<1> QED BY <1>9, <1>10, <1>11 DEF e

LEMMA BackOut ==
  ASSUME NEW c, NEW h, NEW n, NEW cells, Chain(c, h, n, cells), Backed(c, n, cells),
         NEW j \in 1 .. n, NEW cells2, BackedOut(c, n, cells, j, cells2)
  PROVE  Backed(Less(c, n, j), n - 1, cells2)
<1> DEFINE e == Less(c, n, j)
<1>1. n \in Nat /\ j \in Nat /\ 1 <= j /\ j <= n BY DEF Chain
<1>2. \A k \in 1 .. n - 1 : e[k] = IF k < j THEN c[k] ELSE c[k + 1] BY DEF Less
<1> HIDE DEF e
<1>3. ASSUME NEW k \in 1 .. n - 1
      PROVE  cells2[e[k]].prev = IF k = 1 THEN Null ELSE e[k - 1]
  <2>1. /\ \A i \in 1 .. n : cells[c[i]].prev = IF i = 1 THEN Null ELSE c[i - 1]
        /\ \A i \in 1 .. n : i # j /\ i # j + 1 => cells2[c[i]].prev = cells[c[i]].prev
    BY DEF Backed, BackedOut
  <2>2. k # 1 => k - 1 \in 1 .. n - 1 BY <1>1
  <2>3. CASE k < j
    <3>1. k \in 1 .. n /\ k # j /\ k # j + 1 BY <1>1, <2>3
    <3>2. k # 1 => e[k - 1] = c[k - 1] BY <1>1, <1>2, <2>2, <2>3
    <3> QED BY <1>2, <2>1, <2>3, <3>1, <3>2
  <2>4. CASE k = j
    <3>1. e[k] = c[j + 1] /\ j < n BY <1>1, <1>2, <2>4
    <3>2. k # 1 => e[k - 1] = c[j - 1] BY <1>1, <1>2, <2>2, <2>4
    <3> QED BY <2>4, <3>1, <3>2 DEF BackedOut
  <2>5. CASE k > j
    <3>1. k + 1 \in 1 .. n /\ k + 1 # j /\ k + 1 # j + 1 /\ k + 1 # 1 /\ k # 1 /\ ~(k < j)
      BY <1>1, <2>5
    <3>2. ~(k - 1 < j) /\ (k - 1) + 1 = k /\ (k + 1) - 1 = k BY <1>1, <2>5
    <3>3. e[k] = c[k + 1] /\ e[k - 1] = c[k] BY <1>2, <2>2, <3>1, <3>2
    <3> QED BY <2>1, <3>1, <3>2, <3>3
  <2> QED BY <1>1, <2>3, <2>4, <2>5
<1> QED BY <1>3 DEF Backed, e

\* A function on 1 .. n is the sequence of its values.
LEMMA ContentSeq ==
  ASSUME NEW c, NEW n \in Nat, NEW cells
  PROVE  /\ Len(Content(c, n, cells)) = n
         /\ DOMAIN Content(c, n, cells) = 1 .. n
         /\ n = 0 => Content(c, n, cells) = <<>>
BY DEF Content

\* What ListSpec's InsertAt and RemoveAt stand for.
LEMMA Spliced ==
  ASSUME NEW S, NEW s \in Seq(S), NEW j \in 1 .. Len(s) + 1, NEW d \in S
  PROVE  SubSeq(s, 1, j - 1) \o <<d>> \o SubSeq(s, j, Len(s))
           = [k \in 1 .. Len(s) + 1 |->
                IF k < j THEN s[k] ELSE IF k = j THEN d ELSE s[k - 1]]
<1> DEFINE n == Len(s)
           left  == SubSeq(s, 1, j - 1)
           right == SubSeq(s, j, n)
           both  == left \o <<d>>
           all   == both \o right
           t     == [k \in 1 .. n + 1 |-> IF k < j THEN s[k] ELSE IF k = j THEN d ELSE s[k - 1]]
<1>1. n \in Nat /\ \A k \in 1 .. n : s[k] \in S OBVIOUS
<1>2. /\ left \in Seq(S) /\ Len(left) = j - 1
      /\ \A k \in 1 .. j - 1 : left[k] = s[k]
  <2>1. \A k \in 1 .. j - 1 : s[k] \in S BY <1>1
  <2>2. /\ left \in Seq(S) /\ Len(left) = IF 1 <= j - 1 THEN (j - 1) - 1 + 1 ELSE 0
        /\ \A k \in 1 .. (j - 1) - 1 + 1 : left[k] = s[1 + k - 1]
    BY <2>1, SubSeqProperties
  <2> HIDE DEF left
  <2> QED BY <1>1, <2>2
<1>3. /\ right \in Seq(S) /\ Len(right) = n + 1 - j
      /\ \A k \in 1 .. n + 1 - j : right[k] = s[j + k - 1]
  <2>1. \A k \in j .. n : s[k] \in S BY <1>1
  <2>2. /\ right \in Seq(S) /\ Len(right) = IF j <= n THEN n - j + 1 ELSE 0
        /\ \A k \in 1 .. n - j + 1 : right[k] = s[j + k - 1]
    BY <1>1, <2>1, SubSeqProperties
  <2> HIDE DEF right
  <2> QED BY <1>1, <2>2
<1> HIDE DEF left, right
<1>4. <<d>> \in Seq(S) /\ Len(<<d>>) = 1 /\ <<d>>[1] = d OBVIOUS
<1>5. /\ both \in Seq(S) /\ Len(both) = j
      /\ \A k \in 1 .. j - 1 : both[k] = s[k]
      /\ both[j] = d
  <2>1. /\ both \in Seq(S) /\ Len(both) = Len(left) + Len(<<d>>)
        /\ \A k \in 1 .. Len(left) + Len(<<d>>) :
             both[k] = IF k <= Len(left) THEN left[k] ELSE <<d>>[k - Len(left)]
    BY <1>2, <1>4, ConcatProperties
  <2> HIDE DEF both
  <2>2. j \in Nat /\ Len(left) + Len(<<d>>) = j /\ j - Len(left) = 1 BY <1>1, <1>2, <1>4
  <2>3. both[j] = <<d>>[1] BY <1>1, <1>2, <2>1, <2>2
  <2>4. ASSUME NEW k \in 1 .. j - 1 PROVE both[k] = s[k]
    <3>1. k \in 1 .. Len(left) + Len(<<d>>) /\ k <= Len(left) BY <1>2, <1>4
    <3> QED BY <1>2, <2>1, <3>1
  <2> QED BY <2>1, <2>2, <2>3, <2>4
<1> HIDE DEF both
<1>6. /\ all \in Seq(S) /\ Len(all) = n + 1
      /\ \A k \in 1 .. n + 1 : all[k] = IF k <= j THEN both[k] ELSE right[k - j]
  <2>1. /\ all \in Seq(S) /\ Len(all) = Len(both) + Len(right)
        /\ \A k \in 1 .. Len(both) + Len(right) :
             all[k] = IF k <= Len(both) THEN both[k] ELSE right[k - Len(both)]
    BY <1>3, <1>5, ConcatProperties
  <2> HIDE DEF all
  <2> QED BY <1>1, <1>3, <1>5, <2>1
<1> HIDE DEF all
<1>7. all = [k \in 1 .. n + 1 |-> all[k]]
  <2>1. all \in [1 .. n + 1 -> S] BY <1>6
  <2> QED BY <2>1
<1>8. ASSUME NEW k \in 1 .. n + 1
      PROVE  all[k] = IF k < j THEN s[k] ELSE IF k = j THEN d ELSE s[k - 1]
  <2>1. CASE k <= j BY <1>1, <1>5, <1>6, <2>1
  <2>2. CASE ~(k <= j)
    <3>1. k - j \in 1 .. n + 1 - j /\ j + (k - j) - 1 = k - 1 /\ ~(k < j) /\ k # j
      BY <1>1, <2>2
    <3> QED BY <1>3, <1>6, <2>2, <3>1
  <2> QED BY <2>1, <2>2
<1>9. all = t
  <2> HIDE DEF n
  <2> QED BY <1>7, <1>8
<1> QED BY <1>9 DEF all, both, left, right

LEMMA Cut ==
  ASSUME NEW S, NEW s \in Seq(S), NEW j \in 1 .. Len(s)
  PROVE  SubSeq(s, 1, j - 1) \o SubSeq(s, j + 1, Len(s))
           = [k \in 1 .. Len(s) - 1 |-> IF k < j THEN s[k] ELSE s[k + 1]]
<1> DEFINE n == Len(s)
           left  == SubSeq(s, 1, j - 1)
           right == SubSeq(s, j + 1, n)
           all   == left \o right
           t     == [k \in 1 .. n - 1 |-> IF k < j THEN s[k] ELSE s[k + 1]]
<1>1. n \in Nat /\ \A k \in 1 .. n : s[k] \in S OBVIOUS
<1>2. /\ left \in Seq(S) /\ Len(left) = j - 1
      /\ \A k \in 1 .. j - 1 : left[k] = s[k]
  <2>1. \A k \in 1 .. j - 1 : s[k] \in S BY <1>1
  <2>2. /\ left \in Seq(S) /\ Len(left) = IF 1 <= j - 1 THEN (j - 1) - 1 + 1 ELSE 0
        /\ \A k \in 1 .. (j - 1) - 1 + 1 : left[k] = s[1 + k - 1]
    BY <2>1, SubSeqProperties
  <2> HIDE DEF left
  <2> QED BY <1>1, <2>2
<1>3. /\ right \in Seq(S) /\ Len(right) = n - j
      /\ \A k \in 1 .. n - j : right[k] = s[j + k]
  <2>1. \A k \in j + 1 .. n : s[k] \in S BY <1>1
  <2>2. /\ right \in Seq(S) /\ Len(right) = IF j + 1 <= n THEN n - (j + 1) + 1 ELSE 0
        /\ \A k \in 1 .. n - (j + 1) + 1 : right[k] = s[(j + 1) + k - 1]
    BY <1>1, <2>1, SubSeqProperties
  <2> HIDE DEF right
  <2>3. n - (j + 1) + 1 = n - j BY <1>1
  <2>4. ASSUME NEW k \in 1 .. n - j PROVE right[k] = s[j + k]
    <3>1. (j + 1) + k - 1 = j + k BY <1>1
    <3> QED BY <2>2, <2>3, <3>1
  <2>5. Len(right) = n - j BY <1>1, <2>2
  <2> QED BY <2>2, <2>4, <2>5
<1> HIDE DEF left, right
<1>4. /\ all \in Seq(S) /\ Len(all) = n - 1
      /\ \A k \in 1 .. n - 1 : all[k] = IF k < j THEN left[k] ELSE right[k - (j - 1)]
  <2>1. /\ all \in Seq(S) /\ Len(all) = Len(left) + Len(right)
        /\ \A k \in 1 .. Len(left) + Len(right) :
             all[k] = IF k <= Len(left) THEN left[k] ELSE right[k - Len(left)]
    BY <1>2, <1>3, ConcatProperties
  <2> HIDE DEF all
  <2>2. Len(left) + Len(right) = n - 1 BY <1>1, <1>2, <1>3
  <2>3. ASSUME NEW k \in 1 .. n - 1
        PROVE  all[k] = IF k < j THEN left[k] ELSE right[k - (j - 1)]
    <3>1. k \in 1 .. Len(left) + Len(right) /\ (k < j <=> k <= Len(left))
      BY <1>1, <1>2, <2>2
    <3> QED BY <1>2, <2>1, <3>1
  <2> QED BY <2>1, <2>2, <2>3
<1> HIDE DEF all
<1>5. all = [k \in 1 .. n - 1 |-> all[k]]
  <2>1. all \in [1 .. n - 1 -> S] BY <1>4
  <2> QED BY <2>1
<1>6. ASSUME NEW k \in 1 .. n - 1 PROVE all[k] = IF k < j THEN s[k] ELSE s[k + 1]
  <2>1. CASE k < j BY <1>1, <1>2, <1>4, <2>1
  <2>2. CASE ~(k < j)
    <3>1. k - (j - 1) \in 1 .. n - j /\ j + (k - (j - 1)) = k + 1 BY <1>1, <2>2
    <3> QED BY <1>3, <1>4, <2>2, <3>1
  <2> QED BY <2>1, <2>2
<1>7. all = t
  <2> HIDE DEF n
  <2> QED BY <1>5, <1>6
<1> QED BY <1>7 DEF all, left, right

-----------------------------------------------------------------------------
(* The singly linked list. *)

SlNodes == [data : Data \union {Void}, next : Addr \union {Null}]

\* c lists the nodes in use.
SlHas(c) ==
  /\ heap \in [Addr -> SlNodes]
  /\ Chain(c, head, length, heap)
  /\ live = Among(c, length)

SlInv == \E c : SlHas(c)

LEMMA LenOfChain ==
  ASSUME NEW c, NEW h, NEW n, NEW cells, Chain(c, h, n, cells)
  PROVE  /\ n \in Nat /\ n <= Cap /\ Cap \in Nat
         /\ \A k \in 1 .. n : c[k] \in Addr
         /\ n > 0 => h = c[1]
         /\ n = 0 => h = Null
         /\ \A k \in 1 .. n : cells[c[k]].next = IF k = n THEN Null ELSE c[k + 1]
         /\ Among(c, n) \subseteq Addr
         /\ Cardinality(Among(c, n)) = n
         /\ \A a \in Addr : a \notin Among(c, n) => n < Cap
<1>1. n \in Nat /\ n <= Cap /\ Cap \in Nat BY CapType DEF Chain
<1>2. Cardinality(Among(c, n)) = n BY <1>1, CountAmong DEF Chain
<1>3. Among(c, n) \subseteq Addr BY DEF Chain, Among
<1>4. ASSUME NEW a \in Addr, a \notin Among(c, n) PROVE n < Cap
  <2>1. IsFiniteSet(Addr) BY CapType
  <2>2. IsFiniteSet(Among(c, n)) BY <1>3, <2>1, FS_Subset
  <2>3. Cardinality(Among(c, n) \union {a}) = n + 1 BY <1>2, <1>4, <2>2, FS_AddElement
  <2>4. Among(c, n) \union {a} \subseteq Addr BY <1>3
  <2>5. Cardinality(Among(c, n) \union {a}) <= Cap BY <2>1, <2>4, FS_Subset DEF Cap
  <2> QED BY <1>1, <2>3, <2>5
<1> QED BY <1>1, <1>2, <1>3, <1>4 DEF Chain

\* The elements found by following f are the content of the chain.
LEMMA ContentIs ==
  ASSUME NEW f, NEW h, NEW cells, IsPath(f, h, cells), NEW c, NEW n, Chain(c, h, n, cells)
  PROVE  [i \in 1 .. n |-> cells[f[i - 1]].data] = Content(c, n, cells)
<1>1. n \in Nat BY LenOfChain
<1>2. \A i \in 1 .. n : f[i - 1] = c[i]
  <2> SUFFICES ASSUME NEW i \in 1 .. n PROVE f[i - 1] = c[i] OBVIOUS
  <2>1. i - 1 \in 0 .. n - 1 /\ (i - 1) + 1 = i BY <1>1
  <2> QED BY <2>1, PathIs
<1> QED BY <1>2 DEF Content

LEMMA MetIs ==
  ASSUME NEW f, NEW h, NEW cells, IsPath(f, h, cells), NEW c, NEW n, Chain(c, h, n, cells)
  PROVE  /\ {f[i] : i \in 0 .. n - 1} = Among(c, n)
         /\ f[n] = Null
<1>1. n \in Nat /\ n <= Cap /\ Cap \in Nat BY LenOfChain
<1>2. \A i \in 0 .. n - 1 : f[i] = c[i + 1] /\ i + 1 \in 1 .. n BY <1>1, PathIs
<1>3. \A k \in 1 .. n : k - 1 \in 0 .. n - 1 /\ c[k] = f[k - 1]
  <2> SUFFICES ASSUME NEW k \in 1 .. n PROVE k - 1 \in 0 .. n - 1 /\ c[k] = f[k - 1] OBVIOUS
  <2>1. k - 1 \in 0 .. n - 1 /\ (k - 1) + 1 = k BY <1>1
  <2> QED BY <1>2, <2>1
<1>4. f[n] = Null BY <1>1, PathIs
<1> QED BY <1>2, <1>3, <1>4 DEF Among

LEMMA SlSeen ==
  ASSUME NEW c, SlHas(c)
  PROVE  /\ \A i \in 0 .. length - 1 : Sl!NodeAt(i) = c[i + 1]
         /\ length > 0 => Sl!LastNode = c[length]
         /\ length > 1 => Sl!LastButOne = c[length - 1]
         /\ Sl!Elements = Content(c, length, heap)
         /\ live = {Sl!path[i] : i \in 0 .. length - 1}
         /\ Sl!path[length] = Null
         /\ \A k \in 1 .. length : heap[c[k]] \in SlNodes
         /\ live \subseteq Addr
<1>1. Chain(c, head, length, heap) /\ IsPath(Sl!path, head, heap) BY SlPath DEF SlHas
<1>2. \A i \in 0 .. length - 1 : Sl!NodeAt(i) = c[i + 1] BY <1>1, PathIs DEF Sl!NodeAt
<1>3. length > 0 => Sl!LastNode = c[length] BY <1>1, LastOfChain DEF Sl!LastNode
<1>4. length > 1 => Sl!LastButOne = c[length - 1] BY <1>1, LastButOneOfChain DEF Sl!LastButOne
<1>5. Sl!Elements = Content(c, length, heap) BY <1>1, ContentIs DEF Sl!Elements
<1>6. live = {Sl!path[i] : i \in 0 .. length - 1} /\ Sl!path[length] = Null
  BY <1>1, MetIs DEF SlHas
<1>7. \A k \in 1 .. length : heap[c[k]] \in SlNodes BY <1>1, LenOfChain DEF SlHas
<1>8. live \subseteq Addr BY <1>1, LenOfChain DEF SlHas
<1> QED BY <1>2, <1>3, <1>4, <1>5, <1>6, <1>7, <1>8

LEMMA SlSeenNext ==
  ASSUME NEW c, SlHas(c)'
  PROVE  Sl!Elements' = Content(c, length', heap')
<1>1. Chain(c, head', length', heap') /\ IsPath(Sl!path', head', heap') BY SlPath DEF SlHas
<1> QED BY <1>1, ContentIs DEF Sl!Elements

LEMMA ContentType ==
  ASSUME NEW c, NEW n \in Nat, NEW cells,
         \A k \in 1 .. n : cells[c[k]].data \in Data \union {Void}
  PROVE  Content(c, n, cells) \in Seq(Data \union {Void})
BY DEF Content

\* The node a came to the list as its j-th, or its j-th went.
SlGrew(j, d) ==
  /\ SlInv' /\ Sl!List!Room /\ out' = Void
  /\ Sl!Elements' = Sl!List!InsertAt(Sl!Elements, j, d)

SlShrank(j) == SlInv' /\ Sl!Elements' = Sl!List!RemoveAt(Sl!Elements, j)

LEMMA SlGrows ==
  ASSUME NEW c, SlHas(c), NEW j \in 1 .. length + 1, NEW a \in Addr \ live, NEW d \in Data,
         LinkedIn(c, head, length, heap, j, a, d, head', heap'), heap' \in [Addr -> SlNodes],
         length' = length + 1, live' = live \union {a}, out' = Void
  PROVE  SlGrew(j, d)
<1> DEFINE s == Content(c, length, heap)
<1>. PICK e : e = With(c, length, j, a) OBVIOUS
<1>1. Chain(c, head, length, heap) /\ a \notin Among(c, length) BY DEF SlHas
<1>2. length \in Nat /\ length < Cap BY <1>1, LenOfChain
<1>3. /\ Chain(e, head', length + 1, heap')
      /\ Among(e, length + 1) = Among(c, length) \union {a}
      /\ Content(e, length + 1, heap')
           = [k \in 1 .. length + 1 |-> IF k < j THEN s[k] ELSE IF k = j THEN d ELSE s[k - 1]]
  BY <1>1, <1>2, NodeIn
<1>4. SlHas(e)' BY <1>3 DEF SlHas
<1>5. s \in Seq(Data \union {Void}) /\ Len(s) = length
  <2>1. \A k \in 1 .. length : heap[c[k]].data \in Data \union {Void} BY SlSeen DEF SlNodes
  <2> QED BY <1>2, <2>1, ContentType, ContentSeq
<1>6. Sl!Elements = s BY SlSeen
<1>7. Sl!Elements' = Content(e, length + 1, heap') BY <1>4, SlSeenNext
<1> HIDE DEF s
<1>8. Sl!List!Room BY <1>2, <1>5, <1>6, SlCardinality DEF Sl!List!Room
<1>9. Sl!Elements' = Sl!List!InsertAt(s, j, d)
  <2>1. d \in Data \union {Void} /\ j \in 1 .. Len(s) + 1 BY <1>5
  <2>2. Sl!List!InsertAt(s, j, d) = [k \in 1 .. Len(s) + 1 |->
           IF k < j THEN s[k] ELSE IF k = j THEN d ELSE s[k - 1]]
    BY <1>5, <2>1, Spliced DEF Sl!List!InsertAt
  <2> QED BY <1>3, <1>5, <1>7, <2>2
<1> QED BY <1>4, <1>6, <1>8, <1>9 DEF SlGrew, SlInv

LEMMA SlShrinks ==
  ASSUME NEW c, SlHas(c), NEW j \in 1 .. length,
         LinkedOut(c, head, length, heap, j, head', heap'), heap' \in [Addr -> SlNodes],
         length' = length - 1, live' = live \ {c[j]}
  PROVE  SlShrank(j)
<1> DEFINE s == Content(c, length, heap)
<1>. PICK e : e = Less(c, length, j) OBVIOUS
<1>1. Chain(c, head, length, heap) /\ live = Among(c, length) BY DEF SlHas
<1>2. length \in Nat BY <1>1, LenOfChain
<1>3. /\ Chain(e, head', length - 1, heap')
      /\ Among(e, length - 1) = Among(c, length) \ {c[j]}
      /\ Content(e, length - 1, heap')
           = [k \in 1 .. length - 1 |-> IF k < j THEN s[k] ELSE s[k + 1]]
  BY <1>1, NodeOut
<1>4. SlHas(e)' BY <1>1, <1>3 DEF SlHas
<1>5. s \in Seq(Data \union {Void}) /\ Len(s) = length
  <2>1. \A k \in 1 .. length : heap[c[k]].data \in Data \union {Void} BY SlSeen DEF SlNodes
  <2> QED BY <1>2, <2>1, ContentType, ContentSeq
<1>6. Sl!Elements = s BY SlSeen
<1>7. Sl!Elements' = Content(e, length - 1, heap') BY <1>4, SlSeenNext
<1> HIDE DEF s
<1>8. Sl!List!RemoveAt(s, j)
        = [k \in 1 .. Len(s) - 1 |-> IF k < j THEN s[k] ELSE s[k + 1]]
  BY <1>5, Cut DEF Sl!List!RemoveAt
<1> QED BY <1>3, <1>4, <1>5, <1>6, <1>7, <1>8 DEF SlShrank, SlInv

\* The node at a becomes m, and next of the one at b becomes p.
SlRelink(cells, a, m, b, p, cells2) ==
  /\ cells2 \in [Addr -> SlNodes]
  /\ cells2[a] = m /\ cells2[b].next = p /\ cells2[b].data = cells[b].data
  /\ \A x \in Addr \ {a, b} : cells2[x] = cells[x]

LEMMA SlRelinked ==
  ASSUME NEW cells \in [Addr -> SlNodes], NEW a \in Addr, NEW b \in Addr, a # b,
         NEW m \in SlNodes, NEW p \in Addr \union {Null}, NEW cells2,
         \/ cells2 = [cells EXCEPT ![a] = m, ![b].next = p]
         \/ cells2 = [cells EXCEPT ![b].next = p, ![a] = m]
         \/ cells2 = [[cells EXCEPT ![b].next = p] EXCEPT ![a] = m]
  PROVE  SlRelink(cells, a, m, b, p, cells2)
<1> DEFINE r == [cells[b] EXCEPT !.next = p]
<1>1. r \in SlNodes /\ r.next = p /\ r.data = cells[b].data BY DEF SlNodes
<1>2. cells2 = [x \in Addr |-> IF x = a THEN m ELSE IF x = b THEN r ELSE cells[x]]
  OBVIOUS
<1> HIDE DEF r
<1> QED BY <1>1, <1>2 DEF SlRelink

LEMMA SlNodeType ==
  /\ \A d \in Data, p \in Addr \union {Null} : Sl!Node(d, p) \in SlNodes
  /\ \A d, p : Sl!Node(d, p).data = d /\ Sl!Node(d, p).next = p
  /\ Sl!Blank \in SlNodes
BY DEF Sl!Node, Sl!Blank, SlNodes

LEMMA SlPushFrontStep ==
  ASSUME SlInv, NEW d \in Data, Sl!PushFront(d)
  PROVE  SlGrew(1, d)
<1>1. PICK a \in Addr :
        /\ Sl!Allocate(a) /\ Sl!Grow /\ head' = a
        /\ heap' = [heap EXCEPT ![a] = Sl!Node(d, IF length = 0 THEN Null ELSE head)]
  BY DEF Sl!PushFront
<1>2. a \in Addr \ live /\ live' = live \union {a} /\ length' = length + 1 /\ out' = Void
  BY <1>1 DEF Sl!Allocate, Sl!Grow
<1>3. PICK c : SlHas(c) BY DEF SlInv
<1>4. /\ heap \in [Addr -> SlNodes] /\ Chain(c, head, length, heap)
      /\ \A k \in 1 .. length : c[k] # a
  BY <1>2, <1>3 DEF SlHas, Among
<1>5. length \in Nat /\ (length > 0 => head = c[1]) /\ \A k \in 1 .. length : c[k] \in Addr
  BY <1>4, LenOfChain
<1>. PICK m : m = Sl!Node(d, IF length = 0 THEN Null ELSE head) OBVIOUS
<1>6. m \in SlNodes /\ m.data = d /\ m.next = IF length = 0 THEN Null ELSE c[1]
  <2>1. length # 0 => c[1] \in Addr BY <1>5
  <2>2. (IF length = 0 THEN Null ELSE head) \in Addr \union {Null}
    BY <1>5, <2>1
  <2> QED BY <1>5, <2>2, SlNodeType
<1>7. heap' \in [Addr -> SlNodes] /\ heap'[a] = m /\ \A x \in Addr \ {a} : heap'[x] = heap[x]
  BY <1>1, <1>4, <1>6
<1>8. 1 \in 1 .. length + 1 /\ (1 = length + 1 <=> length = 0) BY <1>5
<1>9. LinkedIn(c, head, length, heap, 1, a, d, head', heap')
  BY <1>1, <1>4, <1>5, <1>6, <1>7, <1>8 DEF LinkedIn
<1> QED BY <1>2, <1>3, <1>7, <1>8, <1>9, SlGrows

LEMMA SlPushBackStep ==
  ASSUME SlInv, NEW d \in Data, Sl!PushBack(d)
  PROVE  SlGrew(length + 1, d)
<1>1. PICK a \in Addr :
        /\ Sl!Allocate(a) /\ Sl!Grow
        /\ IF length = 0
           THEN head' = a /\ heap' = [heap EXCEPT ![a] = Sl!Node(d, Null)]
           ELSE /\ heap' = [heap EXCEPT ![a] = Sl!Node(d, Null), ![Sl!LastNode].next = a]
                /\ UNCHANGED head
  BY DEF Sl!PushBack
<1>2. a \in Addr \ live /\ live' = live \union {a} /\ length' = length + 1 /\ out' = Void
  BY <1>1 DEF Sl!Allocate, Sl!Grow
<1>3. PICK c : SlHas(c) BY DEF SlInv
<1>4. /\ heap \in [Addr -> SlNodes] /\ Chain(c, head, length, heap)
      /\ \A k \in 1 .. length : c[k] # a
  BY <1>2, <1>3 DEF SlHas, Among
<1>5. length \in Nat /\ \A k \in 1 .. length : c[k] \in Addr BY <1>4, LenOfChain
<1>. PICK m : m = Sl!Node(d, Null) OBVIOUS
<1>6. m \in SlNodes /\ m.data = d /\ m.next = Null BY SlNodeType
<1>7. CASE length = 0
  <2>1. heap' \in [Addr -> SlNodes] /\ heap'[a] = m BY <1>1, <1>4, <1>6, <1>7
  <2>2. LinkedIn(c, head, length, heap, length + 1, a, d, head', heap')
    BY <1>1, <1>6, <1>7, <2>1 DEF LinkedIn
  <2> QED BY <1>2, <1>3, <1>5, <2>1, <2>2, SlGrows
<1>8. CASE length # 0
  <2>. PICK b : b = Sl!LastNode OBVIOUS
  <2>1. b = c[length] /\ b \in Addr /\ b # a /\ length \in 1 .. length
    BY <1>3, <1>4, <1>5, <1>8, SlSeen
  <2>2. heap' = [heap EXCEPT ![a] = m, ![b].next = a] /\ head' = head BY <1>1, <1>8
  <2>3. /\ heap' \in [Addr -> SlNodes]
        /\ heap'[a] = m /\ heap'[b].next = a /\ heap'[b].data = heap[b].data
        /\ \A x \in Addr \ {a, b} : heap'[x] = heap[x]
    <3>1. SlRelink(heap, a, m, b, a, heap') BY <1>4, <1>6, <2>1, <2>2, SlRelinked
    <3> QED BY <3>1 DEF SlRelink
  <2>4. \A k \in 1 .. length : k # length => c[k] # b
    BY <1>4, <2>1 DEF Chain, NoneTwice
  <2>5. LinkedIn(c, head, length, heap, length + 1, a, d, head', heap')
    <3>1. length + 1 # 1 /\ (length + 1) - 1 = length /\ length + 1 > 1 BY <1>5, <1>8
    <3>2. \A k \in 1 .. length : k # length => heap'[c[k]] = heap[c[k]]
      BY <1>4, <1>5, <2>3, <2>4
    <3>3. \A k \in 1 .. length : heap'[c[k]].data = heap[c[k]].data BY <2>1, <2>3, <3>2
    <3> QED BY <1>6, <2>1, <2>2, <2>3, <3>1, <3>2, <3>3 DEF LinkedIn
  <2> QED BY <1>2, <1>3, <1>5, <2>3, <2>5, SlGrows
<1> QED BY <1>7, <1>8

LEMMA SlInsertAtStep ==
  ASSUME SlInv, NEW d \in Data, NEW index \in Int, Sl!InsertAt(index, d)
  PROVE  SlGrew(IF index <= 0 THEN 1 ELSE IF index >= length THEN length + 1 ELSE index + 1, d)
<1>1. PICK c : SlHas(c) BY DEF SlInv
<1>2. heap \in [Addr -> SlNodes] /\ Chain(c, head, length, heap) BY <1>1 DEF SlHas
<1>3. length \in Nat /\ \A k \in 1 .. length : c[k] \in Addr BY <1>2, LenOfChain
<1>4. CASE index <= 0
  <2>1. Sl!PushFront(d) BY <1>3, <1>4 DEF Sl!InsertAt
  <2> QED BY <1>4, <2>1, SlPushFrontStep
<1>5. CASE index > 0 /\ index >= length
  <2>1. Sl!PushBack(d) BY <1>3, <1>5 DEF Sl!InsertAt
  <2>2. SlGrew(length + 1, d) BY <2>1, SlPushBackStep
  <2> QED BY <1>5, <2>2
<1>6. CASE index \in 1 .. length - 1
  <2>. PICK b : b = Sl!NodeAt(index - 1) OBVIOUS
  <2>1. PICK a \in Addr :
          /\ Sl!Allocate(a) /\ Sl!Grow /\ UNCHANGED head
          /\ heap' = [heap EXCEPT ![b].next = a, ![a] = Sl!Node(d, heap[b].next)]
    BY <1>3, <1>6 DEF Sl!InsertAt
  <2>2. /\ a \in Addr \ live /\ live' = live \union {a} /\ length' = length + 1 /\ out' = Void
        /\ \A k \in 1 .. length : c[k] # a
    BY <1>1, <2>1 DEF Sl!Allocate, Sl!Grow, SlHas, Among
  <2>3. index - 1 \in 0 .. length - 1 /\ (index - 1) + 1 = index /\ index \in 1 .. length
    BY <1>3, <1>6
  <2>4. b = c[index] /\ b \in Addr /\ b # a BY <1>1, <1>3, <2>2, <2>3, SlSeen
  <2>5. heap[b].next = c[index + 1] /\ heap[b].next \in Addr
    BY <1>2, <1>3, <1>6, <2>3, <2>4, LenOfChain
  <2>. PICK m : m = Sl!Node(d, heap[b].next) OBVIOUS
  <2>6. m \in SlNodes /\ m.data = d /\ m.next = c[index + 1] BY <2>5, SlNodeType
  <2>7. SlRelink(heap, a, m, b, a, heap') BY <1>2, <2>1, <2>4, <2>6, SlRelinked
  <2>8. \A k \in 1 .. length : k # index => c[k] # b BY <1>2, <2>3, <2>4 DEF Chain, NoneTwice
  <2>9. LinkedIn(c, head, length, heap, index + 1, a, d, head', heap')
    <3>1. /\ index + 1 # length + 1 /\ index + 1 # 1 /\ index + 1 > 1
          /\ (index + 1) - 1 = index
      BY <1>3, <1>6
    <3>2. \A k \in 1 .. length : k # index => heap'[c[k]] = heap[c[k]]
      BY <1>3, <2>2, <2>7, <2>8 DEF SlRelink
    <3>3. \A k \in 1 .. length : heap'[c[k]].data = heap[c[k]].data
      BY <2>4, <2>7, <3>2 DEF SlRelink
    <3> QED BY <2>1, <2>4, <2>6, <2>7, <3>1, <3>2, <3>3 DEF LinkedIn, SlRelink
  <2>10. index + 1 \in 1 .. length + 1 BY <1>3, <1>6
  <2>11. SlGrew(index + 1, d) BY <1>1, <2>2, <2>7, <2>9, <2>10, SlGrows DEF SlRelink
  <2>12. ~(index <= 0) /\ ~(index >= length) BY <1>3, <1>6
  <2> QED BY <2>11, <2>12
<1> QED BY <1>3, <1>4, <1>5, <1>6

\* The j-th element was handed back and its node freed.
SlTook(j) == SlShrank(j) /\ out' = Sl!Elements[j]

LEMMA SlTakes ==
  ASSUME NEW c, SlHas(c), NEW j \in 1 .. length, NEW links, Sl!Take(c[j], links),
         LinkedOut(c, head, length, heap, j, head', heap'), heap' \in [Addr -> SlNodes]
  PROVE  SlTook(j)
<1>1. /\ length' = length - 1 /\ live' = live \ {c[j]} /\ out' = heap[c[j]].data
  BY DEF Sl!Take
<1>2. SlShrank(j) BY <1>1, SlShrinks
<1>3. Sl!Elements[j] = heap[c[j]].data
  <2>1. Sl!Elements = Content(c, length, heap) BY SlSeen
  <2> QED BY <2>1 DEF Content
<1> QED BY <1>1, <1>2, <1>3 DEF SlTook

\* The first node goes.
LEMMA SlFirstGoes ==
  ASSUME SlInv, length > 0, Sl!Take(head, heap), head' = heap[head].next
  PROVE  SlTook(1)
<1>1. PICK c : SlHas(c) BY DEF SlInv
<1>2. heap \in [Addr -> SlNodes] /\ Chain(c, head, length, heap) BY <1>1 DEF SlHas
<1>3. length \in Nat /\ head = c[1] /\ 1 \in 1 .. length /\ c[1] \in Addr
  BY <1>2, LenOfChain
<1>4. heap' = [heap EXCEPT ![c[1]] = Sl!Blank] BY <1>3 DEF Sl!Take
<1>5. /\ heap' \in [Addr -> SlNodes]
      /\ \A x \in Addr \ {c[1]} : heap'[x] = heap[x]
  BY <1>2, <1>3, <1>4, SlNodeType
<1>6. \A k \in 1 .. length : k # 1 => c[k] \in Addr /\ c[k] # c[1]
  BY <1>2, <1>3 DEF Chain, NoneTwice
<1>7. head' = IF length = 1 THEN Null ELSE c[2] BY <1>2, <1>3 DEF Chain
<1>8. LinkedOut(c, head, length, heap, 1, head', heap')
  BY <1>5, <1>6, <1>7 DEF LinkedOut
<1>9. Sl!Take(c[1], heap) BY <1>3
<1> QED BY <1>1, <1>3, <1>5, <1>8, <1>9, SlTakes

\* A node behind another one goes.
LEMMA SlNextGoes ==
  ASSUME NEW c, SlHas(c), NEW j \in 2 .. length, NEW b, b = c[j - 1],
         Sl!Take(heap[b].next, [heap EXCEPT ![b].next = heap[heap[b].next].next]),
         UNCHANGED head
  PROVE  SlTook(j)
<1>1. heap \in [Addr -> SlNodes] /\ Chain(c, head, length, heap) BY DEF SlHas
<1>2. length \in Nat /\ \A k \in 1 .. length : c[k] \in Addr BY <1>1, LenOfChain
<1>3. j \in 1 .. length /\ j - 1 \in 1 .. length /\ j - 1 # length /\ (j - 1) + 1 = j
  BY <1>2
<1>4. heap[b].next = c[j] /\ b \in Addr /\ c[j] \in Addr /\ b # c[j]
  BY <1>1, <1>2, <1>3 DEF Chain, NoneTwice
<1>. PICK p : p = heap[heap[b].next].next OBVIOUS
<1>5. p = (IF j = length THEN Null ELSE c[j + 1]) /\ p \in Addr \union {Null}
  <2>1. p = IF j = length THEN Null ELSE c[j + 1] BY <1>1, <1>3, <1>4 DEF Chain
  <2>2. j # length => j + 1 \in 1 .. length BY <1>2
  <2> QED BY <1>2, <2>1, <2>2
<1>6. heap' = [[heap EXCEPT ![b].next = p] EXCEPT ![c[j]] = Sl!Blank]
  BY <1>4 DEF Sl!Take
<1>7. SlRelink(heap, c[j], Sl!Blank, b, p, heap')
  <2>1. Sl!Blank \in SlNodes BY SlNodeType
  <2> QED BY <1>1, <1>4, <1>5, <1>6, <2>1, SlRelinked
<1>8. \A k \in 1 .. length : (k # j => c[k] # c[j]) /\ (k # j - 1 => c[k] # b)
  BY <1>1, <1>3 DEF Chain, NoneTwice
<1>9. LinkedOut(c, head, length, heap, j, head', heap')
  <2>1. j > 1 /\ c[j - 1] = b BY <1>2
  <2>2. \A k \in 1 .. length : k # j /\ k # j - 1 => heap'[c[k]] = heap[c[k]]
    <3> SUFFICES ASSUME NEW k \in 1 .. length, k # j, k # j - 1
                 PROVE  heap'[c[k]] = heap[c[k]]
      OBVIOUS
    <3>1. c[k] \in Addr \ {c[j], b} BY <1>2, <1>8
    <3> QED BY <1>7, <3>1 DEF SlRelink
  <2>3. \A k \in 1 .. length : k # j => heap'[c[k]].data = heap[c[k]].data
    BY <1>7, <2>1, <2>2 DEF SlRelink
  <2>4. heap'[b].next = p BY <1>7 DEF SlRelink
  <2> QED BY <1>5, <2>1, <2>2, <2>3, <2>4 DEF LinkedOut
<1>10. \E links : Sl!Take(c[j], links) BY <1>4
<1> QED BY <1>3, <1>7, <1>9, <1>10, SlTakes DEF SlRelink

LEMMA SlPopFrontStep ==
  ASSUME SlInv, Sl!PopFront
  PROVE  IF length = 0 THEN Sl!Return(Failed) ELSE SlTook(1)
<1>1. length \in Nat BY LenOfChain DEF SlInv, SlHas
<1>2. CASE length = 0 BY <1>2 DEF Sl!PopFront
<1>3. CASE length > 0
  <2>1. Sl!Take(head, heap) /\ head' = heap[head].next BY <1>3 DEF Sl!PopFront
  <2> QED BY <1>3, <2>1, SlFirstGoes
<1> QED BY <1>1, <1>2, <1>3

LEMMA SlPopBackStep ==
  ASSUME SlInv, Sl!PopBack
  PROVE  IF length = 0 THEN Sl!Return(Failed) ELSE SlTook(length)
<1>1. PICK c : SlHas(c) BY DEF SlInv
<1>2. heap \in [Addr -> SlNodes] /\ Chain(c, head, length, heap) BY <1>1 DEF SlHas
<1>3. length \in Nat BY <1>2, LenOfChain
<1>4. CASE length = 0 BY <1>4 DEF Sl!PopBack
<1>5. CASE length = 1
  <2>1. Sl!Take(head, heap) /\ head' = Null BY <1>5 DEF Sl!PopBack
  <2>2. heap[head].next = Null BY <1>2, <1>5 DEF Chain
  <2> QED BY <1>5, <2>1, <2>2, SlFirstGoes
<1>6. CASE length > 1
  <2>. PICK b : b = Sl!LastButOne OBVIOUS
  <2>1. Sl!Take(heap[b].next, [heap EXCEPT ![b].next = Null]) /\ UNCHANGED head
    BY <1>6 DEF Sl!PopBack
  <2>2. b = c[length - 1] /\ length \in 2 .. length BY <1>1, <1>3, <1>6, SlSeen
  <2>3. heap[heap[b].next].next = Null
    <3>1. /\ length - 1 \in 1 .. length /\ length \in 1 .. length /\ length - 1 # length
          /\ (length - 1) + 1 = length
      BY <1>3, <1>6
    <3> QED BY <1>2, <2>2, <3>1 DEF Chain
  <2>4. SlTook(length) BY <1>1, <2>1, <2>2, <2>3, SlNextGoes
  <2> QED BY <1>6, <2>4
<1> QED BY <1>3, <1>4, <1>5, <1>6

LEMMA SlRemoveAtStep ==
  ASSUME SlInv, NEW index \in Int, Sl!RemoveAt(index)
  PROVE  IF index \in 0 .. length - 1 THEN SlTook(index + 1) ELSE Sl!Return(Failed)
<1>1. PICK c : SlHas(c) BY DEF SlInv
<1>2. heap \in [Addr -> SlNodes] /\ Chain(c, head, length, heap) BY <1>1 DEF SlHas
<1>3. length \in Nat BY <1>2, LenOfChain
<1>4. CASE index \notin 0 .. length - 1 BY <1>3, <1>4 DEF Sl!RemoveAt
<1>5. CASE index = 0 /\ index < length
  <2>1. Sl!PopFront BY <1>3, <1>5 DEF Sl!RemoveAt
  <2>2. SlTook(1) BY <1>5, <2>1, SlPopFrontStep
  <2> QED BY <1>3, <1>5, <2>2
<1>6. CASE index > 0 /\ index = length - 1
  <2>1. Sl!PopBack BY <1>3, <1>6 DEF Sl!RemoveAt
  <2>2. SlTook(length) BY <1>3, <1>6, <2>1, SlPopBackStep
  <2>3. index + 1 = length BY <1>3, <1>6
  <2> QED BY <1>3, <1>6, <2>2, <2>3
<1>7. CASE index \in 1 .. length - 2
  <2>. PICK b : b = Sl!NodeAt(index - 1) OBVIOUS
  <2>1. /\ Sl!Take(heap[b].next, [heap EXCEPT ![b].next = heap[heap[b].next].next])
        /\ UNCHANGED head
    BY <1>3, <1>7 DEF Sl!RemoveAt
  <2>2. index - 1 \in 0 .. length - 1 /\ (index - 1) + 1 = index /\ (index + 1) - 1 = index
        /\ index + 1 \in 2 .. length
    BY <1>3, <1>7
  <2>3. b = c[(index + 1) - 1] BY <1>1, <2>2, SlSeen
  <2>4. SlTook(index + 1) BY <1>1, <2>1, <2>2, <2>3, SlNextGoes
  <2> QED BY <1>3, <1>7, <2>4
<1> QED BY <1>3, <1>4, <1>5, <1>6, <1>7

LEMMA SlLen ==
  ASSUME SlInv
  PROVE  length \in Nat /\ Len(Sl!Elements) = length /\ (length = 0 => Sl!Elements = <<>>)
<1>1. PICK c : SlHas(c) BY DEF SlInv
<1>2. length \in Nat BY <1>1, LenOfChain DEF SlHas
<1> QED BY <1>1, <1>2, SlSeen, ContentSeq

LEMMA SlInserts ==
  ASSUME SlInv, NEW d \in Data, NEW index \in Int,
         SlGrew(IF index <= 0 THEN 1 ELSE IF index >= length THEN length + 1 ELSE index + 1, d)
  PROVE  SlInv' /\ Sl!List!Insert(index, d)
<1>1. length \in Nat /\ Len(Sl!Elements) = length BY SlLen
<1>2. Sl!List!Insertion(index)
        = IF index <= 0 THEN 1 ELSE IF index >= length THEN length + 1 ELSE index + 1
  BY <1>1 DEF Sl!List!Insertion
<1> QED BY <1>2 DEF SlGrew, Sl!List!Insert

\* Nothing but the result changes.
LEMMA SlKept ==
  ASSUME SlInv, UNCHANGED <<head, length, heap, live>>
  PROVE  SlInv' /\ Sl!Elements' = Sl!Elements
<1>1. PICK c : SlHas(c) BY DEF SlInv
<1>2. SlHas(c)' BY <1>1 DEF SlHas
<1>3. Sl!Elements = Content(c, length, heap) BY <1>1, SlSeen
<1>4. Sl!Elements' = Content(c, length', heap') BY <1>2, SlSeenNext
<1> QED BY <1>2, <1>3, <1>4 DEF SlInv

LEMMA SlReads ==
  ASSUME SlInv, NEW index \in Int,
         IF index \in 0 .. length - 1
         THEN Sl!Return(Sl!Elements[index + 1]) ELSE Sl!Return(Failed)
  PROVE  SlInv' /\ Sl!List!Read(index)
<1>1. length \in Nat /\ Len(Sl!Elements) = length BY SlLen
<1>2. UNCHANGED <<head, length, heap, live>> BY DEF Sl!Return
<1>3. SlInv' /\ Sl!Elements' = Sl!Elements BY <1>2, SlKept
<1>4. Sl!List!InRange(index) <=> index \in 0 .. length - 1 BY <1>1 DEF Sl!List!InRange
<1>5. out' = IF index \in 0 .. length - 1 THEN Sl!Elements[index + 1] ELSE Failed
  BY DEF Sl!Return
<1> QED BY <1>3, <1>4, <1>5 DEF Sl!List!Read

LEMMA SlRemoves ==
  ASSUME SlInv, NEW index \in Int,
         IF index \in 0 .. length - 1 THEN SlTook(index + 1) ELSE Sl!Return(Failed)
  PROVE  SlInv' /\ Sl!List!TakeOut(index)
<1>1. length \in Nat /\ Len(Sl!Elements) = length BY SlLen
<1>2. Sl!List!InRange(index) <=> index \in 0 .. length - 1 BY <1>1 DEF Sl!List!InRange
<1>3. CASE index \in 0 .. length - 1
  <2>1. SlTook(index + 1) BY <1>3
  <2> QED BY <1>2, <1>3, <2>1 DEF Sl!List!TakeOut, SlTook, SlShrank
<1>4. CASE index \notin 0 .. length - 1
  <2>1. out' = Failed /\ UNCHANGED <<head, length, heap, live>> BY <1>4 DEF Sl!Return
  <2>2. SlInv' /\ Sl!Elements' = Sl!Elements BY <2>1, SlKept
  <2> QED BY <1>2, <1>4, <2>1, <2>2 DEF Sl!List!TakeOut
<1> QED BY <1>3, <1>4

LEMMA SlPeekSteps ==
  ASSUME SlInv
  PROVE  /\ Sl!PeekFront => SlInv' /\ Sl!List!Read(0)
         /\ Sl!PeekBack => SlInv' /\ Sl!List!Read(length - 1)
         /\ \A index \in Int : Sl!At(index) => SlInv' /\ Sl!List!Read(index)
<1>1. PICK c : SlHas(c) BY DEF SlInv
<1>2. length \in Nat /\ (length > 0 => head = c[1]) BY <1>1, LenOfChain DEF SlHas
<1>3. \A k \in 1 .. length : Sl!Elements[k] = heap[c[k]].data
  <2>1. Sl!Elements = Content(c, length, heap) BY <1>1, SlSeen
  <2> QED BY <2>1 DEF Content
<1>4. ASSUME Sl!PeekFront PROVE SlInv' /\ Sl!List!Read(0)
  <2>1. Sl!Return(IF length = 0 THEN Failed ELSE heap[head].data) BY <1>4 DEF Sl!PeekFront
  <2>2. CASE length = 0
    <3>1. 0 \notin 0 .. length - 1 BY <2>2
    <3> QED BY <2>1, <2>2, <3>1, SlReads
  <2>3. CASE length # 0
    <3>1. 0 \in 0 .. length - 1 /\ 1 \in 1 .. length /\ 0 + 1 = 1 BY <1>2, <2>3
    <3>2. heap[head].data = Sl!Elements[0 + 1] BY <1>2, <1>3, <3>1
    <3> QED BY <2>1, <2>3, <3>1, <3>2, SlReads
  <2> QED BY <2>2, <2>3
<1>5. ASSUME Sl!PeekBack PROVE SlInv' /\ Sl!List!Read(length - 1)
  <2>1. Sl!Return(IF length = 0 THEN Failed ELSE heap[Sl!LastNode].data)
    BY <1>5 DEF Sl!PeekBack
  <2>2. CASE length = 0
    <3>1. length - 1 \notin 0 .. length - 1 /\ length - 1 \in Int BY <2>2
    <3> QED BY <2>1, <2>2, <3>1, SlReads
  <2>3. CASE length # 0
    <3>1. /\ length - 1 \in 0 .. length - 1 /\ length - 1 \in Int
          /\ (length - 1) + 1 = length /\ length \in 1 .. length /\ length > 0
      BY <1>2, <2>3
    <3>2. Sl!LastNode = c[length] BY <1>1, <3>1, SlSeen
    <3>3. heap[Sl!LastNode].data = Sl!Elements[(length - 1) + 1] BY <1>3, <3>1, <3>2
    <3> QED BY <2>1, <2>3, <3>1, <3>3, SlReads
  <2> QED BY <2>2, <2>3
<1>6. ASSUME NEW index \in Int, Sl!At(index) PROVE SlInv' /\ Sl!List!Read(index)
  <2>1. Sl!Return(IF index \in 0 .. length - 1 THEN heap[Sl!NodeAt(index)].data ELSE Failed)
    BY <1>6 DEF Sl!At
  <2>2. CASE index \notin 0 .. length - 1 BY <2>1, <2>2, SlReads
  <2>3. CASE index \in 0 .. length - 1
    <3>1. index + 1 \in 1 .. length BY <1>2, <2>3
    <3>2. heap[Sl!NodeAt(index)].data = Sl!Elements[index + 1]
      <4>1. Sl!NodeAt(index) = c[index + 1] BY <1>1, <2>3, SlSeen
      <4> QED BY <1>3, <3>1, <4>1
    <3> QED BY <2>1, <2>3, <3>2, SlReads
  <2> QED BY <2>2, <2>3
<1> QED BY <1>4, <1>5, <1>6

\* A list without nodes.
LEMMA SlNoNodes ==
  ASSUME NEW h, h = Null, NEW n, n = 0, NEW cells
  PROVE  Chain(<<>>, h, n, cells) /\ Among(<<>>, n) = {}
BY CapType DEF Chain, NoneTwice, Among

LEMMA SlDestroyStep ==
  ASSUME SlInv, Sl!Destroy
  PROVE  SlInv' /\ Sl!Elements' = <<>> /\ out' = Void
<1>1. PICK c : SlHas(c) BY DEF SlInv
<1>2. live = {Sl!path[i] : i \in 0 .. length - 1} BY <1>1, SlSeen
<1>3. /\ live' = {} /\ head' = Null /\ length' = 0 /\ out' = Void
      /\ heap' = [a \in Addr |-> Sl!Blank]
  BY <1>2 DEF Sl!Destroy
<1>4. heap' \in [Addr -> SlNodes] BY <1>3, SlNodeType
<1>5. SlHas(<<>>)' BY <1>3, <1>4, SlNoNodes DEF SlHas
<1>6. Sl!Elements' = <<>>
  <2>1. Sl!Elements' = Content(<<>>, length', heap') BY <1>5, SlSeenNext
  <2> QED BY <1>3, <2>1, ContentSeq
<1> QED BY <1>3, <1>5, <1>6 DEF SlInv

LEMMA SlInit ==
  ASSUME Sl!Init
  PROVE  SlInv /\ Sl!List!Init
<1>1. /\ live = {} /\ head = Null /\ length = 0 /\ out = Void /\ call = <<"create", 0>>
      /\ heap = [a \in Addr |-> Sl!Blank]
  BY DEF Sl!Init
<1>2. heap \in [Addr -> SlNodes] BY <1>1, SlNodeType
<1>3. SlHas(<<>>) BY <1>1, <1>2, SlNoNodes DEF SlHas
<1>4. SlInv BY <1>3 DEF SlInv
<1>5. Sl!Elements = <<>> BY <1>1, <1>4, SlLen
<1> QED BY <1>1, <1>4, <1>5 DEF Sl!List!Init

LEMMA SlStep ==
  ASSUME SlInv, Sl!Next
  PROVE  SlInv' /\ Sl!List!Next
<1>1. length \in Nat /\ Len(Sl!Elements) = length BY SlLen
<1>2. Sl!Index = -1 .. Sl!Cardinality(Addr) /\ \A i \in Sl!Index : i \in Int
  BY SlCardinality, CapType DEF Sl!Index
<1>3. \A name, i : Sl!Called(name, i) <=> Sl!List!Called(name, i)
  BY DEF Sl!Called, Sl!List!Called
<1>4. Sl!List!FrontIndex = 0 /\ Sl!List!BackIndex = length - 1
  BY <1>1 DEF Sl!List!FrontIndex, Sl!List!BackIndex
<1>5. ASSUME NEW d \in Data, Sl!PushFront(d), Sl!Called("push_front", 0)
      PROVE  SlInv' /\ Sl!List!Next
  <2>1. SlGrew(IF 0 <= 0 THEN 1 ELSE IF 0 >= length THEN length + 1 ELSE 0 + 1, d)
    BY <1>5, SlPushFrontStep
  <2>2. SlInv' /\ Sl!List!Insert(0, d) BY <2>1, SlInserts
  <2> QED BY <1>3, <1>4, <1>5, <2>2 DEF Sl!List!Next
<1>6. ASSUME NEW d \in Data, Sl!PushBack(d), Sl!Called("push_back", 0)
      PROVE  SlInv' /\ Sl!List!Next
  <2>. PICK i : i = Sl!List!BackIndex + 1 OBVIOUS
  <2>1. i = length BY <1>1, <1>4
  <2>2. SlGrew(length + 1, d) BY <1>6, SlPushBackStep
  <2>3. (IF i <= 0 THEN 1 ELSE IF i >= length THEN length + 1 ELSE i + 1) = length + 1
    BY <1>1, <2>1
  <2>4. SlInv' /\ Sl!List!Insert(i, d) BY <1>1, <2>1, <2>2, <2>3, SlInserts
  <2> QED BY <1>3, <1>6, <2>4 DEF Sl!List!Next
<1>7. ASSUME NEW d \in Data, NEW i \in Sl!Index, Sl!InsertAt(i, d), Sl!Called("insert_at", i)
      PROVE  SlInv' /\ Sl!List!Next
  <2>1. SlInv' /\ Sl!List!Insert(i, d) BY <1>2, <1>7, SlInsertAtStep, SlInserts
  <2> QED BY <1>2, <1>3, <1>7, <2>1 DEF Sl!List!Next
<1>8. ASSUME Sl!PeekFront, Sl!Called("peek_front", 0) PROVE SlInv' /\ Sl!List!Next
  BY <1>3, <1>4, <1>8, SlPeekSteps DEF Sl!List!Next
<1>9. ASSUME Sl!PeekBack, Sl!Called("peek_back", 0) PROVE SlInv' /\ Sl!List!Next
  BY <1>3, <1>4, <1>9, SlPeekSteps DEF Sl!List!Next
<1>10. ASSUME Sl!PopFront, Sl!Called("pop_front", 0) PROVE SlInv' /\ Sl!List!Next
  <2>1. IF 0 \in 0 .. length - 1 THEN SlTook(0 + 1) ELSE Sl!Return(Failed)
    BY <1>1, <1>10, SlPopFrontStep
  <2>2. SlInv' /\ Sl!List!TakeOut(0) BY <2>1, SlRemoves
  <2> QED BY <1>3, <1>4, <1>10, <2>2 DEF Sl!List!Next
<1>11. ASSUME Sl!PopBack, Sl!Called("pop_back", 0) PROVE SlInv' /\ Sl!List!Next
  <2>. PICK i : i = length - 1 OBVIOUS
  <2>1. IF length = 0 THEN Sl!Return(Failed) ELSE SlTook(length) BY <1>11, SlPopBackStep
  <2>2. i \in Int /\ i + 1 = length /\ (i \in 0 .. length - 1 <=> length # 0) BY <1>1
  <2>3. IF i \in 0 .. length - 1 THEN SlTook(i + 1) ELSE Sl!Return(Failed) BY <2>1, <2>2
  <2>4. SlInv' /\ Sl!List!TakeOut(i) BY <2>2, <2>3, SlRemoves
  <2> QED BY <1>3, <1>4, <1>11, <2>4 DEF Sl!List!Next
<1>12. ASSUME NEW i \in Sl!Index, Sl!At(i), Sl!Called("at", i) PROVE SlInv' /\ Sl!List!Next
  <2>1. SlInv' /\ Sl!List!Read(i) BY <1>2, <1>12, SlPeekSteps
  <2> QED BY <1>2, <1>3, <1>12, <2>1 DEF Sl!List!Next
<1>13. ASSUME NEW i \in Sl!Index, Sl!RemoveAt(i), Sl!Called("remove_at", i)
       PROVE  SlInv' /\ Sl!List!Next
  <2>1. SlInv' /\ Sl!List!TakeOut(i) BY <1>2, <1>13, SlRemoveAtStep, SlRemoves
  <2> QED BY <1>2, <1>3, <1>13, <2>1 DEF Sl!List!Next
<1>14. ASSUME Sl!Destroy, Sl!Called("destroy", 0) PROVE SlInv' /\ Sl!List!Next
  BY <1>3, <1>14, SlDestroyStep DEF Sl!List!Next
<1> QED BY <1>5, <1>6, <1>7, <1>8, <1>9, <1>10, <1>11, <1>12, <1>13, <1>14 DEF Sl!Next

LEMMA SlIsWellLinked ==
  ASSUME SlInv
  PROVE  Sl!WellLinked
<1>1. PICK c : SlHas(c) BY DEF SlInv
<1>2. Cardinality(live) = length BY <1>1, LenOfChain DEF SlHas
<1>3. Sl!Cardinality(live) = Cardinality(live) BY Zenon DEF Sl!Cardinality, Cardinality
<1> QED BY <1>1, <1>2, <1>3, SlSeen DEF Sl!WellLinked

-----------------------------------------------------------------------------
(* The doubly linked list. *)

DlNodes == [data : Data \union {Void}, prev : Addr \union {Null}, next : Addr \union {Null}]

\* c lists the nodes in use.
DlHas(c) ==
  /\ heap \in [Addr -> DlNodes]
  /\ Chain(c, head, length, heap)
  /\ Backed(c, length, heap)
  /\ live = Among(c, length)

DlLinked == \E c : DlHas(c)

DlInv == DlLinked /\ err \in BOOLEAN /\ out \in Data \union {Void, Failed}

LEMMA DlSeen ==
  ASSUME NEW c, DlHas(c)
  PROVE  /\ \A i \in 0 .. length - 1 : Dl!NodeAt(i) = c[i + 1]
         /\ length > 0 => Dl!LastNode = c[length]
         /\ Dl!Elements = Content(c, length, heap)
         /\ live = {Dl!path[i] : i \in 0 .. length - 1}
         /\ Dl!path[length] = Null
         /\ \A k \in 1 .. length : heap[c[k]] \in DlNodes
         /\ live \subseteq Addr
         /\ \A i \in 0 .. length - 1 : Dl!path[i] = c[i + 1]
<1>1. Chain(c, head, length, heap) /\ IsPath(Dl!path, head, heap) BY DlPath DEF DlHas
<1>2. \A i \in 0 .. length - 1 : Dl!path[i] = c[i + 1] BY <1>1, PathIs
<1>3. length > 0 => Dl!LastNode = c[length] BY <1>1, LastOfChain DEF Dl!LastNode
<1>4. Dl!Elements = Content(c, length, heap) BY <1>1, ContentIs DEF Dl!Elements
<1>5. live = {Dl!path[i] : i \in 0 .. length - 1} /\ Dl!path[length] = Null
  BY <1>1, MetIs DEF DlHas
<1>6. \A k \in 1 .. length : heap[c[k]] \in DlNodes BY <1>1, LenOfChain DEF DlHas
<1>7. live \subseteq Addr BY <1>1, LenOfChain DEF DlHas
<1> QED BY <1>2, <1>3, <1>4, <1>5, <1>6, <1>7 DEF Dl!NodeAt

LEMMA DlSeenNext ==
  ASSUME NEW c, DlHas(c)'
  PROVE  Dl!Elements' = Content(c, length', heap')
<1>1. Chain(c, head', length', heap') /\ IsPath(Dl!path', head', heap') BY DlPath DEF DlHas
<1> QED BY <1>1, ContentIs DEF Dl!Elements

LEMMA DlElements ==
  ASSUME NEW c, DlHas(c)
  PROVE  /\ Dl!Elements \in Seq(Data \union {Void}) /\ Len(Dl!Elements) = length
         /\ length \in Nat /\ (length = 0 => Dl!Elements = <<>>)
         /\ \A k \in 1 .. length : Dl!Elements[k] = heap[c[k]].data
         /\ \A k \in 1 .. length : Dl!Elements[k] \in Data \union {Void}
<1>1. length \in Nat BY LenOfChain DEF DlHas
<1>2. \A k \in 1 .. length : heap[c[k]].data \in Data \union {Void} BY DlSeen DEF DlNodes
<1>3. Dl!Elements = Content(c, length, heap) BY DlSeen
<1>4. \A k \in 1 .. length : Dl!Elements[k] = heap[c[k]].data BY <1>3 DEF Content
<1>5. /\ Dl!Elements \in Seq(Data \union {Void}) /\ Len(Dl!Elements) = length
      /\ length = 0 => Dl!Elements = <<>>
  BY <1>1, <1>2, <1>3, ContentType, ContentSeq
<1> QED BY <1>1, <1>2, <1>4, <1>5

\* A node came to the list as its j-th, or the j-th went.
DlGrew(j, d) ==
  /\ DlLinked' /\ Dl!List!Room /\ out' = Void
  /\ Dl!Elements' = Dl!List!InsertAt(Dl!Elements, j, d)

DlTook(j) ==
  /\ DlLinked' /\ Dl!Elements' = Dl!List!RemoveAt(Dl!Elements, j)
  /\ out' = Dl!Elements[j]

LEMMA DlGrows ==
  ASSUME NEW c, DlHas(c), NEW j \in 1 .. length + 1, NEW a \in Addr \ live, NEW d \in Data,
         LinkedIn(c, head, length, heap, j, a, d, head', heap'),
         BackedIn(c, length, heap, j, a, heap'), heap' \in [Addr -> DlNodes],
         length' = length + 1, live' = live \union {a}, out' = Void
  PROVE  DlGrew(j, d)
<1> DEFINE s == Content(c, length, heap)
<1>. PICK e : e = With(c, length, j, a) OBVIOUS
<1>1. /\ Chain(c, head, length, heap) /\ Backed(c, length, heap)
      /\ a \notin Among(c, length)
  BY DEF DlHas
<1>2. length \in Nat /\ length < Cap BY <1>1, LenOfChain
<1>3. /\ Chain(e, head', length + 1, heap')
      /\ Among(e, length + 1) = Among(c, length) \union {a}
      /\ Content(e, length + 1, heap')
           = [k \in 1 .. length + 1 |-> IF k < j THEN s[k] ELSE IF k = j THEN d ELSE s[k - 1]]
  BY <1>1, <1>2, NodeIn
<1>4. Backed(e, length + 1, heap') BY <1>1, BackIn
<1>5. DlHas(e)' BY <1>3, <1>4 DEF DlHas
<1>6. Dl!Elements = s /\ s \in Seq(Data \union {Void}) /\ Len(s) = length BY DlSeen, DlElements
<1>7. Dl!Elements' = Content(e, length + 1, heap') BY <1>5, DlSeenNext
<1> HIDE DEF s
<1>8. Dl!List!Room BY <1>2, <1>6, DlCardinality DEF Dl!List!Room
<1>9. Dl!Elements' = Dl!List!InsertAt(s, j, d)
  <2>1. d \in Data \union {Void} /\ j \in 1 .. Len(s) + 1 BY <1>6
  <2>2. Dl!List!InsertAt(s, j, d) = [k \in 1 .. Len(s) + 1 |->
           IF k < j THEN s[k] ELSE IF k = j THEN d ELSE s[k - 1]]
    BY <1>6, <2>1, Spliced DEF Dl!List!InsertAt
  <2> QED BY <1>3, <1>6, <1>7, <2>2
<1> QED BY <1>5, <1>6, <1>8, <1>9 DEF DlGrew, DlLinked

LEMMA DlTakes ==
  ASSUME NEW c, DlHas(c), NEW j \in 1 .. length,
         LinkedOut(c, head, length, heap, j, head', heap'),
         BackedOut(c, length, heap, j, heap'), heap' \in [Addr -> DlNodes],
         length' = length - 1, live' = live \ {c[j]}, out' = heap[c[j]].data
  PROVE  DlTook(j)
<1> DEFINE s == Content(c, length, heap)
<1>. PICK e : e = Less(c, length, j) OBVIOUS
<1>1. /\ Chain(c, head, length, heap) /\ Backed(c, length, heap)
      /\ live = Among(c, length)
  BY DEF DlHas
<1>2. /\ Chain(e, head', length - 1, heap')
      /\ Among(e, length - 1) = Among(c, length) \ {c[j]}
      /\ Content(e, length - 1, heap')
           = [k \in 1 .. length - 1 |-> IF k < j THEN s[k] ELSE s[k + 1]]
  BY <1>1, NodeOut
<1>3. Backed(e, length - 1, heap') BY <1>1, BackOut
<1>4. DlHas(e)' BY <1>1, <1>2, <1>3 DEF DlHas
<1>5. Dl!Elements = s /\ s \in Seq(Data \union {Void}) /\ Len(s) = length BY DlSeen, DlElements
<1>6. Dl!Elements' = Content(e, length - 1, heap') BY <1>4, DlSeenNext
<1> HIDE DEF s
<1>7. Dl!List!RemoveAt(s, j)
        = [k \in 1 .. Len(s) - 1 |-> IF k < j THEN s[k] ELSE s[k + 1]]
  BY <1>5, Cut DEF Dl!List!RemoveAt
<1>8. out' = Dl!Elements[j] BY DlElements
<1> QED BY <1>2, <1>4, <1>5, <1>6, <1>7, <1>8 DEF DlTook, DlLinked

\* The node at a becomes m; next of the nodes in B becomes p, prev of those in Q q.
DlRelink(cells, a, m, B, p, Q, q, cells2) ==
  /\ cells2 \in [Addr -> DlNodes] /\ cells2[a] = m
  /\ \A x \in Addr \ {a} : cells2[x].data = cells[x].data
  /\ \A x \in Addr \ {a} : cells2[x].next = IF x \in B THEN p ELSE cells[x].next
  /\ \A x \in Addr \ {a} : cells2[x].prev = IF x \in Q THEN q ELSE cells[x].prev

LEMMA DlRelinkedNone ==
  ASSUME NEW cells \in [Addr -> DlNodes], NEW a \in Addr, NEW m \in DlNodes, NEW cells2,
         cells2 = [cells EXCEPT ![a] = m], NEW p, NEW q
  PROVE  DlRelink(cells, a, m, {}, p, {}, q, cells2)
BY DEF DlRelink

LEMMA DlRelinkedNext ==
  ASSUME NEW cells \in [Addr -> DlNodes], NEW a \in Addr, NEW b \in Addr, a # b,
         NEW m \in DlNodes, NEW p \in Addr \union {Null}, NEW cells2,
         \/ cells2 = [cells EXCEPT ![a] = m, ![b].next = p]
         \/ cells2 = [[cells EXCEPT ![b].next = p] EXCEPT ![a] = m],
         NEW q
  PROVE  DlRelink(cells, a, m, {b}, p, {}, q, cells2)
<1> DEFINE r == [cells[b] EXCEPT !.next = p]
<1>1. r \in DlNodes /\ r.next = p /\ r.prev = cells[b].prev /\ r.data = cells[b].data
  BY DEF DlNodes
<1>2. cells2 = [x \in Addr |-> IF x = a THEN m ELSE IF x = b THEN r ELSE cells[x]]
  OBVIOUS
<1> HIDE DEF r
<1> QED BY <1>1, <1>2 DEF DlRelink

LEMMA DlRelinkedPrev ==
  ASSUME NEW cells \in [Addr -> DlNodes], NEW a \in Addr, NEW b \in Addr, a # b,
         NEW m \in DlNodes, NEW q \in Addr \union {Null}, NEW cells2,
         \/ cells2 = [cells EXCEPT ![a] = m, ![b].prev = q]
         \/ cells2 = [[cells EXCEPT ![b].prev = q] EXCEPT ![a] = m],
         NEW p
  PROVE  DlRelink(cells, a, m, {}, p, {b}, q, cells2)
<1> DEFINE r == [cells[b] EXCEPT !.prev = q]
<1>1. r \in DlNodes /\ r.next = cells[b].next /\ r.prev = q /\ r.data = cells[b].data
  BY DEF DlNodes
<1>2. cells2 = [x \in Addr |-> IF x = a THEN m ELSE IF x = b THEN r ELSE cells[x]]
  OBVIOUS
<1> HIDE DEF r
<1> QED BY <1>1, <1>2 DEF DlRelink

LEMMA DlRelinkedBoth ==
  ASSUME NEW cells \in [Addr -> DlNodes], NEW a \in Addr, NEW b \in Addr, NEW b2 \in Addr,
         a # b, a # b2, b # b2, NEW m \in DlNodes,
         NEW p \in Addr \union {Null}, NEW q \in Addr \union {Null}, NEW cells2,
         \/ cells2 = [cells EXCEPT ![b].next = p, ![b2].prev = q, ![a] = m]
         \/ cells2 = [[cells EXCEPT ![b].next = p, ![b2].prev = q] EXCEPT ![a] = m]
  PROVE  DlRelink(cells, a, m, {b}, p, {b2}, q, cells2)
<1> DEFINE r  == [cells[b] EXCEPT !.next = p]
           r2 == [cells[b2] EXCEPT !.prev = q]
<1>1. r \in DlNodes /\ r.next = p /\ r.prev = cells[b].prev /\ r.data = cells[b].data
  BY DEF DlNodes
<1>2. r2 \in DlNodes /\ r2.next = cells[b2].next /\ r2.prev = q /\ r2.data = cells[b2].data
  BY DEF DlNodes
<1>3. cells2 = [x \in Addr |-> IF x = a THEN m ELSE IF x = b THEN r
                               ELSE IF x = b2 THEN r2 ELSE cells[x]]
  OBVIOUS
<1> HIDE DEF r, r2
<1> QED BY <1>1, <1>2, <1>3 DEF DlRelink

LEMMA DlNodeType ==
  /\ \A d \in Data, q, p \in Addr \union {Null} : Dl!Node(d, q, p) \in DlNodes
  /\ \A d, q, p : /\ Dl!Node(d, q, p).data = d
                  /\ Dl!Node(d, q, p).prev = q /\ Dl!Node(d, q, p).next = p
  /\ Dl!Blank \in DlNodes
BY DEF Dl!Node, Dl!Blank, DlNodes

\* The node a is put between the neighbours of the j-th place.
LEMMA DlLinksIn ==
  ASSUME NEW c, DlHas(c), NEW j \in 1 .. length + 1, NEW a \in Addr \ live, NEW d \in Data,
         NEW m, m.data = d, m.prev = (IF j = 1 THEN Null ELSE c[j - 1]),
         m.next = (IF j = length + 1 THEN Null ELSE c[j]),
         NEW B, NEW Q, NEW p, NEW q, DlRelink(heap, a, m, B, p, Q, q, heap'),
         B # {} => p = a, Q # {} => q = a,
         \A k \in 1 .. length : (c[k] \in B <=> k = j - 1) /\ (c[k] \in Q <=> k = j),
         head' = (IF j = 1 THEN a ELSE head),
         length' = length + 1, live' = live \union {a}, out' = Void
  PROVE  DlGrew(j, d)
<1>1. Chain(c, head, length, heap) /\ live = Among(c, length) BY DEF DlHas
<1>2. length \in Nat /\ \A k \in 1 .. length : c[k] \in Addr \ {a}
  <2>1. length \in Nat /\ \A k \in 1 .. length : c[k] \in Addr BY <1>1, LenOfChain
  <2>2. \A k \in 1 .. length : c[k] # a BY <1>1 DEF Among
  <2> QED BY <2>1, <2>2
<1>3. j > 1 => j - 1 \in 1 .. length BY <1>2
<1>4. j <= length => j \in 1 .. length BY <1>2
<1>5. \A k \in 1 .. length :
        /\ heap'[c[k]].data = heap[c[k]].data
        /\ heap'[c[k]].next = IF k = j - 1 THEN a ELSE heap[c[k]].next
        /\ heap'[c[k]].prev = IF k = j THEN a ELSE heap[c[k]].prev
  <2> SUFFICES ASSUME NEW k \in 1 .. length
               PROVE  /\ heap'[c[k]].data = heap[c[k]].data
                      /\ heap'[c[k]].next = IF k = j - 1 THEN a ELSE heap[c[k]].next
                      /\ heap'[c[k]].prev = IF k = j THEN a ELSE heap[c[k]].prev
    OBVIOUS
  <2>1. /\ heap'[c[k]].data = heap[c[k]].data
        /\ heap'[c[k]].next = IF c[k] \in B THEN p ELSE heap[c[k]].next
        /\ heap'[c[k]].prev = IF c[k] \in Q THEN q ELSE heap[c[k]].prev
    BY <1>2 DEF DlRelink
  <2> QED BY <2>1
<1>6. heap'[a] = m /\ heap' \in [Addr -> DlNodes] BY DEF DlRelink
<1>7. LinkedIn(c, head, length, heap, j, a, d, head', heap')
  BY <1>3, <1>5, <1>6 DEF LinkedIn
<1>8. BackedIn(c, length, heap, j, a, heap') BY <1>4, <1>5, <1>6 DEF BackedIn
<1> QED BY <1>6, <1>7, <1>8, DlGrows

\* What uga_dl_list does with the node it takes out, but for the links.
DlFrees(node) ==
  /\ length' = length - 1 /\ live' = live \ {node} /\ out' = heap[node].data
  /\ err' = FALSE

\* The head when the j-th node goes.
HeadWithout(c, h, n, j) == IF j > 1 THEN h ELSE IF n = 1 THEN Null ELSE c[2]

\* B is the node before the j-th, if any, Q the one behind it: their new links.
Bypassed(c, n, j, B, p, Q, q) ==
  /\ B # {} => p = IF j = n THEN Null ELSE c[j + 1]
  /\ Q # {} => q = IF j = 1 THEN Null ELSE c[j - 1]
  /\ \A k \in 1 .. n : k # j => (c[k] \in B <=> k = j - 1) /\ (c[k] \in Q <=> k = j + 1)

\* The neighbours of the j-th node are linked with each other, and it is freed.
LEMMA DlLinksOut ==
  ASSUME NEW c, DlHas(c), NEW j \in 1 .. length, DlFrees(c[j]),
         NEW B, NEW Q, NEW p, NEW q, DlRelink(heap, c[j], Dl!Blank, B, p, Q, q, heap'),
         Bypassed(c, length, j, B, p, Q, q),
         head' = HeadWithout(c, head, length, j)
  PROVE  DlTook(j) /\ err' = FALSE
<1>1. Chain(c, head, length, heap) BY DEF DlHas
<1>2. /\ length \in Nat /\ \A k \in 1 .. length : c[k] \in Addr
      /\ \A k \in 1 .. length : k # j => c[k] # c[j]
  BY <1>1, LenOfChain DEF Chain, NoneTwice
<1>3. j > 1 => j - 1 \in 1 .. length /\ j - 1 # j BY <1>2
<1>4. j < length => j + 1 \in 1 .. length /\ j + 1 # j BY <1>2
<1>5. \A k \in 1 .. length : k # j =>
        /\ heap'[c[k]].data = heap[c[k]].data
        /\ heap'[c[k]].next = IF k = j - 1 THEN (IF j = length THEN Null ELSE c[j + 1])
                              ELSE heap[c[k]].next
        /\ heap'[c[k]].prev = IF k = j + 1 THEN (IF j = 1 THEN Null ELSE c[j - 1])
                              ELSE heap[c[k]].prev
  <2> SUFFICES ASSUME NEW k \in 1 .. length, k # j
               PROVE  /\ heap'[c[k]].data = heap[c[k]].data
                      /\ heap'[c[k]].next = IF k = j - 1
                                            THEN (IF j = length THEN Null ELSE c[j + 1])
                                            ELSE heap[c[k]].next
                      /\ heap'[c[k]].prev = IF k = j + 1
                                            THEN (IF j = 1 THEN Null ELSE c[j - 1])
                                            ELSE heap[c[k]].prev
    OBVIOUS
  <2>1. /\ heap'[c[k]].data = heap[c[k]].data
        /\ heap'[c[k]].next = IF c[k] \in B THEN p ELSE heap[c[k]].next
        /\ heap'[c[k]].prev = IF c[k] \in Q THEN q ELSE heap[c[k]].prev
    BY <1>2 DEF DlRelink
  <2> QED BY <2>1 DEF Bypassed
<1>6. heap' \in [Addr -> DlNodes] BY DEF DlRelink
<1>7. LinkedOut(c, head, length, heap, j, head', heap')
  BY <1>3, <1>5 DEF LinkedOut, HeadWithout
<1>8. BackedOut(c, length, heap, j, heap') BY <1>4, <1>5 DEF BackedOut
<1>9. /\ length' = length - 1 /\ live' = live \ {c[j]} /\ out' = heap[c[j]].data
      /\ err' = FALSE
  BY DEF DlFrees
<1> QED BY <1>6, <1>7, <1>8, <1>9, DlTakes

\* What is known of the nodes before a step.
LEMMA DlNeighbours ==
  ASSUME NEW c, DlHas(c)
  PROVE  /\ heap \in [Addr -> DlNodes] /\ length \in Nat
         /\ \A k \in 1 .. length : c[k] \in Addr
         /\ \A k, l \in 1 .. length : c[k] = c[l] => k = l
         /\ \A k \in 1 .. length : c[k] \in live
         /\ \A k \in 1 .. length : heap[c[k]].next = IF k = length THEN Null ELSE c[k + 1]
         /\ \A k \in 1 .. length : heap[c[k]].prev = IF k = 1 THEN Null ELSE c[k - 1]
         /\ length > 0 => head = c[1]
BY LenOfChain DEF DlHas, Chain, NoneTwice, Among, Backed

LEMMA DlPushFrontStep ==
  ASSUME DlLinked, NEW d \in Data, Dl!PushFront(d)
  PROVE  DlGrew(1, d) /\ err' = FALSE
<1>1. PICK a \in Addr :
        /\ Dl!Allocate(a) /\ Dl!Grow /\ head' = a
        /\ heap' = IF length = 0
                   THEN [heap EXCEPT ![a] = Dl!Node(d, Null, Null)]
                   ELSE [heap EXCEPT ![a] = Dl!Node(d, Null, head), ![head].prev = a]
  BY DEF Dl!PushFront
<1>2. /\ a \in Addr \ live /\ live' = live \union {a} /\ length' = length + 1
      /\ out' = Void /\ err' = FALSE /\ head' = a
  BY <1>1 DEF Dl!Allocate, Dl!Grow
<1>3. PICK c : DlHas(c) BY DEF DlLinked
<1>4. 1 \in 1 .. length + 1 /\ length \in Nat /\ \A k \in 1 .. length : k # 1 - 1
  BY <1>3, DlNeighbours
<1>5. CASE length = 0
  <2>. PICK m : m = Dl!Node(d, Null, Null) OBVIOUS
  <2>1. m \in DlNodes /\ m.data = d /\ m.prev = Null /\ m.next = Null BY DlNodeType
  <2>2. DlRelink(heap, a, m, {}, a, {}, a, heap')
    BY <1>1, <1>3, <1>5, <2>1, DlNeighbours, DlRelinkedNone
  <2>3. 1 = length + 1 /\ \A k \in 1 .. length : FALSE BY <1>5
  <2>4. DlGrew(1, d) BY <1>2, <1>3, <1>4, <2>1, <2>2, <2>3, DlLinksIn
  <2> QED BY <1>2, <2>4
<1>6. CASE length # 0
  <2>. PICK m, b : m = Dl!Node(d, Null, head) /\ b = head OBVIOUS
  <2>1. b = c[1] /\ b \in Addr /\ b # a /\ 1 \in 1 .. length
    BY <1>2, <1>3, <1>4, <1>6, DlNeighbours
  <2>2. m \in DlNodes /\ m.data = d /\ m.prev = Null /\ m.next = b BY <2>1, DlNodeType
  <2>3. DlRelink(heap, a, m, {}, a, {b}, a, heap')
    BY <1>1, <1>3, <1>6, <2>1, <2>2, DlNeighbours, DlRelinkedPrev
  <2>4. \A k \in 1 .. length : c[k] \in {b} <=> k = 1 BY <1>3, <2>1, DlNeighbours
  <2>5. 1 # length + 1 BY <1>4, <1>6
  <2>6. DlGrew(1, d)
    BY <1>2, <1>3, <1>4, <2>1, <2>2, <2>3, <2>4, <2>5, DlLinksIn
  <2> QED BY <1>2, <2>6
<1> QED BY <1>5, <1>6

LEMMA DlPushBackStep ==
  ASSUME DlLinked, NEW d \in Data, Dl!PushBack(d)
  PROVE  DlGrew(length + 1, d) /\ err' = FALSE
<1>1. PICK a \in Addr :
        /\ Dl!Allocate(a) /\ Dl!Grow
        /\ IF length = 0
           THEN head' = a /\ heap' = [heap EXCEPT ![a] = Dl!Node(d, Null, Null)]
           ELSE /\ heap' = [heap EXCEPT ![a] = Dl!Node(d, Dl!LastNode, Null),
                                        ![Dl!LastNode].next = a]
                /\ UNCHANGED head
  BY DEF Dl!PushBack
<1>2. /\ a \in Addr \ live /\ live' = live \union {a} /\ length' = length + 1
      /\ out' = Void /\ err' = FALSE
  BY <1>1 DEF Dl!Allocate, Dl!Grow
<1>3. PICK c : DlHas(c) BY DEF DlLinked
<1>4. /\ length \in Nat /\ length + 1 \in 1 .. length + 1
      /\ \A k \in 1 .. length : k # length + 1
  BY <1>3, DlNeighbours
<1>5. CASE length = 0
  <2>. PICK m : m = Dl!Node(d, Null, Null) OBVIOUS
  <2>1. m \in DlNodes /\ m.data = d /\ m.prev = Null /\ m.next = Null BY DlNodeType
  <2>2. DlRelink(heap, a, m, {}, a, {}, a, heap')
    BY <1>1, <1>3, <1>5, <2>1, DlNeighbours, DlRelinkedNone
  <2>3. DlGrew(length + 1, d) BY <1>1, <1>2, <1>3, <1>5, <2>1, <2>2, DlLinksIn
  <2> QED BY <1>2, <2>3
<1>6. CASE length # 0
  <2>. PICK m, b : m = Dl!Node(d, Dl!LastNode, Null) /\ b = Dl!LastNode OBVIOUS
  <2>1. b = c[length] /\ b \in Addr /\ b # a /\ length \in 1 .. length
    BY <1>2, <1>3, <1>4, <1>6, DlNeighbours, DlSeen
  <2>2. m \in DlNodes /\ m.data = d /\ m.prev = b /\ m.next = Null BY <2>1, DlNodeType
  <2>3. DlRelink(heap, a, m, {b}, a, {}, a, heap')
    BY <1>1, <1>3, <1>6, <2>1, <2>2, DlNeighbours, DlRelinkedNext
  <2>4. \A k \in 1 .. length : c[k] \in {b} <=> k = length BY <1>3, <2>1, DlNeighbours
  <2>5. length + 1 # 1 /\ (length + 1) - 1 = length BY <1>4, <1>6
  <2>6. head' = head BY <1>1, <1>6
  <2>7. DlGrew(length + 1, d)
    BY <1>2, <1>3, <1>4, <2>1, <2>2, <2>3, <2>4, <2>5, <2>6, DlLinksIn
  <2> QED BY <1>2, <2>7
<1> QED BY <1>5, <1>6

LEMMA DlInsertAtStep ==
  ASSUME DlLinked, NEW d \in Data, NEW index \in Int, Dl!InsertAt(index, d)
  PROVE  /\ DlGrew(IF index <= 0 THEN 1 ELSE IF index >= length THEN length + 1
                   ELSE index + 1, d)
         /\ err' = FALSE
<1>1. PICK c : DlHas(c) BY DEF DlLinked
<1>2. length \in Nat BY <1>1, DlNeighbours
<1>3. CASE index <= 0
  <2>1. Dl!PushFront(d) BY <1>2, <1>3 DEF Dl!InsertAt
  <2> QED BY <1>3, <2>1, DlPushFrontStep
<1>4. CASE index > 0 /\ index >= length
  <2>1. Dl!PushBack(d) BY <1>2, <1>4 DEF Dl!InsertAt
  <2>2. DlGrew(length + 1, d) /\ err' = FALSE BY <2>1, DlPushBackStep
  <2> QED BY <1>4, <2>2
<1>5. CASE index \in 1 .. length - 1
  <2>. PICK b, b2 : b2 = Dl!NodeAt(index) /\ b = heap[b2].prev OBVIOUS
  <2>1. PICK a \in Addr :
          /\ Dl!Allocate(a) /\ Dl!Grow /\ UNCHANGED head
          /\ heap' = [heap EXCEPT ![b].next = a, ![b2].prev = a, ![a] = Dl!Node(d, b, b2)]
    <3>1. ~(index <= 0) /\ ~(index > 0 /\ index >= length) BY <1>2, <1>5
    <3> QED BY <3>1 DEF Dl!InsertAt
  <2>2. /\ a \in Addr \ live /\ live' = live \union {a} /\ length' = length + 1
        /\ out' = Void /\ err' = FALSE /\ head' = head
    BY <2>1 DEF Dl!Allocate, Dl!Grow
  <2>3. /\ index \in 0 .. length - 1 /\ index \in 1 .. length /\ index + 1 \in 1 .. length
        /\ index + 1 # 1 /\ (index + 1) - 1 = index /\ index + 1 # length + 1
        /\ index + 1 \in 1 .. length + 1 /\ index # index + 1
    BY <1>2, <1>5
  <2>4. b2 = c[index + 1] BY <1>1, <2>3, DlSeen
  <2>5. b = c[index] BY <1>1, <2>3, <2>4, DlNeighbours
  <2>6. b \in Addr /\ b2 \in Addr /\ a # b /\ a # b2 /\ b # b2
    BY <1>1, <2>2, <2>3, <2>4, <2>5, DlNeighbours
  <2>. PICK m : m = Dl!Node(d, b, b2) OBVIOUS
  <2>7. m \in DlNodes /\ m.data = d /\ m.prev = b /\ m.next = b2 BY <2>6, DlNodeType
  <2>8. DlRelink(heap, a, m, {b}, a, {b2}, a, heap')
    BY <1>1, <2>1, <2>6, <2>7, DlNeighbours, DlRelinkedBoth
  <2>9. \A k \in 1 .. length : (c[k] \in {b} <=> k = index) /\ (c[k] \in {b2} <=> k = index + 1)
    BY <1>1, <2>3, <2>4, <2>5, DlNeighbours
  <2>10. DlGrew(index + 1, d)
    BY <1>1, <2>2, <2>3, <2>4, <2>5, <2>7, <2>8, <2>9, DlLinksIn
  <2>11. ~(index <= 0) /\ ~(index >= length) BY <1>2, <1>5
  <2> QED BY <2>2, <2>10, <2>11
<1>6. index <= 0 \/ (index > 0 /\ index >= length) \/ index \in 1 .. length - 1 BY <1>2
<1> QED BY <1>3, <1>4, <1>5, <1>6, Zenon

\* The j-th element was handed back, or there is none and the call failed.
DlTakesOut(there, j) ==
  IF there THEN DlTook(j) /\ err' = FALSE ELSE Dl!Fail

\* The only node goes.
LEMMA DlOnlyGoes ==
  ASSUME NEW c, DlHas(c), length = 1, Dl!Take(head, heap), head' = Null
  PROVE  DlTook(1) /\ err' = FALSE
<1>1. /\ heap \in [Addr -> DlNodes] /\ 1 \in 1 .. length /\ c[1] \in Addr /\ head = c[1]
  BY DlNeighbours
<1>2. Dl!Take(c[1], heap) BY <1>1
<1>3. heap' = [heap EXCEPT ![c[1]] = Dl!Blank] BY <1>2 DEF Dl!Take
<1>4. Dl!Blank \in DlNodes BY DlNodeType
<1>5. DlRelink(heap, c[1], Dl!Blank, {}, Null, {}, Null, heap')
  BY <1>1, <1>3, <1>4, DlRelinkedNone
<1>6. Bypassed(c, length, 1, {}, Null, {}, Null) BY DEF Bypassed
<1>7. head' = HeadWithout(c, head, length, 1) BY DEF HeadWithout
<1>8. DlFrees(c[1]) BY <1>2 DEF Dl!Take, DlFrees
<1> QED BY <1>1, <1>5, <1>6, <1>7, <1>8, DlLinksOut

LEMMA DlPopFrontStep ==
  ASSUME DlLinked, Dl!PopFront
  PROVE  DlTakesOut(length # 0, 1)
<1>1. PICK c : DlHas(c) BY DEF DlLinked
<1>2. length \in Nat BY <1>1, DlNeighbours
<1>3. CASE length = 0 BY <1>3 DEF Dl!PopFront, DlTakesOut
<1>4. CASE length = 1
  <2>1. Dl!Take(head, heap) /\ head' = Null BY <1>4 DEF Dl!PopFront
  <2>2. DlTook(1) /\ err' = FALSE BY <1>1, <1>4, <2>1, DlOnlyGoes
  <2> QED BY <1>4, <2>2 DEF DlTakesOut
<1>5. CASE length > 1
  <2>. PICK b : b = heap[head].next OBVIOUS
  <2>1. head' = b /\ Dl!Take(head, [heap EXCEPT ![b].prev = Null])
    BY <1>5 DEF Dl!PopFront
  <2>2. 1 \in 1 .. length /\ 2 \in 1 .. length /\ 1 + 1 = 2 /\ length # 1 BY <1>2, <1>5
  <2>3. /\ heap \in [Addr -> DlNodes] /\ head = c[1] /\ b = c[2]
        /\ c[1] \in Addr /\ b \in Addr /\ c[1] # b
        /\ \A k, l \in 1 .. length : c[k] = c[l] => k = l
    BY <1>1, <2>2, DlNeighbours
  <2>4. Dl!Take(c[1], [heap EXCEPT ![b].prev = Null]) BY <2>1, <2>3
  <2>5. heap' = [[heap EXCEPT ![b].prev = Null] EXCEPT ![c[1]] = Dl!Blank]
    BY <2>4 DEF Dl!Take
  <2>6. Dl!Blank \in DlNodes BY DlNodeType
  <2>7. DlRelink(heap, c[1], Dl!Blank, {}, Null, {b}, Null, heap')
    BY <2>3, <2>5, <2>6, DlRelinkedPrev
  <2>8. Bypassed(c, length, 1, {}, Null, {b}, Null) BY <2>2, <2>3 DEF Bypassed
  <2>9. head' = HeadWithout(c, head, length, 1) BY <2>1, <2>2, <2>3 DEF HeadWithout
  <2>10. DlFrees(c[1]) BY <2>4 DEF Dl!Take, DlFrees
  <2>11. DlTook(1) /\ err' = FALSE
    BY <1>1, <2>2, <2>7, <2>8, <2>9, <2>10, DlLinksOut
  <2> QED BY <1>5, <2>11 DEF DlTakesOut
<1>6. length = 0 \/ length = 1 \/ length > 1 BY <1>2
<1> QED BY <1>3, <1>4, <1>5, <1>6, Zenon

LEMMA DlPopBackStep ==
  ASSUME DlLinked, Dl!PopBack
  PROVE  DlTakesOut(length # 0, length)
<1>1. PICK c : DlHas(c) BY DEF DlLinked
<1>2. length \in Nat BY <1>1, DlNeighbours
<1>3. CASE length = 0 BY <1>3 DEF Dl!PopBack, DlTakesOut
<1>4. CASE length = 1
  <2>1. Dl!Take(head, heap) /\ head' = Null BY <1>4 DEF Dl!PopBack
  <2>2. DlTook(1) /\ err' = FALSE BY <1>1, <1>4, <2>1, DlOnlyGoes
  <2> QED BY <1>4, <2>2 DEF DlTakesOut
<1>5. CASE length > 1
  <2>. PICK b : b = heap[Dl!LastNode].prev OBVIOUS
  <2>1. head' = head /\ Dl!Take(Dl!LastNode, [heap EXCEPT ![b].next = Null])
    BY <1>5 DEF Dl!PopBack
  <2>2. /\ length \in 1 .. length /\ length - 1 \in 1 .. length /\ length - 1 # length
        /\ length # 1 /\ length > 0
    BY <1>2, <1>5
  <2>3. Dl!LastNode = c[length] BY <1>1, <2>2, DlSeen
  <2>4. /\ heap \in [Addr -> DlNodes] /\ b = c[length - 1]
        /\ c[length] \in Addr /\ b \in Addr /\ c[length] # b
        /\ \A k, l \in 1 .. length : c[k] = c[l] => k = l
    BY <1>1, <2>2, <2>3, DlNeighbours
  <2>5. Dl!Take(c[length], [heap EXCEPT ![b].next = Null]) BY <2>1, <2>3
  <2>6. heap' = [[heap EXCEPT ![b].next = Null] EXCEPT ![c[length]] = Dl!Blank]
    BY <2>5 DEF Dl!Take
  <2>7. Dl!Blank \in DlNodes BY DlNodeType
  <2>8. DlRelink(heap, c[length], Dl!Blank, {b}, Null, {}, Null, heap')
    BY <2>4, <2>6, <2>7, DlRelinkedNext
  <2>9. Bypassed(c, length, length, {b}, Null, {}, Null) BY <1>2, <2>2, <2>4 DEF Bypassed
  <2>10. head' = HeadWithout(c, head, length, length) BY <1>5, <2>1 DEF HeadWithout
  <2>11. DlFrees(c[length]) BY <2>5 DEF Dl!Take, DlFrees
  <2>12. DlTook(length) /\ err' = FALSE
    BY <1>1, <2>2, <2>8, <2>9, <2>10, <2>11, DlLinksOut
  <2> QED BY <1>5, <2>12 DEF DlTakesOut
<1>6. length = 0 \/ length = 1 \/ length > 1 BY <1>2
<1> QED BY <1>3, <1>4, <1>5, <1>6, Zenon

LEMMA DlRemoveAtStep ==
  ASSUME DlLinked, NEW index \in Int, Dl!RemoveAt(index)
  PROVE  DlTakesOut(index \in 0 .. length - 1, index + 1)
<1>1. PICK c : DlHas(c) BY DEF DlLinked
<1>2. length \in Nat BY <1>1, DlNeighbours
<1>3. CASE index \notin 0 .. length - 1
  <2>1. Dl!Fail BY <1>2, <1>3 DEF Dl!RemoveAt
  <2> QED BY <1>3, <2>1 DEF DlTakesOut
<1>4. CASE index = 0 /\ index < length
  <2>1. Dl!PopFront BY <1>2, <1>4 DEF Dl!RemoveAt
  <2>2. length # 0 /\ index \in 0 .. length - 1 /\ index + 1 = 1 BY <1>2, <1>4
  <2>3. DlTook(1) /\ err' = FALSE BY <2>1, <2>2, DlPopFrontStep DEF DlTakesOut
  <2> QED BY <2>2, <2>3 DEF DlTakesOut
<1>5. CASE index > 0 /\ index = length - 1
  <2>1. Dl!PopBack BY <1>2, <1>5 DEF Dl!RemoveAt
  <2>2. length # 0 /\ index \in 0 .. length - 1 /\ index + 1 = length BY <1>2, <1>5
  <2>3. DlTook(length) /\ err' = FALSE BY <2>1, <2>2, DlPopBackStep DEF DlTakesOut
  <2> QED BY <2>2, <2>3 DEF DlTakesOut
<1>6. CASE index \in 1 .. length - 2
  <2>. PICK n, b, b2 : /\ n = Dl!NodeAt(index)
                       /\ b = heap[n].prev /\ b2 = heap[n].next
    OBVIOUS
  <2>1. /\ head' = head
        /\ Dl!Take(n, [heap EXCEPT ![b].next = b2, ![b2].prev = b])
    BY <1>2, <1>6 DEF Dl!RemoveAt
  <2>2. /\ index \in 0 .. length - 1 /\ index \in 1 .. length /\ index + 1 \in 1 .. length
        /\ index + 2 \in 1 .. length /\ index + 1 # 1 /\ index + 1 # length
        /\ (index + 1) - 1 = index /\ (index + 1) + 1 = index + 2 /\ index + 1 > 1
        /\ index # index + 1 /\ index # index + 2 /\ index + 1 # index + 2
    BY <1>2, <1>6
  <2>3. n = c[index + 1] BY <1>1, <2>2, DlSeen
  <2>4. heap \in [Addr -> DlNodes] /\ b = c[index] /\ b2 = c[index + 2]
    BY <1>1, <2>2, <2>3, DlNeighbours
  <2>5. /\ n \in Addr /\ b \in Addr /\ b2 \in Addr /\ n # b /\ n # b2 /\ b # b2
        /\ \A k, l \in 1 .. length : c[k] = c[l] => k = l
    BY <1>1, <2>2, <2>3, <2>4, DlNeighbours
  <2>6. heap' = [[heap EXCEPT ![b].next = b2, ![b2].prev = b] EXCEPT ![n] = Dl!Blank]
    BY <2>1 DEF Dl!Take
  <2>7. Dl!Blank \in DlNodes BY DlNodeType
  <2>8. DlRelink(heap, n, Dl!Blank, {b}, b2, {b2}, b, heap')
    BY <2>4, <2>5, <2>6, <2>7, DlRelinkedBoth
  <2>9. Bypassed(c, length, index + 1, {b}, b2, {b2}, b) BY <2>2, <2>4, <2>5 DEF Bypassed
  <2>10. head' = HeadWithout(c, head, length, index + 1) BY <2>1, <2>2 DEF HeadWithout
  <2>11. DlFrees(c[index + 1]) BY <2>1, <2>3 DEF Dl!Take, DlFrees
  <2>12. DlTook(index + 1) /\ err' = FALSE
    BY <1>1, <2>2, <2>3, <2>4, <2>8, <2>9, <2>10, <2>11, DlLinksOut
  <2> QED BY <2>2, <2>12 DEF DlTakesOut
<1>7. \/ index \notin 0 .. length - 1 \/ (index = 0 /\ index < length)
      \/ (index > 0 /\ index = length - 1) \/ index \in 1 .. length - 2
  BY <1>2
<1> QED BY <1>3, <1>4, <1>5, <1>6, <1>7, Zenon

\* What the call says of itself: result, error.
DlTold ==
  /\ err' \in BOOLEAN /\ out' \in Data \union {Void, Failed}
  /\ Dl!ErrorTellsFailure'

LEMMA DlTells ==
  ASSUME NEW name, NEW i, Dl!Called(name, i)
  PROVE  /\ err' = FALSE /\ out' \in Data \union {Void} => DlTold
         /\ Dl!Fail => DlTold
         /\ name = "at" /\ err' = FALSE /\ out' \in Data \union {Void, Failed} => DlTold
         /\ name \in {"peek_front", "destroy"} /\ err' \in BOOLEAN /\ out' \in Data \union {Void}
              => DlTold
<1>1. call'[1] = name BY DEF Dl!Called
<1>2. Failed \notin Data \union {Void} BY CapType
<1>3. ASSUME err' = FALSE, out' \in Data \union {Void} PROVE DlTold
  BY <1>2, <1>3 DEF DlTold, Dl!ErrorTellsFailure
<1>4. ASSUME Dl!Fail PROVE DlTold BY <1>4 DEF DlTold, Dl!ErrorTellsFailure, Dl!Fail
<1>5. ASSUME name = "at", err' = FALSE, out' \in Data \union {Void, Failed} PROVE DlTold
  BY <1>1, <1>5 DEF DlTold, Dl!ErrorTellsFailure
<1>6. ASSUME name \in {"peek_front", "destroy"}, err' \in BOOLEAN, out' \in Data \union {Void}
      PROVE  DlTold
  <2>1. out' # Failed BY <1>2, <1>6
  <2> QED BY <1>1, <1>6, <2>1 DEF DlTold, Dl!ErrorTellsFailure
<1> QED BY <1>3, <1>4, <1>5, <1>6

LEMMA DlLen ==
  ASSUME DlLinked
  PROVE  /\ length \in Nat /\ Len(Dl!Elements) = length
         /\ length = 0 => Dl!Elements = <<>>
         /\ \A k \in 1 .. length : Dl!Elements[k] \in Data \union {Void}
<1>1. PICK c : DlHas(c) BY DEF DlLinked
<1> QED BY <1>1, DlElements

LEMMA DlInserts ==
  ASSUME DlLinked, NEW d \in Data, NEW index \in Int,
         DlGrew(IF index <= 0 THEN 1 ELSE IF index >= length THEN length + 1 ELSE index + 1, d)
  PROVE  DlLinked' /\ Dl!List!Insert(index, d) /\ out' \in Data \union {Void}
<1>1. length \in Nat /\ Len(Dl!Elements) = length BY DlLen
<1>2. Dl!List!Insertion(index)
        = IF index <= 0 THEN 1 ELSE IF index >= length THEN length + 1 ELSE index + 1
  BY <1>1 DEF Dl!List!Insertion
<1> QED BY <1>2 DEF DlGrew, Dl!List!Insert

\* Nothing but the result changes.
LEMMA DlKept ==
  ASSUME DlLinked, UNCHANGED <<head, length, heap, live>>
  PROVE  DlLinked' /\ Dl!Elements' = Dl!Elements
<1>1. PICK c : DlHas(c) BY DEF DlLinked
<1>2. DlHas(c)' BY <1>1 DEF DlHas
<1>3. Dl!Elements = Content(c, length, heap) BY <1>1, DlSeen
<1>4. Dl!Elements' = Content(c, length', heap') BY <1>2, DlSeenNext
<1> QED BY <1>2, <1>3, <1>4 DEF DlLinked

LEMMA DlReads ==
  ASSUME DlLinked, NEW index \in Int,
         IF index \in 0 .. length - 1
         THEN Dl!Return(Dl!Elements[index + 1]) ELSE Dl!Return(Failed)
  PROVE  /\ DlLinked' /\ Dl!List!Read(index)
         /\ index \in 0 .. length - 1 => out' \in Data \union {Void}
         /\ out' \in Data \union {Void, Failed}
<1>1. /\ length \in Nat /\ Len(Dl!Elements) = length
      /\ \A k \in 1 .. length : Dl!Elements[k] \in Data \union {Void}
  BY DlLen
<1>2. UNCHANGED <<head, length, heap, live>> BY DEF Dl!Return
<1>3. DlLinked' /\ Dl!Elements' = Dl!Elements BY <1>2, DlKept
<1>4. Dl!List!InRange(index) <=> index \in 0 .. length - 1 BY <1>1 DEF Dl!List!InRange
<1>5. out' = IF index \in 0 .. length - 1 THEN Dl!Elements[index + 1] ELSE Failed
  BY DEF Dl!Return
<1>6. index \in 0 .. length - 1 => Dl!Elements[index + 1] \in Data \union {Void}
  <2>1. index \in 0 .. length - 1 => index + 1 \in 1 .. length BY <1>1
  <2> QED BY <1>1, <2>1
<1>7. Dl!List!Read(index) BY <1>3, <1>4, <1>5 DEF Dl!List!Read
<1> QED BY <1>3, <1>5, <1>6, <1>7

LEMMA DlRemoves ==
  ASSUME DlLinked, NEW index \in Int, DlTakesOut(index \in 0 .. length - 1, index + 1)
  PROVE  /\ DlLinked' /\ Dl!List!TakeOut(index)
         /\ (err' = FALSE /\ out' \in Data \union {Void}) \/ Dl!Fail
<1>1. /\ length \in Nat /\ Len(Dl!Elements) = length
      /\ \A k \in 1 .. length : Dl!Elements[k] \in Data \union {Void}
  BY DlLen
<1>2. Dl!List!InRange(index) <=> index \in 0 .. length - 1 BY <1>1 DEF Dl!List!InRange
<1>3. CASE index \in 0 .. length - 1
  <2>1. DlTook(index + 1) /\ err' = FALSE BY <1>3 DEF DlTakesOut
  <2>2. index + 1 \in 1 .. length BY <1>1, <1>3
  <2>3. out' \in Data \union {Void} BY <1>1, <2>1, <2>2 DEF DlTook
  <2>4. Dl!List!TakeOut(index) BY <1>2, <1>3, <2>1 DEF Dl!List!TakeOut, DlTook
  <2> QED BY <2>1, <2>3, <2>4 DEF DlTook
<1>4. CASE index \notin 0 .. length - 1
  <2>1. Dl!Fail BY <1>4 DEF DlTakesOut
  <2>2. out' = Failed /\ UNCHANGED <<head, length, heap, live>> BY <2>1 DEF Dl!Fail
  <2>3. DlLinked' /\ Dl!Elements' = Dl!Elements BY <2>2, DlKept
  <2>4. Dl!List!TakeOut(index) BY <1>2, <1>4, <2>2, <2>3 DEF Dl!List!TakeOut
  <2> QED BY <2>1, <2>3, <2>4
<1> QED BY <1>3, <1>4

\* A reading call on an empty list fails.
LEMMA DlReadsNothing ==
  ASSUME DlLinked, NEW index \in Int, index \notin 0 .. length - 1, Dl!Fail
  PROVE  DlLinked' /\ Dl!List!Read(index)
<1>1. Dl!Return(Failed) BY DEF Dl!Fail, Dl!Return
<1> QED BY <1>1, DlReads

LEMMA DlPeekFrontStep ==
  ASSUME DlInv, Dl!PeekFront, Dl!Called("peek_front", 0)
  PROVE  DlLinked' /\ Dl!List!Read(0) /\ DlTold
<1>1. PICK c : DlHas(c) BY DEF DlInv, DlLinked
<1>2. length \in Nat /\ (length > 0 => head = c[1]) BY <1>1, DlNeighbours
<1>3. CASE length = 0
  <2>1. Dl!Fail /\ 0 \notin 0 .. length - 1 BY <1>3 DEF Dl!PeekFront
  <2>. PICK i : i = 0 OBVIOUS
  <2>2. i \in Int /\ i \notin 0 .. length - 1 BY <2>1
  <2>3. DlLinked' /\ Dl!List!Read(i) BY <2>1, <2>2, DlReadsNothing DEF DlInv
  <2>4. DlTold BY <2>1, DlTells
  <2> QED BY <2>3, <2>4
<1>4. CASE length # 0
  <2>1. Dl!Return(heap[head].data) /\ err' = err BY <1>4 DEF Dl!PeekFront
  <2>2. 0 \in 0 .. length - 1 /\ 1 \in 1 .. length /\ 0 + 1 = 1 BY <1>2, <1>4
  <2>3. heap[head].data = Dl!Elements[0 + 1] BY <1>1, <1>2, <2>2, DlElements
  <2>4. DlLinked' /\ Dl!List!Read(0) /\ out' \in Data \union {Void}
    BY <2>1, <2>2, <2>3, DlReads DEF DlInv
  <2>5. err' \in BOOLEAN BY <2>1 DEF DlInv
  <2> QED BY <2>4, <2>5, DlTells
<1> QED BY <1>3, <1>4

LEMMA DlPeekBackStep ==
  ASSUME DlInv, Dl!PeekBack, Dl!Called("peek_back", 0)
  PROVE  DlLinked' /\ Dl!List!Read(length - 1) /\ DlTold
<1>1. PICK c : DlHas(c) BY DEF DlInv, DlLinked
<1>2. length \in Nat BY <1>1, DlNeighbours
<1>3. CASE length = 0
  <2>1. Dl!Fail BY <1>3 DEF Dl!PeekBack
  <2>2. length - 1 \in Int /\ length - 1 \notin 0 .. length - 1 BY <1>3
  <2> QED BY <2>1, <2>2, DlReadsNothing, DlTells DEF DlInv
<1>4. CASE length # 0
  <2>1. Dl!Return(heap[Dl!LastNode].data) /\ err' = FALSE BY <1>4 DEF Dl!PeekBack
  <2>2. /\ length - 1 \in 0 .. length - 1 /\ length - 1 \in Int
        /\ (length - 1) + 1 = length /\ length \in 1 .. length /\ length > 0
    BY <1>2, <1>4
  <2>3. Dl!LastNode = c[length] BY <1>1, <2>2, DlSeen
  <2>4. heap[Dl!LastNode].data = Dl!Elements[(length - 1) + 1]
    BY <1>1, <2>2, <2>3, DlElements
  <2>5. DlLinked' /\ Dl!List!Read(length - 1) /\ out' \in Data \union {Void}
    BY <2>1, <2>2, <2>4, DlReads DEF DlInv
  <2> QED BY <2>1, <2>5, DlTells
<1> QED BY <1>3, <1>4

LEMMA DlAtStep ==
  ASSUME DlInv, NEW index \in Int, Dl!At(index), Dl!Called("at", index)
  PROVE  DlLinked' /\ Dl!List!Read(index) /\ DlTold
<1>1. PICK c : DlHas(c) BY DEF DlInv, DlLinked
<1>2. length \in Nat BY <1>1, DlNeighbours
<1>3. err' = FALSE BY DEF Dl!At
<1>4. IF index \in 0 .. length - 1
      THEN Dl!Return(Dl!Elements[index + 1]) ELSE Dl!Return(Failed)
  <2>1. CASE index \notin 0 .. length - 1 BY <2>1 DEF Dl!At
  <2>2. CASE index \in 0 .. length - 1
    <3>1. index + 1 \in 1 .. length BY <1>2, <2>2
    <3>2. Dl!NodeAt(index) = c[index + 1] BY <1>1, <2>2, DlSeen
    <3>3. heap[Dl!NodeAt(index)].data = Dl!Elements[index + 1]
      BY <1>1, <3>1, <3>2, DlElements
    <3>4. Dl!Return(heap[Dl!NodeAt(index)].data) BY <2>2 DEF Dl!At
    <3> QED BY <2>2, <3>3, <3>4
  <2> QED BY <2>1, <2>2
<1>5. DlLinked' /\ Dl!List!Read(index) /\ out' \in Data \union {Void, Failed}
  BY <1>4, DlReads DEF DlInv
<1> QED BY <1>3, <1>5, DlTells

LEMMA DlNoNodes ==
  ASSUME NEW cells \in [Addr -> DlNodes]
  PROVE  Chain(<<>>, Null, 0, cells) /\ Among(<<>>, 0) = {} /\ Backed(<<>>, 0, cells)
BY CapType DEF Chain, NoneTwice, Among, Backed

LEMMA DlDestroyStep ==
  ASSUME DlInv, Dl!Destroy, Dl!Called("destroy", 0)
  PROVE  DlLinked' /\ Dl!Elements' = <<>> /\ out' = Void /\ DlTold
<1>1. PICK c : DlHas(c) BY DEF DlInv, DlLinked
<1>2. live = {Dl!path[i] : i \in 0 .. length - 1} BY <1>1, DlSeen
<1>3. /\ live' = {} /\ head' = Null /\ length' = 0 /\ out' = Void
      /\ heap' = [a \in Addr |-> Dl!Blank]
  BY <1>2 DEF Dl!Destroy
<1>4. heap' \in [Addr -> DlNodes] BY <1>3, DlNodeType
<1>5. DlHas(<<>>)' BY <1>3, <1>4, DlNoNodes DEF DlHas
<1>6. Dl!Elements' = <<>>
  <2>1. Dl!Elements' = Content(<<>>, length', heap') BY <1>5, DlSeenNext
  <2> QED BY <1>3, <2>1, ContentSeq
<1>7. err' \in BOOLEAN BY DEF Dl!Destroy, DlInv
<1>8. DlTold
  <2>1. out' \in Data \union {Void} BY <1>3
  <2> QED BY <1>7, <2>1, DlTells
<1> QED BY <1>3, <1>5, <1>6, <1>8 DEF DlLinked

LEMMA DlInit ==
  ASSUME Dl!Init
  PROVE  DlInv /\ Dl!List!Init
<1>1. /\ live = {} /\ head = Null /\ length = 0 /\ out = Void /\ call = <<"create", 0>>
      /\ heap = [a \in Addr |-> Dl!Blank] /\ err = FALSE
  BY DEF Dl!Init
<1>2. heap \in [Addr -> DlNodes] BY <1>1, DlNodeType
<1>3. DlHas(<<>>) BY <1>1, <1>2, DlNoNodes DEF DlHas
<1>4. DlLinked BY <1>3 DEF DlLinked
<1>5. Dl!Elements = <<>> BY <1>1, <1>4, DlLen
<1> QED BY <1>1, <1>4, <1>5 DEF Dl!List!Init, DlInv

LEMMA DlStep ==
  ASSUME DlInv, Dl!Next
  PROVE  DlInv' /\ Dl!List!Next /\ Dl!ErrorTellsFailure'
<1>1. DlLinked /\ length \in Nat /\ Len(Dl!Elements) = length BY DlLen DEF DlInv
<1>2. Dl!Index = -1 .. Dl!Cardinality(Addr) /\ \A i \in Dl!Index : i \in Int
  BY DlCardinality, CapType DEF Dl!Index
<1>3. \A name, i : Dl!Called(name, i) <=> Dl!List!Called(name, i)
  BY DEF Dl!Called, Dl!List!Called
<1>4. Dl!List!FrontIndex = 0 /\ Dl!List!BackIndex = length - 1
  BY <1>1 DEF Dl!List!FrontIndex, Dl!List!BackIndex
<1> DEFINE Good == DlLinked' /\ Dl!List!Next /\ DlTold
<1>5. ASSUME NEW d \in Data, Dl!PushFront(d), Dl!Called("push_front", 0) PROVE Good
  <2>1. DlGrew(1, d) /\ err' = FALSE BY <1>1, <1>5, DlPushFrontStep
  <2>2. DlGrew(IF 0 <= 0 THEN 1 ELSE IF 0 >= length THEN length + 1 ELSE 0 + 1, d)
    BY <2>1
  <2>3. DlLinked' /\ Dl!List!Insert(0, d) /\ out' \in Data \union {Void}
    BY <1>1, <2>2, DlInserts
  <2>4. DlTold BY <1>5, <2>1, <2>3, DlTells
  <2> QED BY <1>3, <1>4, <1>5, <2>3, <2>4 DEF Dl!List!Next
<1>6. ASSUME NEW d \in Data, Dl!PushBack(d), Dl!Called("push_back", 0) PROVE Good
  <2>. PICK i : i = Dl!List!BackIndex + 1 OBVIOUS
  <2>1. i = length BY <1>1, <1>4
  <2>2. DlGrew(length + 1, d) /\ err' = FALSE BY <1>1, <1>6, DlPushBackStep
  <2>3. (IF i <= 0 THEN 1 ELSE IF i >= length THEN length + 1 ELSE i + 1) = length + 1
    BY <1>1, <2>1
  <2>4. DlLinked' /\ Dl!List!Insert(i, d) /\ out' \in Data \union {Void}
    BY <1>1, <2>1, <2>2, <2>3, DlInserts
  <2>5. DlTold BY <1>6, <2>2, <2>4, DlTells
  <2> QED BY <1>3, <1>6, <2>4, <2>5 DEF Dl!List!Next
<1>7. ASSUME NEW d \in Data, NEW i \in Dl!Index, Dl!InsertAt(i, d), Dl!Called("insert_at", i)
      PROVE  Good
  <2>1. /\ DlGrew(IF i <= 0 THEN 1 ELSE IF i >= length THEN length + 1 ELSE i + 1, d)
        /\ err' = FALSE
    BY <1>1, <1>2, <1>7, DlInsertAtStep
  <2>2. DlLinked' /\ Dl!List!Insert(i, d) /\ out' \in Data \union {Void}
    BY <1>1, <1>2, <2>1, DlInserts
  <2>3. DlTold BY <1>7, <2>1, <2>2, DlTells
  <2> QED BY <1>2, <1>3, <1>7, <2>2, <2>3 DEF Dl!List!Next
<1>8. ASSUME Dl!PeekFront, Dl!Called("peek_front", 0) PROVE Good
  BY <1>3, <1>4, <1>8, DlPeekFrontStep DEF Dl!List!Next
<1>9. ASSUME Dl!PeekBack, Dl!Called("peek_back", 0) PROVE Good
  BY <1>3, <1>4, <1>9, DlPeekBackStep DEF Dl!List!Next
<1>10. ASSUME Dl!PopFront, Dl!Called("pop_front", 0) PROVE Good
  <2>. PICK i : i = 0 OBVIOUS
  <2>1. i \in Int /\ i + 1 = 1 OBVIOUS
  <2>2. DlTakesOut(i \in 0 .. length - 1, i + 1)
    <3>1. DlTakesOut(length # 0, 1) BY <1>1, <1>10, DlPopFrontStep
    <3>2. length # 0 <=> i \in 0 .. length - 1 BY <1>1
    <3> QED BY <2>1, <3>1, <3>2 DEF DlTakesOut
  <2>3. /\ DlLinked' /\ Dl!List!TakeOut(i)
        /\ (err' = FALSE /\ out' \in Data \union {Void}) \/ Dl!Fail
    BY <1>1, <2>1, <2>2, DlRemoves
  <2>4. DlTold BY <1>10, <2>3, DlTells
  <2> QED BY <1>3, <1>4, <1>10, <2>3, <2>4 DEF Dl!List!Next
<1>11. ASSUME Dl!PopBack, Dl!Called("pop_back", 0) PROVE Good
  <2>. PICK i : i = length - 1 OBVIOUS
  <2>1. i \in Int /\ i + 1 = length BY <1>1
  <2>2. DlTakesOut(i \in 0 .. length - 1, i + 1)
    <3>1. DlTakesOut(length # 0, length) BY <1>1, <1>11, DlPopBackStep
    <3>2. length # 0 <=> i \in 0 .. length - 1 BY <1>1
    <3> QED BY <2>1, <3>1, <3>2 DEF DlTakesOut
  <2>3. /\ DlLinked' /\ Dl!List!TakeOut(i)
        /\ (err' = FALSE /\ out' \in Data \union {Void}) \/ Dl!Fail
    BY <1>1, <2>1, <2>2, DlRemoves
  <2>4. DlTold BY <1>11, <2>3, DlTells
  <2> QED BY <1>3, <1>4, <1>11, <2>3, <2>4 DEF Dl!List!Next
<1>12. ASSUME NEW i \in Dl!Index, Dl!At(i), Dl!Called("at", i) PROVE Good
  <2>1. DlLinked' /\ Dl!List!Read(i) /\ DlTold BY <1>2, <1>12, DlAtStep
  <2> QED BY <1>2, <1>3, <1>12, <2>1 DEF Dl!List!Next
<1>13. ASSUME NEW i \in Dl!Index, Dl!RemoveAt(i), Dl!Called("remove_at", i) PROVE Good
  <2>1. DlTakesOut(i \in 0 .. length - 1, i + 1) BY <1>1, <1>2, <1>13, DlRemoveAtStep
  <2>2. /\ DlLinked' /\ Dl!List!TakeOut(i)
        /\ (err' = FALSE /\ out' \in Data \union {Void}) \/ Dl!Fail
    BY <1>1, <1>2, <2>1, DlRemoves
  <2>3. DlTold BY <1>13, <2>2, DlTells
  <2> QED BY <1>2, <1>3, <1>13, <2>2, <2>3 DEF Dl!List!Next
<1>14. ASSUME Dl!Destroy, Dl!Called("destroy", 0) PROVE Good
  BY <1>3, <1>14, DlDestroyStep DEF Dl!List!Next
<1>15. Good
  <2> HIDE DEF Good
  <2> QED BY <1>5, <1>6, <1>7, <1>8, <1>9, <1>10, <1>11, <1>12, <1>13, <1>14 DEF Dl!Next
<1> QED BY <1>15 DEF DlInv, DlTold

LEMMA DlIsWellLinked ==
  ASSUME DlInv
  PROVE  Dl!TypeOK /\ Dl!WellLinked
<1>1. PICK c : DlHas(c) BY DEF DlInv, DlLinked
<1>2. /\ heap \in [Addr -> DlNodes] /\ length \in Nat /\ length <= Cap
      /\ Cardinality(live) = length /\ live \subseteq Addr
      /\ head \in Addr \union {Null}
  <2>1. Chain(c, head, length, heap) /\ live = Among(c, length) BY <1>1 DEF DlHas
  <2>2. /\ length \in Nat /\ length <= Cap /\ Cardinality(live) = length /\ live \subseteq Addr
        /\ length > 0 => head = c[1] /\ 1 \in 1 .. length
        /\ length = 0 => head = Null
        /\ \A k \in 1 .. length : c[k] \in Addr
    BY <2>1, LenOfChain
  <2>3. head \in Addr \union {Null} BY <2>2
  <2> QED BY <1>1, <2>2, <2>3 DEF DlHas
<1>3. Dl!TypeOK BY <1>2, DlCardinality DEF Dl!TypeOK, DlInv, DlNodes
<1>4. Dl!Cardinality(live) = Cardinality(live) BY Zenon DEF Dl!Cardinality, Cardinality
<1>5. /\ {Dl!path[i] : i \in 0 .. length - 1} = live /\ Dl!path[length] = Null
      /\ \A i \in 0 .. length - 1 : Dl!path[i] = c[i + 1]
  BY <1>1, DlSeen
<1>6. /\ \A k \in 1 .. length : heap[c[k]].prev = IF k = 1 THEN Null ELSE c[k - 1]
      /\ length > 0 => head = c[1]
  BY <1>1, DlNeighbours
<1>7. length > 0 => heap[head].prev = Null BY <1>2, <1>6
<1>8. ASSUME NEW i \in 1 .. length - 1 PROVE heap[Dl!path[i]].prev = Dl!path[i - 1]
  <2>1. /\ i \in 0 .. length - 1 /\ i - 1 \in 0 .. length - 1 /\ (i - 1) + 1 = i
        /\ i + 1 \in 1 .. length /\ i + 1 # 1 /\ (i + 1) - 1 = i
    BY <1>2
  <2>2. Dl!path[i] = c[i + 1] /\ Dl!path[i - 1] = c[i] BY <1>5, <2>1
  <2> QED BY <1>6, <2>1, <2>2
<1> QED BY <1>2, <1>3, <1>4, <1>5, <1>7, <1>8 DEF Dl!WellLinked

-----------------------------------------------------------------------------
(* Either of the lists. *)

\* The list in use is a chain of nodes.
ListInv ==
  /\ part = "dl_list" => DlInv
  /\ part = "sl_list" => SlInv

\* While the list in use keeps its variables it keeps its invariant.
LEMMA ListKept ==
  ASSUME ListInv, UNCHANGED <<head, length, heap, live, err, out, part>>
  PROVE  ListInv'
<1>1. ASSUME part = "dl_list" PROVE DlInv'
  <2>1. DlInv BY <1>1 DEF ListInv
  <2>2. DlLinked' BY <2>1, DlKept DEF DlInv
  <2> QED BY <2>1, <2>2 DEF DlInv
<1>2. ASSUME part = "sl_list" PROVE SlInv'
  <2>1. SlInv BY <1>2 DEF ListInv
  <2> QED BY <2>1, SlKept
<1> QED BY <1>1, <1>2 DEF ListInv

\* What a step does to the list in use, whichever it is.
LEMMA ListsStep ==
  ASSUME ListInv, AnyNext, UNCHANGED part
  PROVE  /\ ListInv'
         /\ part = "dl_list" => Dl!List!Next /\ Dl!ErrorTellsFailure'
         /\ part = "sl_list" => Sl!List!Next
<1>1. CASE part = "vector" /\ Next /\ UNCHANGED list
  <2>1. ListInv' BY <1>1, ListKept DEF list
  <2> QED BY <1>1, <2>1
<1>2. CASE part = "dl_list" /\ Dl!Next
  <2>1. DlInv' /\ Dl!List!Next /\ Dl!ErrorTellsFailure' BY <1>2, DlStep DEF ListInv
  <2> QED BY <1>2, <2>1 DEF ListInv
<1>3. CASE part = "sl_list" /\ Sl!Next
  <2>1. SlInv' /\ Sl!List!Next BY <1>3, SlStep DEF ListInv
  <2> QED BY <1>3, <2>1 DEF ListInv
<1> QED BY <1>1, <1>2, <1>3 DEF AnyNext

LEMMA ListsInit ==
  ASSUME AnyInit
  PROVE  /\ ListInv
         /\ part = "dl_list" => Dl!List!Init
         /\ part = "sl_list" => Sl!List!Init
<1>1. CASE part = "vector" BY <1>1 DEF ListInv
<1>2. CASE part = "dl_list" /\ Dl!Init
  <2>1. DlInv /\ Dl!List!Init BY <1>2, DlInit
  <2> QED BY <1>2, <2>1 DEF ListInv
<1>3. CASE part = "sl_list" /\ Sl!Init
  <2>1. SlInv /\ Sl!List!Init BY <1>3, SlInit
  <2> QED BY <1>3, <2>1 DEF ListInv
<1> QED BY <1>1, <1>2, <1>3 DEF AnyInit

(***************************************************************************)
(* The nodes of the list in use are a chain: a sequence of distinct nodes  *)
(* begins at head, follows next to null, goes back over prev, and has all  *)
(* that are not freed.                                                     *)
(***************************************************************************)
THEOREM ContainersChains == AnySpec => []ListInv
<1>1. AnyInit => ListInv BY ListsInit
<1>2. ListInv /\ [AnyNext /\ UNCHANGED part]_everything => ListInv'
  <2> SUFFICES ASSUME ListInv, [AnyNext /\ UNCHANGED part]_everything
               PROVE  ListInv'
    OBVIOUS
  <2>1. CASE AnyNext /\ UNCHANGED part BY <2>1, ListsStep
  <2>2. CASE UNCHANGED everything BY <2>2, ListKept DEF everything, list
  <2> QED BY <2>1, <2>2
<1> QED BY <1>1, <1>2, PTL DEF AnySpec

(***************************************************************************)
(* After any calls, for any number of nodes: following next meets exactly  *)
(* `size' nodes and then null, these are the nodes not freed, and in the   *)
(* doubly linked list prev undoes next.                                    *)
(***************************************************************************)
THEOREM ContainersLinked == AnySpec => []WellLinked
<1>1. ListInv => WellLinked
  BY SlIsWellLinked, DlIsWellLinked DEF ListInv, WellLinked
<1> QED BY <1>1, ContainersChains, PTL

(***************************************************************************)
(* The linked nodes implement the sequence of ListSpec: each call does to  *)
(* them what it does to the sequence, with the same result; and the error  *)
(* of the doubly linked one tells a failed call where it is meant to.      *)
(***************************************************************************)
THEOREM ContainersLists == AnySpec => IsList
<1> DEFINE Told == /\ part = "dl_list" => Dl!List!Next /\ Dl!ErrorTellsFailure'
                   /\ part = "sl_list" => Sl!List!Next
           Starts == /\ part = "dl_list" => Dl!List!Init
                     /\ part = "sl_list" => Sl!List!Init
<1>1. AnyInit => Starts BY ListsInit
<1>2. ListInv /\ [AnyNext /\ UNCHANGED part]_everything
        => [Told]_<<head, length, heap, err, out, call>>
  <2> SUFFICES ASSUME ListInv, [AnyNext /\ UNCHANGED part]_everything
               PROVE  Told \/ UNCHANGED <<head, length, heap, err, out, call>>
    OBVIOUS
  <2>1. CASE AnyNext /\ UNCHANGED part BY <2>1, ListsStep
  <2>2. CASE UNCHANGED everything BY <2>2 DEF everything, list
  <2> QED BY <2>1, <2>2
<1>3. AnySpec => [][Told]_<<head, length, heap, err, out, call>>
  <2> HIDE DEF Told
  <2> QED BY <1>2, ContainersChains, PTL DEF AnySpec
<1>4. AnySpec => Starts BY <1>1 DEF AnySpec
<1> QED BY <1>3, <1>4 DEF IsList
=============================================================================
