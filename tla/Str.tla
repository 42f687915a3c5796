--------------------------------- MODULE Str ---------------------------------
(***************************************************************************)
(* uga_str: strings that own a block of memory, and a view (uga_strview)   *)
(* that a client took over one of them.  `mem' maps the blocks allocated   *)
(* and not freed to their cells, so a pointer that outlived its block has  *)
(* nowhere to point.  Any allocation may fail; realloc may move.           *)
(*                                                                         *)
(* One step is one call.  Calls are built from one another as in the code: *)
(* each operator below takes the state of a call (the string worked on,    *)
(* the memory, the error) and gives the set of states it may end in.  A    *)
(* call that touches memory it must not is a fault and the last one: after *)
(* it the program has no defined behaviour.                                *)
(*                                                                         *)
(* As in glibc an allocation of 0 bytes succeeds.  The block of the        *)
(* uga_string that uga_str_new_copy and _move allocate is not counted.     *)
(***************************************************************************)
EXTENDS Integers, Sequences, FiniteSets, Functions

CONSTANTS Names,    \* the strings of the client
          Block,    \* what malloc may return
          Texts,    \* what clients pass: sequences of characters
          Nul,      \* the character that ends a C string, and what memset leaves
          Garbage,  \* content of a cell nothing was written to
          Null,     \* NULL
          MaxCap    \* bound: capacity

ASSUME StrConstants ==
  /\ IsFiniteSet(Names) /\ IsFiniteSet(Block) /\ Null \notin Block
  /\ MaxCap \in Nat
  /\ \A t \in Texts : t \in Seq(Range(t)) /\ Nul \notin Range(t) /\ Garbage \notin Range(t)

VARIABLES str,       \* data, size and capacity of each string
          mem,       \* the allocated blocks and their cells
          view,      \* data and size of the client's view
          err,       \* uga_had_errs()
          failures,  \* allocations of the last call that failed
          fault,     \* what the last call did to memory that is not its own
          call       \* history: the last call, as in StrSpec

vars == <<str, mem, view, err, failures, fault, call>>

NullStr  == [data |-> Null, size |-> 0, capacity |-> 0]
NullView == [data |-> Null, size |-> 0]

Init ==
  /\ str = [n \in Names |-> NullStr]
  /\ mem = <<>>
  /\ view = NullView
  /\ err = FALSE /\ failures = 0 /\ fault = "none"
  /\ call = [op |-> "none", on |-> Null, arg |-> <<>>]

Cells(n, cell) == [k \in 1 .. n |-> cell]

Take(cells, n) == SubSeq(cells, 1, n)

\* A call begins to work on string s.
Begin(s) == [str |-> s, block |-> Null, mem |-> mem, err |-> err, failures |-> 0, fault |-> "none"]

-----------------------------------------------------------------------------
(* uga_alloc: every allocation clears the error, or sets it. *)

OutOfMemory(c) == [c EXCEPT !.err = TRUE, !.failures = @ + 1]

NewBlocks(c) == Block \ DOMAIN c.mem

\* One block more, or one less.
With(m, b, cells) == [d \in DOMAIN m \union {b} |-> IF d = b THEN cells ELSE m[d]]
Without(m, b)     == Restrict(m, DOMAIN m \ {b})

\* Mutant: the error of an earlier call is not cleared.
AllocateKeepsError(c, bytes) ==
  {OutOfMemory(c)} \union
  {[c EXCEPT !.block = b, !.mem = With(@, b, Cells(bytes, Garbage))] : b \in NewBlocks(c)}

Allocate(c, bytes) ==
  {OutOfMemory(c)} \union
  {[c EXCEPT !.err = FALSE, !.block = b, !.mem = With(@, b, Cells(bytes, Garbage))] : b \in NewBlocks(c)}

\* The block keeps its cells, here or elsewhere.
Reallocate(c, bytes) ==
  IF c.str.data = Null THEN Allocate(c, bytes)
  ELSE LET b    == c.str.data
           kept == c.mem[b] \o Cells(bytes - Len(c.mem[b]), Garbage) IN
         {OutOfMemory(c)} \union
         {[c EXCEPT !.err = FALSE, !.block = a, !.mem = With(Without(@, b), a, kept)] :
             a \in NewBlocks(c) \union {b}}

-----------------------------------------------------------------------------
(* Parts of calls. *)

\* What a call is given to read: a text of the client, or a piece of memory.
Given(t)   == [data |-> Null, size |-> Len(t), text |-> t]
Memory(v)  == [data |-> v.data, size |-> v.size, text |-> <<>>]

Dangling(m, src) == src.data # Null /\ src.data \notin DOMAIN m

Characters(m, src) == IF src.data = Null THEN src.text ELSE Take(m[src.data], src.size)

Faulty(c, what) == [c EXCEPT !.fault = what]

\* memcpy of src to str.data + offset.
Write(c, offset, src) ==
  IF src.size = 0 THEN c
  ELSE IF c.str.data = Null THEN Faulty(c, "null")
  ELSE IF Dangling(c.mem, src) THEN Faulty(c, "stale")
  ELSE IF offset + src.size > Len(c.mem[c.str.data]) THEN Faulty(c, "overrun")
  ELSE [c EXCEPT !.mem[c.str.data] =
          Take(@, offset) \o Characters(c.mem, src) \o SubSeq(@, offset + src.size + 1, Len(@))]

Create1(c, capacity) ==
  {IF a.err THEN [a EXCEPT !.str = NullStr]
   ELSE [a EXCEPT !.str = [data |-> a.block, size |-> 0, capacity |-> capacity],
                  !.mem[a.block] = Cells(capacity, Nul)] : a \in Allocate(c, capacity)}

\* uga_str_create_from_1 and _2, uga_str_copy.
CreateFrom(c, src) ==
  {IF a.err THEN a ELSE [Write(a, 0, src) EXCEPT !.str.size = src.size] : a \in Create1(c, src.size)}

Reserve(c, capacity) ==
  IF capacity <= c.str.capacity THEN {c}
  ELSE {IF a.err THEN a ELSE [a EXCEPT !.str.data = a.block, !.str.capacity = capacity] :
           a \in Reallocate(c, capacity)}

SpaceLeft(c) == c.str.capacity - c.str.size

\* memcpy behind the last character, and size += datalen.
Extend(c, src) == [Write(c, c.str.size, src) EXCEPT !.str.size = @ + src.size]

\* Mutant: text that just fits makes the block grow.
AppendGrowsEarly(c, src) ==
  IF c.str.data = Null THEN CreateFrom(c, src)
  ELSE IF SpaceLeft(c) > src.size THEN {Extend(c, src)}
  ELSE {IF a.err THEN a ELSE Extend([a EXCEPT !.str.data = a.block], src) :
           a \in Reallocate(c, c.str.capacity)}

\* Mutant: the error of uga_str_reserve is not looked at.
AppendUnchecked(c, src) ==
  IF c.str.data = Null THEN CreateFrom(c, src)
  ELSE IF SpaceLeft(c) >= src.size THEN {Extend(c, src)}
  ELSE {Extend(a, src) : a \in Reserve(c, c.str.size + src.size)}

Append1(c, src) ==
  IF c.str.data = Null THEN CreateFrom(c, src)
  ELSE IF SpaceLeft(c) >= src.size THEN {Extend(c, src)}
  ELSE {IF a.err THEN a ELSE Extend(a, src) : a \in Reserve(c, c.str.size + src.size)}

\* No look at the error: the character is written whether there is room or not.
PushBack(c, t) ==
  IF c.str.data = Null THEN {Extend(a, t) : a \in Create1(c, 1)}
  ELSE IF SpaceLeft(c) = 0 THEN {Extend(a, t) : a \in Reserve(c, c.str.size + 1)}
  ELSE {Extend(c, t)}

\* Nor here: an append to the null string creates it after all.
CreateCstr(c, src) ==
  UNION {UNION {Append1(b, Given(<<Nul>>)) : b \in Append1(a, src)} : a \in Create1(c, src.size + 1)}

\* Mutant: the old block is not given back.
ShrinkToFitLeaks(c) ==
  IF c.str.size >= c.str.capacity THEN {c}
  ELSE {IF a.err THEN a
        ELSE [Write([a EXCEPT !.str.data = a.block], 0, Memory(c.str)) EXCEPT
                !.str.capacity = c.str.size] : a \in Allocate(c, c.str.size)}

ShrinkToFit(c) ==
  IF c.str.size >= c.str.capacity THEN {c}
  ELSE {IF a.err THEN a
        ELSE [Write([a EXCEPT !.str.data = a.block], 0, Memory(c.str)) EXCEPT
                !.mem = Without(@, c.str.data), !.str.capacity = c.str.size] :
           a \in Allocate(c, c.str.size)}

\* memset of the whole capacity.
Clear(c) ==
  IF c.str.data = Null THEN c
  ELSE [c EXCEPT !.str.size = 0,
          !.mem[c.str.data] = Cells(c.str.capacity, Nul) \o SubSeq(@, c.str.capacity + 1, Len(@))]

Destroy(c) == [c EXCEPT !.mem = Without(@, c.str.data), !.str = NullStr]

FirstNul(cells) == CHOOSE k \in DOMAIN cells : cells[k] = Nul /\ \A j \in 1 .. k - 1 : cells[j] # Nul

\* uga_str_check_size looks for the end, wherever it is.
CheckSize(c) ==
  IF Nul \notin Range(c.mem[c.str.data]) THEN Faulty(c, "overrun")
  ELSE [c EXCEPT !.str.size = FirstNul(c.mem[c.str.data]) - 1]

-----------------------------------------------------------------------------
(* The calls of a client. *)

\* A client does not use a view once the block it points into is gone.
ViewsForgotten == view' = IF view.data \in DOMAIN mem' THEN view ELSE NullView

Ends(n, op, arg, outcomes) ==
  \E c \in outcomes :
    /\ c.str.capacity <= MaxCap
    /\ str' = [str EXCEPT ![n] = c.str]
    /\ mem' = c.mem /\ err' = c.err /\ failures' = c.failures /\ fault' = c.fault
    /\ call' = [op |-> op, on |-> n, arg |-> arg]
    /\ ViewsForgotten

\* A string nothing would be lost of by assigning to it.
Unused(n) == str[n].data = Null

Create(n) ==
  /\ Unused(n)
  /\ \/ \E cap \in 0 .. MaxCap : Ends(n, "create", <<>>, Create1(Begin(NullStr), cap))
     \/ \E t \in Texts : \/ Ends(n, "create", t, CreateFrom(Begin(NullStr), Given(t)))
                         \/ Ends(n, "create", t \o <<Nul>>, CreateCstr(Begin(NullStr), Given(t)))

\* uga_str_assign_from_1 and _2: a buffer of the client, which may be longer
\* than its text by the character that ends it.
Assign(n) ==
  /\ Unused(n)
  /\ \E t \in Texts, rest \in {<<>>, <<Nul>>}, b \in Block \ DOMAIN mem :
       /\ Len(t) <= MaxCap
       /\ Ends(n, "create", t,
               {[Begin([data |-> b, size |-> Len(t), capacity |-> Len(t)]) EXCEPT
                   !.mem = With(@, b, t \o rest)]})

Text(n) == IF str[n].data = Null THEN <<>> ELSE Take(mem[str[n].data], str[n].size)

Copy(n, m) ==
  /\ n # m /\ Unused(m)
  /\ Ends(m, "create", Text(n), CreateFrom(Begin(NullStr), Memory(str[n])))

Move(n, m) ==
  /\ n # m /\ Unused(m)
  /\ str' = [str EXCEPT ![m] = str[n], ![n] = NullStr]
  /\ failures' = 0 /\ fault' = "none"
  /\ call' = [op |-> "move", on |-> m, arg |-> Text(n)]
  /\ UNCHANGED <<mem, err, view>>

\* uga_str_new_copy and _new_move: the uga_string itself is allocated first,
\* and written to whether there is one or not.
New(n, m) ==
  /\ n # m /\ Unused(m)
  /\ \/ Ends(m, "new", Text(n), {Faulty(OutOfMemory(Begin(NullStr)), "null")})
     \/ Ends(m, "new", Text(n), CreateFrom(Begin(NullStr), Memory(str[n])))
     \/ /\ str' = [str EXCEPT ![m] = str[n], ![n] = NullStr]
        /\ failures' = 0 /\ fault' = "none" /\ err' = FALSE
        /\ call' = [op |-> "move", on |-> m, arg |-> Text(n)]
        /\ UNCHANGED <<mem, view>>

\* From a text, from another string or the string itself, or from the view.
AppendTo(n) ==
  \/ \E t \in Texts : Ends(n, "append", t, Append1(Begin(str[n]), Given(t)))
  \/ \E m \in Names : Ends(n, "append", Text(m), Append1(Begin(str[n]), Memory(str[m])))
  \/ Ends(n, "append", Characters(mem, Memory(view)), Append1(Begin(str[n]), Memory(view)))

PushBackTo(n) ==
  \E t \in Texts : Len(t) = 1 /\ Ends(n, "push_back", t, PushBack(Begin(str[n]), Given(t)))

ReserveIn(n) == \E cap \in 0 .. MaxCap : Ends(n, "keep", <<>>, Reserve(Begin(str[n]), cap))

Shrink(n) == Ends(n, "keep", <<>>, ShrinkToFit(Begin(str[n])))

ClearIt(n) == Ends(n, "clear", <<>>, {Clear(Begin(str[n]))})

DestroyIt(n) == Ends(n, "clear", <<>>, {Destroy(Begin(str[n]))})

\* A C function writes a text and its end to the buffer, then
\* uga_str_check_size, as in uga_ipv4_to_str.
Fill(n) ==
  \E t \in Texts :
    /\ Len(t) + 1 <= str[n].capacity
    /\ Ends(n, "create", t,
            {CheckSize(Write(Begin(str[n]), 0, Given(t \o <<Nul>>)))})

\* There is no look at pos < 0.
At(n) ==
  \E pos \in -1 .. MaxCap :
    Ends(n, "at", pos,
         {IF pos < 0 THEN Faulty(Begin(str[n]), "before")
          ELSE [Begin(str[n]) EXCEPT !.err = @ \/ pos >= str[n].size]})

\* uga_sv_create_from
TakeView(n) ==
  /\ view' = [data |-> str[n].data, size |-> str[n].size]
  /\ failures' = 0 /\ call' = [op |-> "keep", on |-> n, arg |-> <<>>]
  /\ UNCHANGED <<str, mem, err, fault>>

Next ==
  /\ fault = "none"
  /\ \E n \in Names :
       \/ Create(n) \/ Assign(n) \/ AppendTo(n) \/ PushBackTo(n) \/ ReserveIn(n)
       \/ Shrink(n) \/ ClearIt(n) \/ DestroyIt(n) \/ Fill(n) \/ At(n) \/ TakeView(n)
       \/ \E m \in Names : Copy(n, m) \/ Move(n, m) \/ New(n, m)

Spec == Init /\ [][Next]_vars

-----------------------------------------------------------------------------
(***************************************************************************)
(* README: "Just don't forget to call the destructors": what a client has  *)
(* to destroy is what it can see.  As long as no call went astray, every   *)
(* allocated block belongs to exactly one string, is as long as that       *)
(* string believes, and holds all its characters: nothing is leaked, freed *)
(* twice or shared, whichever allocations failed.                          *)
(***************************************************************************)
EachBlockOwned ==
  fault = "none" =>
    /\ DOMAIN mem = {str[n].data : n \in Names} \ {Null}
    /\ \A n, m \in Names : n # m /\ str[n].data = str[m].data => str[n].data = Null
    /\ \A n \in Names : str[n].data # Null =>
         {str[n].size, str[n].capacity} \subseteq 0 .. Len(mem[str[n].data])

(***************************************************************************)
(* Every call without an error did what StrSpec says, every call with one  *)
(* left its string alone: uga_had_errs (README: "After a call to a library *)
(* function") tells the truth under any pattern of failing allocations.    *)
(* Two calls do not look whether they got the memory: uga_str_create_cstr  *)
(* asks up to three times, and when two requests fail and the third does   *)
(* not, returns a wrong text and no error; uga_str_push_back may both fail *)
(* and write, when the client's buffer was longer than its text.           *)
(***************************************************************************)
Promise == INSTANCE StrSpec WITH text <- [n \in Names |-> Text(n)], failed <- failures > 0

ImplementsText ==
  /\ Promise!Init
  /\ [][\/ fault' # "none"
        \/ failures' > 1
        \/ failures' > 0 /\ call'.op = "push_back"
        \/ Promise!Next]_vars

(***************************************************************************)
(* The calls of a client touch no memory but that of their strings, even   *)
(* when memory runs out, with four exceptions: uga_str_push_back, also the *)
(* one after a failed one that left size above capacity, and               *)
(* uga_str_new_copy and _move, which do not look whether they got the      *)
(* memory; appending to a string (a piece of) itself when it has to grow,  *)
(* which moves the block it goes on to read; and uga_str_at of a negative  *)
(* index, which reads before the block.                                    *)
(***************************************************************************)
AppendsItself(n) ==
  /\ call'.op = "append" /\ call'.on = n
  /\ str[n].capacity - str[n].size < Len(call'.arg)
  /\ call'.arg = Text(n) \/ view.data = str[n].data

StaysInMemory ==
  [][fault' # "none" =>
       \/ failures' > 0 /\ call'.op \in {"push_back", "new"}
       \/ call'.op = "push_back" /\ str[call'.on].size > str[call'.on].capacity
       \/ fault' = "stale" /\ \E n \in Names : AppendsItself(n)
       \/ fault' = "before" /\ call'.op = "at" /\ call'.arg < 0]_vars

(***************************************************************************)
(* A view goes on showing the same characters through every append that    *)
(* the capacity has room for, and through every call on other strings:     *)
(* README's parsing loop holds views over a string it keeps.               *)
(***************************************************************************)
Shown == Characters(mem, Memory(view))

ViewsSurvive ==
  [][LET n == call'.on IN
       /\ view.data # Null /\ str' # str /\ fault' = "none"
       /\ \/ str[n].data # view.data
          \/ /\ call'.op = "append" /\ view.size <= str[n].size
             /\ str[n].capacity - str[n].size >= Len(call'.arg)
       => view' = view /\ Shown' = Shown]_vars
=============================================================================
