------------------------------- MODULE StrSpec -------------------------------
(***************************************************************************)
(* What uga_str promises: a string is a sequence of characters, a call     *)
(* that leaves no error did what its name says, and one that could not get *)
(* memory says so and leaves the string as it was, or empty when it was    *)
(* to create it.  Str implements this with blocks of memory.               *)
(***************************************************************************)
EXTENDS Integers, Sequences

CONSTANT Names

VARIABLES text,   \* the characters of each string
          err,    \* uga_had_errs()
          failed, \* the last call was refused memory, once at least
          call    \* history: the last call [op, on, arg]; arg is the text it was given

Creating == {"create", "new", "move"}

Outcome(op, old, arg) ==
  CASE op \in Creating -> arg
    [] op \in {"append", "push_back"} -> old \o arg
    [] op = "clear" -> <<>>
    [] op = "keep"  -> old

Init == text = [n \in Names |-> <<>>] /\ err = FALSE /\ failed = FALSE /\ call.op = "none"

\* No call but one that failed makes a new error; some leave an old one.
Done(n) ==
  /\ text' = [text EXCEPT ![n] = Outcome(call'.op, @, call'.arg)]
  /\ err' => err

\* uga_str_at
At(n) ==
  /\ call'.op = "at"
  /\ err' = (err \/ call'.arg >= Len(text[n]))
  /\ UNCHANGED text

OutOfMemory(n) ==
  /\ failed'
  /\ text' = [text EXCEPT ![n] = IF call'.op \in Creating THEN <<>> ELSE @]
  /\ err'

\* The characters change hands.
Move(n, m) ==
  /\ call'.arg = text[n]
  /\ text' = [text EXCEPT ![m] = text[n], ![n] = <<>>]
  /\ err' => err

Next ==
  \E n \in Names :
    /\ call'.on = n
    /\ \/ call'.op # "at" /\ (Done(n) \/ OutOfMemory(n))
       \/ At(n)
       \/ call'.op = "move" /\ \E m \in Names \ {n} : Move(m, n)
=============================================================================
