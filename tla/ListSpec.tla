------------------------------ MODULE ListSpec -------------------------------
(***************************************************************************)
(* What a list of ugalib promises: the finite sequence its client sees,    *)
(* and what each call hands back.  DlList and SlList implement it with     *)
(* nodes and pointers.                                                     *)
(***************************************************************************)
EXTENDS Integers, SequencesExt

CONSTANTS Data, MaxSize, Void, Failed

VARIABLES elems,   \* the elements, from front to back
          out,     \* what the last call returned or copied to its destination
          call     \* history: the last call and its index

specVars == <<elems, out, call>>

Init == elems = <<>> /\ out = Void /\ call = <<"create", 0>>

Called(name, i) == call' = <<name, i>>

Room == Len(elems) < MaxSize

\* Position of a C index in the sequence, which counts from one.
InRange(i) == i \in 0 .. Len(elems) - 1

Insertion(i) == IF i < 0 THEN 1 ELSE IF i > Len(elems) THEN Len(elems) + 1 ELSE i + 1

Insert(i, d) ==
  /\ Room
  /\ elems' = InsertAt(elems, Insertion(i), d)
  /\ out' = Void

Read(i) ==
  /\ out' = IF InRange(i) THEN elems[i + 1] ELSE Failed
  /\ UNCHANGED elems

TakeOut(i) ==
  /\ out' = IF InRange(i) THEN elems[i + 1] ELSE Failed
  /\ elems' = IF InRange(i) THEN RemoveAt(elems, i + 1) ELSE elems

FrontIndex == 0
BackIndex  == Len(elems) - 1

Next ==
  \/ \E d \in Data : \/ Insert(FrontIndex, d)    /\ Called("push_front", 0)
                     \/ Insert(BackIndex + 1, d) /\ Called("push_back", 0)
                     \/ \E i \in -1 .. MaxSize : Insert(i, d) /\ Called("insert_at", i)
  \/ Read(FrontIndex) /\ Called("peek_front", 0)
  \/ Read(BackIndex)    /\ Called("peek_back", 0)
  \/ TakeOut(FrontIndex) /\ Called("pop_front", 0)
  \/ TakeOut(BackIndex) /\ Called("pop_back", 0)
  \/ \E i \in -1 .. MaxSize : \/ Read(i)    /\ Called("at", i)
                              \/ TakeOut(i) /\ Called("remove_at", i)
  \/ elems' = <<>> /\ out' = Void /\ Called("destroy", 0)

Spec == Init /\ [][Next]_specVars
=============================================================================
