----------------------------- MODULE Containers ------------------------------
(***************************************************************************)
(* The containers of the core library side by side: a client uses either   *)
(* vectors, or a doubly linked, or a singly linked list.  They share no    *)
(* state in the code, so `part' says which of them a behaviour is about    *)
(* and the others stay as they were created.  The two lists have the same  *)
(* variables (the singly linked one keeps no error); only one of them is   *)
(* in use.                                                                 *)
(***************************************************************************)
EXTENDS Vector

CONSTANTS Addr, Data, Null, Void, Failed   \* of the lists

VARIABLES part,
          head, length, heap, live, err, out, call   \* of the lists

list      == <<head, length, heap, live, err, out, call>>
everything == <<vars, part, list>>

Dl == INSTANCE DlList WITH size <- length
Sl == INSTANCE SlList WITH size <- length

ASSUME ContainersConstants == Dl!ListConstants

AnyInit ==
  /\ Init
  /\ \/ part = "vector"  /\ Dl!Init
     \/ part = "dl_list" /\ Dl!Init
     \/ part = "sl_list" /\ Sl!Init /\ err = FALSE

AnyNext ==
  \/ part = "vector"  /\ Next    /\ UNCHANGED list
  \/ part = "dl_list" /\ Dl!Next /\ UNCHANGED vars
  \/ part = "sl_list" /\ Sl!Next /\ UNCHANGED <<vars, err>>

AnySpec == AnyInit /\ [][AnyNext /\ UNCHANGED part]_everything

-----------------------------------------------------------------------------
(***************************************************************************)
(* After any sequence of calls a list is well formed: following next meets *)
(* exactly `size' nodes and then null, these are exactly the nodes not     *)
(* freed, and in the doubly linked list prev undoes next.                  *)
(***************************************************************************)
WellLinked ==
  /\ part = "dl_list" => Dl!TypeOK /\ Dl!WellLinked
  /\ part = "sl_list" => Sl!WellLinked

(***************************************************************************)
(* Seen from outside each list is the sequence of ListSpec: every step of  *)
(* the nodes is one of the sequence, with the same result.  And after it   *)
(* uga_had_errs tells whether the call on the doubly linked one failed,    *)
(* but for uga_dl_list_at, peek_front and destroy.                         *)
(***************************************************************************)
IsList ==
  /\ part = "dl_list" => Dl!List!Init
  /\ part = "sl_list" => Sl!List!Init
  /\ [][/\ part = "dl_list" => Dl!List!Next /\ Dl!ErrorTellsFailure'
        /\ part = "sl_list" => Sl!List!Next]_<<head, length, heap, err, out, call>>
=============================================================================
