------------------------------- MODULE DlList --------------------------------
(***************************************************************************)
(* The doubly linked list of uga_list.c at the level of its nodes: a head  *)
(* pointer, a size, and nodes that come from malloc and go back to free.   *)
(* A node that was freed reads as Blank, so a pointer left dangling shows. *)
(* Operations walk the list by following `next' from the head, as the code *)
(* does, never by counting.                                                *)
(*                                                                         *)
(* One step is one call.  err is uga_had_errs() after it: allocation,      *)
(* pops, peek_back and node_at clear the library's error first, push and   *)
(* peek_front do not, and UGA_RETURN_ON_ERR in uga_dl_list_at prints the   *)
(* error, which clears it (the log line allocates its time stamp).         *)
(***************************************************************************)
EXTENDS Integers, Sequences, FiniteSets

CONSTANTS Addr,     \* what malloc may return for a node; bounds the list
          Data,     \* the elements
          Null, Void, Failed

\* What the constants have to satisfy; Containers assumes it.
ListConstants ==
  /\ IsFiniteSet(Addr) /\ Null \notin Addr
  /\ Void \notin Data /\ Failed \notin Data /\ Void # Failed

VARIABLES head, size,
          heap,    \* contents of every node, allocated or not
          live,    \* the nodes allocated and not freed
          err,     \* uga_had_errs()
          out,     \* what the last call returned or copied to its destination
          call     \* history: the last call and its index

vars == <<head, size, heap, live, err, out, call>>

\* The addresses met when following next from the head.
path[i \in 0 .. Cardinality(Addr)] ==
  IF i = 0 THEN head ELSE IF path[i - 1] = Null THEN Null ELSE heap[path[i - 1]].next

NodeAt(index) == path[index]

LastNode == path[CHOOSE i \in DOMAIN path : path[i] # Null /\ heap[path[i]].next = Null]

Node(d, p, n) == [data |-> d, prev |-> p, next |-> n]

\* What a block that is not allocated reads as.
Blank == [data |-> Void, prev |-> Null, next |-> Null]

Init ==
  /\ head = Null /\ size = 0
  /\ heap = [a \in Addr |-> Blank] /\ live = {}
  /\ err = FALSE /\ out = Void /\ call = <<"create", 0>>

\* _uga_dl_node_create_with takes a free block; uga_allocate clears the error.
Allocate(a) == a \in Addr \ live /\ live' = live \union {a} /\ err' = FALSE

Grow == size' = size + 1 /\ out' = Void

PushBack(d) ==
  \E a \in Addr :
    /\ Allocate(a) /\ Grow
    /\ IF size = 0
       THEN head' = a /\ heap' = [heap EXCEPT ![a] = Node(d, Null, Null)]
       ELSE /\ heap' = [heap EXCEPT ![a] = Node(d, LastNode, Null), ![LastNode].next = a]
            /\ UNCHANGED head

\* Mutant: the old front does not learn of its predecessor.
PushFrontOneWay(d) ==
  \E a \in Addr :
    /\ Allocate(a) /\ Grow
    /\ head' = a
    /\ heap' = [heap EXCEPT ![a] = Node(d, Null, head)]

PushFront(d) ==
  \E a \in Addr :
    /\ Allocate(a) /\ Grow
    /\ head' = a
    /\ heap' = IF size = 0
               THEN [heap EXCEPT ![a] = Node(d, Null, Null)]
               ELSE [heap EXCEPT ![a] = Node(d, Null, head), ![head].prev = a]

Fail == err' = TRUE /\ out' = Failed /\ UNCHANGED <<head, size, heap, live>>

Return(value) == out' = value /\ UNCHANGED <<head, size, heap, live>>

PeekBack ==
  \/ size = 0 /\ Fail
  \/ size # 0 /\ Return(heap[LastNode].data) /\ err' = FALSE

\* No uga_clr_errs here: an older error stays.
PeekFront ==
  \/ size = 0 /\ Fail
  \/ size # 0 /\ Return(heap[head].data) /\ UNCHANGED err

\* memcpy to the destination, _uga_dl_node_destroy, --size; links is the heap
\* with the neighbours relinked.
Take(node, links) ==
  /\ out' = heap[node].data
  /\ heap' = [links EXCEPT ![node] = Blank]
  /\ live' = live \ {node}
  /\ size' = size - 1
  /\ err' = FALSE

PopBack ==
  \/ size = 0 /\ Fail
  \/ size = 1 /\ Take(head, heap) /\ head' = Null
  \/ /\ size > 1
     /\ Take(LastNode, [heap EXCEPT ![heap[LastNode].prev].next = Null])
     /\ UNCHANGED head

PopFront ==
  \/ size = 0 /\ Fail
  \/ size = 1 /\ Take(head, heap) /\ head' = Null
  \/ /\ size > 1
     /\ head' = heap[head].next
     /\ Take(head, [heap EXCEPT ![heap[head].next].prev = Null])

\* uga_dl_list_at: node_at fails, then UGA_RETURN_ON_ERR prints and so clears.
At(index) ==
  \/ index \notin 0 .. size - 1 /\ Return(Failed) /\ err' = FALSE
  \/ index \in 0 .. size - 1 /\ Return(heap[NodeAt(index)].data) /\ err' = FALSE

RemoveAt(index) ==
  \/ index \notin 0 .. size - 1 /\ Fail
  \/ index = 0 /\ index < size /\ PopFront
  \/ index > 0 /\ index = size - 1 /\ PopBack
  \/ /\ index \in 1 .. size - 2
     /\ LET node == heap[NodeAt(index)] IN
          Take(NodeAt(index),
               [heap EXCEPT ![node.prev].next = node.next, ![node.next].prev = node.prev])
     /\ UNCHANGED head

InsertAt(index, d) ==
  \/ index <= 0 /\ PushFront(d)
  \/ index > 0 /\ index >= size /\ PushBack(d)
  \/ /\ index \in 1 .. size - 1
     /\ \E a \in Addr :
          /\ Allocate(a) /\ Grow
          /\ LET node == NodeAt(index)
                 before == heap[NodeAt(index)].prev IN
               heap' = [heap EXCEPT ![before].next = a, ![node].prev = a,
                                    ![a] = Node(d, before, node)]
     /\ UNCHANGED head

\* uga_dl_list_destroy: pop_front until the size is zero.
Destroy ==
  /\ live' = live \ {path[i] : i \in 0 .. size - 1}
  /\ head' = Null /\ size' = 0 /\ out' = Void
  /\ err' = IF size = 0 THEN err ELSE FALSE
  /\ heap' = [a \in Addr |-> Blank]

Index == -1 .. Cardinality(Addr)

Called(name, i) == call' = <<name, i>>

Next ==
  \/ \E d \in Data : \/ PushFront(d) /\ Called("push_front", 0)
                     \/ PushBack(d)  /\ Called("push_back", 0)
                     \/ \E i \in Index : InsertAt(i, d) /\ Called("insert_at", i)
  \/ PeekFront /\ Called("peek_front", 0)
  \/ PeekBack  /\ Called("peek_back", 0)
  \/ PopFront  /\ Called("pop_front", 0)
  \/ PopBack   /\ Called("pop_back", 0)
  \/ \E i \in Index : \/ At(i)       /\ Called("at", i)
                      \/ RemoveAt(i) /\ Called("remove_at", i)
  \/ Destroy /\ Called("destroy", 0)

Spec == Init /\ [][Next]_vars

-----------------------------------------------------------------------------
\* Pointers are null or addresses of nodes, results are elements or markers.
TypeOK ==
  /\ head \in Addr \union {Null} /\ size \in 0 .. Cardinality(Addr)
  /\ heap \in [Addr -> [data : Data \union {Void},
                        prev : Addr \union {Null}, next : Addr \union {Null}]]
  /\ live \subseteq Addr /\ err \in BOOLEAN /\ out \in Data \union {Void, Failed}

(***************************************************************************)
(* After any sequence of calls the list is well formed: following next     *)
(* meets exactly `size' nodes and then null, these are exactly the nodes   *)
(* not freed (nothing leaked, nothing dangling), and prev undoes next.     *)
(***************************************************************************)
WellLinked ==
  /\ size = Cardinality(live)
  /\ {path[i] : i \in 0 .. size - 1} = live
  /\ path[size] = Null
  /\ size > 0 => heap[head].prev = Null
  /\ \A i \in 1 .. size - 1 : heap[path[i]].prev = path[i - 1]

(***************************************************************************)
(* Seen from outside, the nodes are the sequence of ListSpec, and every    *)
(* call returns what the sequence says.                                    *)
(***************************************************************************)
Elements == [i \in 1 .. size |-> heap[path[i - 1]].data]

List == INSTANCE ListSpec WITH elems <- Elements, MaxSize <- Cardinality(Addr)

IsList == List!Spec

(***************************************************************************)
(* README: "After a call to a library function, you can check for errors   *)
(* by calling uga_had_errs()": a call that failed leaves an error, and one *)
(* that succeeded leaves none.  Not so uga_dl_list_at, which prints its    *)
(* error away, and the two calls that may leave an older error behind.     *)
(***************************************************************************)
ErrorTellsFailure ==
  /\ out = Failed /\ call[1] # "at" => err
  /\ err /\ call[1] \notin {"peek_front", "destroy"} => out = Failed
=============================================================================
