------------------------------- MODULE SlList --------------------------------
(***************************************************************************)
(* The singly linked list of uga_list.c.  Like DlList, one step is one     *)
(* call, nodes come from malloc and go back to free, and operations follow *)
(* `next'.  Without prev, pop_back and remove_at stop one node early;      *)
(* remove_at and insert_at reach the predecessor.                          *)
(* uga_sl_list_from_vector is a loop of push_front on an empty list.       *)
(***************************************************************************)
EXTENDS Integers, Sequences, FiniteSets

CONSTANTS Addr,     \* what malloc may return for a node; bounds the list
          Data,     \* the elements
          Null, Void, Failed

\* What the constants have to satisfy; Containers assumes it.
ListConstants ==
  /\ IsFiniteSet(Addr) /\ Null \notin Addr
  /\ Void \notin Data /\ Failed \notin Data /\ Void # Failed

VARIABLES head, size,
          heap,    \* contents of every node, allocated or not
          live,    \* the nodes allocated and not freed
          out,     \* what the last call returned or copied to its destination
          call     \* history: the last call and its index

vars == <<head, size, heap, live, out, call>>

\* The addresses met when following next from the head.
path[i \in 0 .. Cardinality(Addr)] ==
  IF i = 0 THEN head ELSE IF path[i - 1] = Null THEN Null ELSE heap[path[i - 1]].next

NodeAt(index) == path[index]

LastNode == path[CHOOSE i \in DOMAIN path : path[i] # Null /\ heap[path[i]].next = Null]

\* while( node->next->next != NULL )
LastButOne ==
  path[CHOOSE i \in DOMAIN path :
         path[i] # Null /\ heap[path[i]].next # Null /\ heap[heap[path[i]].next].next = Null]

Node(d, n) == [data |-> d, next |-> n]

\* What a block that is not allocated reads as.
Blank == Node(Void, Null)

Init ==
  /\ head = Null /\ size = 0
  /\ heap = [a \in Addr |-> Blank] /\ live = {}
  /\ out = Void /\ call = <<"create", 0>>

Allocate(a) == a \in Addr \ live /\ live' = live \union {a}

Grow == size' = size + 1 /\ out' = Void

PushBack(d) ==
  \E a \in Addr :
    /\ Allocate(a) /\ Grow
    /\ IF size = 0
       THEN head' = a /\ heap' = [heap EXCEPT ![a] = Node(d, Null)]
       ELSE /\ heap' = [heap EXCEPT ![a] = Node(d, Null), ![LastNode].next = a]
            /\ UNCHANGED head

PushFront(d) ==
  \E a \in Addr :
    /\ Allocate(a) /\ Grow
    /\ head' = a
    /\ heap' = [heap EXCEPT ![a] = Node(d, IF size = 0 THEN Null ELSE head)]

Return(value) == out' = value /\ UNCHANGED <<head, size, heap, live>>

PeekBack  == Return(IF size = 0 THEN Failed ELSE heap[LastNode].data)
PeekFront == Return(IF size = 0 THEN Failed ELSE heap[head].data)

\* memcpy to the destination, _uga_sl_node_destroy, --size; links is the heap
\* with the predecessor relinked.
Take(node, links) ==
  /\ out' = heap[node].data
  /\ heap' = [links EXCEPT ![node] = Blank]
  /\ live' = live \ {node}
  /\ size' = size - 1

PopBack ==
  \/ size = 0 /\ Return(Failed)
  \/ size = 1 /\ Take(head, heap) /\ head' = Null
  \/ /\ size > 1
     /\ Take(heap[LastButOne].next, [heap EXCEPT ![LastButOne].next = Null])
     /\ UNCHANGED head

PopFront ==
  \/ size = 0 /\ Return(Failed)
  \/ size > 0 /\ Take(head, heap) /\ head' = heap[head].next

At(index) ==
  Return(IF index \in 0 .. size - 1 THEN heap[NodeAt(index)].data ELSE Failed)

RemoveAt(index) ==
  \/ index \notin 0 .. size - 1 /\ Return(Failed)
  \/ index = 0 /\ index < size /\ PopFront
  \/ index > 0 /\ index = size - 1 /\ PopBack
  \/ /\ index \in 1 .. size - 2
     /\ LET before == NodeAt(index - 1) IN
          Take(heap[before].next,
               [heap EXCEPT ![before].next = heap[heap[before].next].next])
     /\ UNCHANGED head

\* Mutant: the new node goes behind the one at the index.
InsertAfter(index, d) ==
  \/ index <= 0 /\ PushFront(d)
  \/ index > 0 /\ index >= size /\ PushBack(d)
  \/ /\ index \in 1 .. size - 1
     /\ \E a \in Addr :
          /\ Allocate(a) /\ Grow
          /\ heap' = [heap EXCEPT ![NodeAt(index)].next = a,
                                  ![a] = Node(d, heap[NodeAt(index)].next)]
     /\ UNCHANGED head

InsertAt(index, d) ==
  \/ index <= 0 /\ PushFront(d)
  \/ index > 0 /\ index >= size /\ PushBack(d)
  \/ /\ index \in 1 .. size - 1
     /\ \E a \in Addr :
          /\ Allocate(a) /\ Grow
          /\ LET before == NodeAt(index - 1) IN
               heap' = [heap EXCEPT ![before].next = a, ![a] = Node(d, heap[before].next)]
     /\ UNCHANGED head

\* uga_sl_list_destroy: pop_front until the size is zero.
Destroy ==
  /\ live' = live \ {path[i] : i \in 0 .. size - 1}
  /\ head' = Null /\ size' = 0 /\ out' = Void
  /\ heap' = [a \in Addr |-> Blank]

Index == -1 .. Cardinality(Addr)

Called(name, i) == call' = <<name, i>>

Next ==
  \/ \E d \in Data : \/ PushFront(d) /\ Called("push_front", 0)
                     \/ PushBack(d)  /\ Called("push_back", 0)
                     \/ \E i \in Index : InsertAt(i, d) /\ Called("insert_at", i)
  \/ PeekFront /\ Called("peek_front", 0)
  \/ PeekBack  /\ Called("peek_back", 0)
  \/ PopFront  /\ Called("pop_front", 0)
  \/ PopBack   /\ Called("pop_back", 0)
  \/ \E i \in Index : \/ At(i)       /\ Called("at", i)
                      \/ RemoveAt(i) /\ Called("remove_at", i)
  \/ Destroy /\ Called("destroy", 0)

Spec == Init /\ [][Next]_vars

-----------------------------------------------------------------------------
(***************************************************************************)
(* After any sequence of calls, following next meets exactly `size' nodes  *)
(* and then null, and these are exactly the nodes not freed: nothing is    *)
(* leaked and no pointer of the list leads to a freed node.                *)
(***************************************************************************)
WellLinked ==
  /\ size = Cardinality(live)
  /\ {path[i] : i \in 0 .. size - 1} = live
  /\ path[size] = Null

(***************************************************************************)
(* Seen from outside, the nodes are the sequence of ListSpec, and every    *)
(* call returns what the sequence says.                                    *)
(***************************************************************************)
Elements == [i \in 1 .. size |-> heap[path[i - 1]].data]

List == INSTANCE ListSpec WITH elems <- Elements, MaxSize <- Cardinality(Addr)

IsList == List!Spec
=============================================================================
