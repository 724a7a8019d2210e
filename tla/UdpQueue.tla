------------------------------ MODULE UdpQueue ------------------------------
(***************************************************************************)
(* newudpl-1.5/queue.c: the packet queue as the doubly linked list it is.  *)
(* Items go in at root and come out at last; a node's next leads towards   *)
(* last and its prev towards root.                                         *)
(***************************************************************************)
EXTENDS Integers, SequencesExt

CONSTANTS Items, NULL,
          Nodes,       \* addresses that malloc returns
          Capacity,    \* _MAX_Q_SIZE_, 2048
          MaxAdds      \* bound on the calls of addQueue

ASSUME QueueAssumption ==
  /\ NULL \notin Nodes /\ NULL \notin Items
  /\ Capacity \in Nat /\ MaxAdds \in Nat /\ IsFiniteSet(Nodes)

VARIABLES heap,              \* the nodes, or Free
          root, last, count,
          queueState,        \* "open", "closing", "closed" or "crashed"
          got, adds          \* items taken out so far; calls of addQueue

queueVars == <<heap, root, last, count, queueState, got, adds>>

Free == [items |-> NULL, prev |-> NULL, next |-> NULL]
Allocated == {n \in Nodes : heap[n] # Free}

\* openQueue
QueueInit ==
  /\ heap = [n \in Nodes |-> Free]
  /\ root = NULL /\ last = NULL /\ count = 0
  /\ queueState = "open" /\ got = <<>> /\ adds = 0

AddCall == queueState = "open" /\ adds < MaxAdds /\ adds' = adds + 1

\* Too many items already, or no item (assembleItem had no memory).
AddRefused(item) ==
  /\ AddCall
  /\ count >= Capacity \/ item = NULL
  /\ UNCHANGED <<heap, root, last, count, queueState, got>>

\* addQueue does not ask whether its own malloc found memory for the node: the
\* program crashes at NULL.
AddCrashes(item) ==
  /\ AddCall
  /\ count < Capacity /\ item # NULL
  /\ queueState' = "crashed"
  /\ UNCHANGED <<heap, root, last, count, got>>

\* Mutant: the list counts as empty when its count was 1.
AddQueueByCount(item) ==
  /\ AddCall
  /\ count < Capacity /\ item # NULL
  /\ \E n \in Nodes \ Allocated :
       /\ heap' = [m \in Nodes |->
                     IF m = n THEN [items |-> item, prev |-> NULL, next |-> root]
                     ELSE IF m = root THEN [heap[m] EXCEPT !.prev = n] ELSE heap[m]]
       /\ last' = IF count <= 1 THEN n ELSE last
       /\ root' = n
  /\ count' = count + 1
  /\ UNCHANGED <<queueState, got>>

AddQueue(item) ==
  /\ AddCall
  /\ count < Capacity /\ item # NULL
  /\ \E n \in Nodes \ Allocated :
       /\ heap' = [m \in Nodes |->
                     IF m = n THEN [items |-> item, prev |-> NULL, next |-> root]
                     ELSE IF m = root THEN [heap[m] EXCEPT !.prev = n] ELSE heap[m]]
       /\ last' = IF root = NULL THEN n ELSE last
       /\ root' = n
  /\ count' = count + 1
  /\ UNCHANGED <<queueState, got>>

\* Mutant: the last node is taken out without clearing root.
UnlinkKeepRoot ==
  /\ count > 0
  /\ heap' = [m \in Nodes |->
                IF m = last THEN Free
                ELSE IF m = heap[last].prev THEN [heap[m] EXCEPT !.next = NULL]
                ELSE heap[m]]
  /\ UNCHANGED root
  /\ last' = heap[last].prev
  /\ count' = count - 1

\* What getQueue does to the list.
Unlink ==
  /\ count > 0
  /\ heap' = [m \in Nodes |->
                IF m = last THEN Free
                ELSE IF m = heap[last].prev /\ root # last
                     THEN [heap[m] EXCEPT !.next = NULL] ELSE heap[m]]
  /\ root' = IF root = last THEN NULL ELSE root
  /\ last' = heap[last].prev
  /\ count' = count - 1

GetQueue ==
  /\ queueState = "open"
  /\ Unlink
  /\ got' = Append(got, heap[last].items)
  /\ UNCHANGED <<queueState, adds>>

\* closeQueue takes out and drops what is left, one node at a time.
CloseQueue ==
  /\ queueState = "open"
  /\ queueState' = "closing"
  /\ UNCHANGED <<heap, root, last, count, got, adds>>

DumpItem ==
  /\ queueState = "closing"
  /\ Unlink
  /\ UNCHANGED <<queueState, got, adds>>

QueueClosed ==
  /\ queueState = "closing" /\ count = 0
  /\ queueState' = "closed"
  /\ UNCHANGED <<heap, root, last, count, got, adds>>

QueueNext ==
  \/ \E item \in Items \cup {NULL} : AddRefused(item) \/ AddQueue(item) \/ AddCrashes(item)
  \/ GetQueue \/ CloseQueue \/ DumpItem \/ QueueClosed

-----------------------------------------------------------------------------
(* Properties *)

\* s is the list from last to root: both links, both ends and the count agree
\* with it, and no other node is allocated.
ListIs(s) ==
  /\ Len(s) = count /\ ToSet(s) = Allocated /\ IsInjective(s)
  /\ last = IF s = <<>> THEN NULL ELSE Head(s)
  /\ root = IF s = <<>> THEN NULL ELSE s[Len(s)]
  /\ \A i \in 1..Len(s) :
       /\ heap[s[i]].items \in Items
       /\ heap[s[i]].prev = IF i = Len(s) THEN NULL ELSE s[i + 1]
       /\ heap[s[i]].next = IF i = 1 THEN NULL ELSE s[i - 1]

\* The list's links in both directions, its two ends and its count describe
\* one sequence, although addQueue goes by root, getQueue by root = last and
\* by count, and no node leaks (queue.c:65, 83, 96).
ListIsSequence ==
  /\ \E s \in BoundedSeq(Nodes, Capacity) : ListIs(s)
  /\ queueState = "closed" => Allocated = {}

\* The nodes of h from n towards root, and then NULL; a walk without NULL went
\* in circles.
Walk(h, n) ==
  LET at[i \in 1..Cardinality(Nodes) + 1] ==
        IF i = 1 THEN n ELSE IF at[i - 1] \in Nodes THEN h[at[i - 1]].prev ELSE NULL
  IN  at

ItemsFrom(h, n) ==
  LET at == Walk(h, n)
  IN  [i \in 1..Cardinality({j \in DOMAIN at : at[j] # NULL}) |-> h[at[i]].items]

\* To its callers the list is a bounded queue, first in, first out.
Contents == ItemsFrom(heap, last)
Line == INSTANCE Fifo WITH items <- Contents
FifoSpec == Line!Spec
=============================================================================
