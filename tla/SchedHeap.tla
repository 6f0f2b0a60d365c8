----------------------------- MODULE SchedHeap -----------------------------
(***************************************************************************)
(* The array of schPQ (Sched.c): a push or a pop, and then one action for  *)
(* each turn of its sift loop.  All of it happens under schMtx, so nobody  *)
(* else touches the array meanwhile.  schPQ[k] is heap[k + 1], schPQNum is *)
(* Len(heap), what is left beyond it is not kept.                          *)
(***************************************************************************)
EXTENDS Integers, Sequences, SchedPrio

CONSTANTS
    Proc,      \* the pids
    Todos,     \* the values of todoNum
    MaxQueue   \* MAX_PARENT_NUM

ASSUME SizeAssumption == MaxQueue \in Nat /\ Todos \subseteq Nat

VARIABLES
    heap,  \* schPQ
    op,    \* "idle", or the direction of the sift loop
    item   \* itemIdx + 1

vars == <<heap, op, item>>

Node == [pid : Proc, event : Event, todo : Todos]
Queue == {heap[i] : i \in DOMAIN heap}

Cmp(m, n) ==
    IF m.event = "tuning" THEN 0
    ELSE IF n.event = "tuning" THEN 1 ELSE m.todo - n.todo

Swap(i, j) == [heap EXCEPT ![i] = heap[j], ![j] = heap[i]]

-----------------------------------------------------------------------------
Init == heap = <<>> /\ op = "idle" /\ item = 1

WrongPush(n) ==
    /\ op = "idle"
    /\ n.pid \notin {m.pid : m \in Queue}
    /\ Len(heap) <= MaxQueue
    /\ heap' = Append(heap, n)
    /\ item' = Len(heap) + 1
    /\ op' = "up"

\* schPushPQ by a process that is not in the queue; a full queue drops the node.
Push(n) ==
    /\ op = "idle"
    /\ n.pid \notin {m.pid : m \in Queue}
    /\ Len(heap) # MaxQueue
    /\ heap' = Append(heap, n)
    /\ item' = Len(heap) + 1
    /\ op' = "up"

Rises == item > 1 /\ Cmp(heap[item], heap[item \div 2]) > 0

WrongSiftUp ==
    /\ op = "up"
    /\ Rises
    /\ heap' = Swap(item, item \div 2)
    /\ op' = "idle"
    /\ UNCHANGED item

SiftUp ==
    /\ op = "up"
    /\ Rises
    /\ heap' = Swap(item, item \div 2)
    /\ item' = item \div 2
    /\ UNCHANGED op

PushDone ==
    /\ op = "up"
    /\ ~ Rises
    /\ op' = "idle"
    /\ UNCHANGED <<heap, item>>

WrongPop ==
    /\ op = "idle"
    /\ heap # <<>>
    /\ heap' = SubSeq(heap, 1, Len(heap) - 1)
    /\ item' = 1
    /\ op' = "down"

\* schPopPQ: the last node takes the place of the first.
Pop ==
    /\ op = "idle"
    /\ heap # <<>>
    /\ LET last == Len(heap)
       IN  heap' = [i \in 1..(last - 1) |-> heap[IF i = 1 THEN last ELSE i]]
    /\ item' = 1
    /\ op' = "down"

Left == 2 * item
Right == 2 * item + 1

\* The children the node at item does not outrank, or equals.
Below == {c \in {Left, Right} : c <= Len(heap) /\ Cmp(heap[item], heap[c]) <= 0}

WrongSiftDown ==
    /\ op = "down"
    /\ \E c \in Below :
          /\ Left \in Below => c = Left
          /\ heap' = Swap(item, c)
          /\ item' = c
    /\ UNCHANGED op

SiftDown ==
    /\ op = "down"
    /\ \E c \in Below :
          /\ Below = {Left, Right} =>
                c = IF Cmp(heap[Left], heap[Right]) > 0 THEN Left ELSE Right
          /\ heap' = Swap(item, c)
          /\ item' = c
    /\ UNCHANGED op

PopDone ==
    /\ op = "down"
    /\ Below = {}
    /\ op' = "idle"
    /\ UNCHANGED <<heap, item>>

Next ==
    \/ \E n \in Node : Push(n)
    \/ SiftUp \/ PushDone \/ Pop \/ SiftDown \/ PopDone

Spec == Init /\ [][Next]_vars

-----------------------------------------------------------------------------
\* Type invariant.
TypeOK ==
    /\ heap \in Seq(Node) /\ Len(heap) <= MaxQueue
    /\ op \in {"idle", "up", "down"}
    /\ item \in 1..(MaxQueue + 1)

\* Between two calls no node outranks its parent in the heap, although
\* schPrioCmp calls a tuning node equal to any other, on whichever side it
\* stands (Sched.c:75-84, 108-117, 130-166).
HeapOrder ==
    op = "idle" =>
        \A i \in 2..Len(heap) : ~ Outranks(heap[i], heap[i \div 2])

\* The node the scheduler takes for the head, schPQ[0], is one that no waiter
\* outranks (Sched.c:265).
RootIsHead == (op = "idle" /\ heap # <<>>) => heap[1] \in Heads(Queue)

\* The array is a priority queue: sifting moves nodes and neither loses nor
\* copies one, and the node a pop takes is one that no other outranks.
PQ == INSTANCE PriorityQueue WITH queue <- Queue
ImplementsPQ == PQ!PQSpec
=============================================================================
