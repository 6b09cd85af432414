----------------------------- MODULE VictimHeap -----------------------------
(***************************************************************************)
(* The heap of victim lines under every sequence of the calls that both    *)
(* translation layers make of it: a closed or no longer full line enters   *)
(* it, a line in it changes its priority, and select_victim_line takes the *)
(* root and resets its place.                                              *)
(***************************************************************************)
EXTENDS PQueue

CONSTANTS HeapLines, MAX_VPC

VARIABLES heap, prio

heapVars == <<heap, prio>>

Members == {heap.d[i] : i \in DOMAIN heap.d}

HeapInit == heap = pqueue_init(HeapLines) /\ prio = [l \in HeapLines |-> 0]

Enter(l, p) ==
    /\ heap.pos[l] = 0
    /\ prio' = [prio EXCEPT ![l] = p]
    /\ heap' = pqueue_insert(heap, prio', l)

\* mark_page_invalid lowers the priority, which is the number of valid pages;
\* pqueue_change_priority takes either direction.
Change(l, p) ==
    /\ heap.pos[l] # 0
    /\ prio' = [prio EXCEPT ![l] = p]
    /\ heap' = pqueue_change_priority(heap, prio, prio', l)

TakeVictim ==
    /\ heap.d # <<>>
    /\ heap' = [pqueue_pop(heap, prio) EXCEPT !.pos[pqueue_peek(heap)] = 0]
    /\ UNCHANGED prio

HeapNext ==
    \/ \E l \in HeapLines, p \in 0 .. MAX_VPC : Enter(l, p) \/ Change(l, p)
    \/ TakeVictim

\* pqueue_is_valid holds after every call, and a line's pos is its place in
\* the array, 0 outside: a stale pos would make the next change of priority
\* move another line, and a stale order would collect a fuller one.
HeapOrdered ==
    /\ pqueue_is_valid(heap, prio)
    /\ \A i \in DOMAIN heap.d : heap.pos[heap.d[i]] = i
    /\ \A l \in HeapLines : heap.pos[l] # 0 => l \in Members

\* The heap is a priority queue: no call loses or repeats a line, and the line
\* select_victim_line takes has the fewest valid pages of all that are in it.
TakesLeast ==
    [][\A l \in HeapLines : l \in Members /\ l \notin Members' =>
         /\ Members' = Members \ {l}
         /\ \A o \in Members : prio[l] <= prio[o]]_heapVars
=============================================================================
