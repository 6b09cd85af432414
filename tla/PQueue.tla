------------------------------- MODULE PQueue -------------------------------
(***************************************************************************)
(* The priority queue of pqueue/pqueue.c: a binary heap in an array that   *)
(* starts at 1, whose elements are told their place in it.  A queue is a   *)
(* record of the array d and the function pos.  Priorities are held by the *)
(* elements; every operator takes them as the function pri.  cmppri is     *)
(* victim_line_cmp_pri: a smaller priority belongs closer to the root.     *)
(***************************************************************************)
EXTENDS Integers, Sequences

\* Mutant: the comparison the other way round.
cmppri_less(next, curr) == next < curr

cmppri(next, curr) == next > curr

pqueue_init(Elems) == [d |-> <<>>, pos |-> [x \in Elems |-> 0]]

Put(q, i, x) == [q EXCEPT !.d[i] = x, !.pos[x] = i]
Swap(q, i, j) == Put(Put(q, i, q.d[j]), j, q.d[i])

RECURSIVE bubble_up(_, _, _)
bubble_up(q, pri, i) ==
    LET parent == i \div 2 IN
      IF i > 1 /\ cmppri(pri[q.d[parent]], pri[q.d[i]])
      THEN bubble_up(Swap(q, i, parent), pri, parent)
      ELSE Put(q, i, q.d[i])

\* Mutant: the right child is not looked at.
maxchild_left(q, pri, i) == IF 2 * i > Len(q.d) THEN 0 ELSE 2 * i

\* 0 when i has no child.
maxchild(q, pri, i) ==
    LET left == 2 * i IN
      IF left > Len(q.d) THEN 0
      ELSE IF left < Len(q.d) /\ cmppri(pri[q.d[left]], pri[q.d[left + 1]]) THEN left + 1
      ELSE left

RECURSIVE percolate_down(_, _, _)
percolate_down(q, pri, i) ==
    LET child == maxchild(q, pri, i) IN
      IF child # 0 /\ cmppri(pri[q.d[i]], pri[q.d[child]])
      THEN percolate_down(Swap(q, i, child), pri, child)
      ELSE Put(q, i, q.d[i])

pqueue_insert(q, pri, x) ==
    bubble_up([q EXCEPT !.d = Append(@, x)], pri, Len(q.d) + 1)

\* old and pri are the priorities before and after the change.
pqueue_change_priority(q, old, pri, x) ==
    IF cmppri(old[x], pri[x]) THEN bubble_up(q, pri, q.pos[x])
    ELSE percolate_down(q, pri, q.pos[x])

\* The queue without its root, which keeps the place it had.
pqueue_pop(q, pri) ==
    LET n    == Len(q.d)
        rest == [q EXCEPT !.d = SubSeq([@ EXCEPT ![1] = q.d[n]], 1, n - 1)]
    IN IF n = 1 THEN rest ELSE percolate_down(rest, pri, 1)

pqueue_peek(q) == q.d[1]

\* subtree_is_valid for the whole tree.
pqueue_is_valid(q, pri) ==
    \A i \in 2 .. Len(q.d) : ~cmppri(pri[q.d[i \div 2]], pri[q.d[i]])
=============================================================================
