------------------------------- MODULE PQueue -------------------------------
(***************************************************************************)
(* The priority queue of pqueue.c as the FTL uses it: a binary heap of     *)
(* lines, least vpc first, each of which carries its own place in the heap *)
(* (line->pos, 0 when it is not queued).  A state of the queue is          *)
(*   [heap |-> sequence of lines, line |-> line |-> record with vpc, pos]. *)
(*                                                                         *)
(* The loops of the code carry the moving node in a local variable and put *)
(* it down at the end; here it changes places with the node it passes, and *)
(* `at' is where it is.  The heap they leave is the same.                  *)
(***************************************************************************)
EXTENDS Integers, Sequences

Pri(s, i) == s.line[s.heap[i]].vpc

\* victim_line_cmp_pri
CmpPri(next, curr) == next > curr

\* The start of both loops: the node at i is about to move.
Moving(s, i) == [heap |-> s.heap, line |-> [s.line EXCEPT ![s.heap[i]].pos = i], at |-> i]

\* The moving node and the one at j change places, and both are told.
Exchange(r, j) ==
    LET moving == r.heap[r.at]
        other == r.heap[j]
    IN  [heap |-> [r.heap EXCEPT ![r.at] = other, ![j] = moving],
         line |-> [r.line EXCEPT ![other].pos = r.at, ![moving].pos = j],
         at |-> j]

\* One round of bubble_up's loop.
UpRound(r) ==
    IF r.at > 1 /\ CmpPri(Pri(r, r.at \div 2), Pri(r, r.at)) THEN Exchange(r, r.at \div 2) ELSE r

BubbleUp(s, i) ==
    LET up[m \in 0..Len(s.heap)] == IF m = 0 THEN Moving(s, i) ELSE UpRound(up[m - 1])
        r == up[Len(s.heap)]
    IN  [heap |-> r.heap, line |-> r.line]

\* maxchild: the child to go down to, 0 without children.
MaxChild(s, i) ==
    IF 2 * i > Len(s.heap) THEN 0
    ELSE IF 2 * i + 1 <= Len(s.heap) /\ CmpPri(Pri(s, 2 * i), Pri(s, 2 * i + 1))
         THEN 2 * i + 1 ELSE 2 * i

\* One round of percolate_down's loop.
DownRound(r) ==
    LET j == MaxChild(r, r.at)
    IN  IF j # 0 /\ CmpPri(Pri(r, r.at), Pri(r, j)) THEN Exchange(r, j) ELSE r

PercolateDown(s, i) ==
    LET down[m \in 0..Len(s.heap)] == IF m = 0 THEN Moving(s, i) ELSE DownRound(down[m - 1])
        r == down[Len(s.heap)]
    IN  [heap |-> r.heap, line |-> r.line]

PqueueInsert(s, b) ==
    BubbleUp([s EXCEPT !.heap = Append(@, b)], Len(s.heap) + 1)

PqueueChangePriority(s, pri, b) ==
    LET old == s.line[b].vpc
        t == [s EXCEPT !.line[b].vpc = pri]
    IN  IF CmpPri(old, pri) THEN BubbleUp(t, t.line[b].pos) ELSE PercolateDown(t, t.line[b].pos)

\* pqueue_peek and pqueue_pop of a queue that is not empty.
PqueuePeek(s) == s.heap[1]

\* The last node takes the first place.  Of a single node nothing is left,
\* and percolate_down gives it the place it had.
PqueuePop(s) ==
    LET n == Len(s.heap)
    IN  IF n = 1 THEN [s EXCEPT !.heap = << >>]
        ELSE PercolateDown([s EXCEPT !.heap = [i \in 1..(n - 1) |-> s.heap[IF i = 1 THEN n ELSE i]]], 1)

\* pqueue_is_valid
PqueueIsValid(s) ==
    \A i \in 2..Len(s.heap) : ~CmpPri(Pri(s, i \div 2), Pri(s, i))
=============================================================================
