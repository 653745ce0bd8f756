------------------------------- MODULE Buddy --------------------------------
(***************************************************************************)
(* The SLM allocator (buddy.c) behind alloc_slm_range and free_slm_range:  *)
(* a binary tree whose nodes are FREE, SPLIT or ALLOC.  It is called from  *)
(* the csd dispatcher only, so a call is one step.                         *)
(*                                                                         *)
(* Nodes are numbered like a heap: 1 is buddy_head, 2n and 2n+1 are left   *)
(* and right of n; "NONE" is a node that has not been split off.  The      *)
(* recursive walks are stated by what they find: _buddy_alloc, left before *)
(* right, finds the FREE node with the lowest index that is large enough;  *)
(* _buddy_free frees one node and merges on the way back up.               *)
(***************************************************************************)
EXTENDS Integers, FiniteSets

CONSTANTS
    Pool,     \* size handed to buddy_init
    Inner,    \* bound: nodes 1 .. Inner of the tree may be split
    Requests  \* sizes asked for

Nodes == 1..(2 * Inner + 1)

(* size and idx of a node, as the splits above it have set them. *)
NodeSize[n \in Nodes] == IF n = 1 THEN Pool ELSE NodeSize[n \div 2] \div 2

NodeIdx[n \in Nodes] ==
    IF n = 1 THEN 0
    ELSE NodeIdx[n \div 2] + (IF n % 2 = 1 THEN NodeSize[n \div 2] \div 2 ELSE 0)

(* The nodes from the root down to n, n included. *)
Path[n \in Nodes] == IF n = 1 THEN {1} ELSE Path[n \div 2] \cup {n}

(* m is n or lies below it. *)
Below(m, n) == n \in Path[m]

Sibling(n) == IF n % 2 = 1 THEN n - 1 ELSE n + 1

ASSUME BuddyAssumption ==
    /\ Pool \in Nat \ {0} /\ Inner \in Nat
    /\ Requests \subseteq Nat \ {0}
    \* No request splits a node beyond the bound.
    /\ \A s \in Requests, n \in Nodes : n > Inner => NodeSize[n] \div 2 < s

VARIABLES
    st,    \* state of every node
    act,   \* act_size of the ALLOC nodes (0 elsewhere: not read there)
    live   \* what the callers hold: start |-> size asked for

treeVars == <<st, act, live>>

TypeOK ==
    /\ st \in [Nodes -> {"NONE", "FREE", "SPLIT", "ALLOC"}]
    /\ act \in [Nodes -> {0} \cup Requests]
    /\ DOMAIN live \subseteq 0..(Pool - 1)
    /\ \A a \in DOMAIN live : live[a] \in Requests
    /\ \A n \in Nodes : (st[n] # "NONE") <=> (n = 1 \/ st[n \div 2] = "SPLIT")

BuddyInit ==
    /\ st = [n \in Nodes |-> IF n = 1 THEN "FREE" ELSE "NONE"]
    /\ act = [n \in Nodes |-> 0]
    /\ live = << >>

----------------------------------------------------------------------------
(* FREE nodes that can serve the request, and the one found first. *)
Fits(size) == {n \in Nodes : st[n] = "FREE" /\ NodeSize[n] >= size}
FirstFit(size) ==
    CHOOSE n \in Fits(size) : \A m \in Fits(size) : NodeIdx[n] <= NodeIdx[m]

(* n and what is reached from it by going left only. *)
LeftFrom(n) == {m \in Nodes : Below(m, n) /\ \A k \in Path[m] \ Path[n] : k % 2 = 0}

(* Faulty variant: splits once more than the request allows. *)
Target_TooDeep(n, size) ==
    CHOOSE m \in LeftFrom(n) :
        \/ NodeSize[m] < size /\ NodeSize[m \div 2] >= size
        \/ NodeSize[m] >= size /\ 2 * m \notin Nodes

(* Where the splitting ends that goes down the left side of n: a node      *)
(* whose half would be too small.                                          *)
Target(n, size) ==
    CHOOSE m \in LeftFrom(n) : NodeSize[m] >= size /\ NodeSize[m] \div 2 < size

(* _buddy_alloc: split from the node found down to the target, whose state *)
(* becomes ALLOC; the right halves split off on the way are FREE.          *)
BuddyAlloc(size) ==
    /\ Fits(size) # {}
    /\ LET n == FirstFit(size)
           t == Target(n, size)
           spine(m) == Below(m, n) /\ Below(t, m)
       IN  /\ st' = [m \in Nodes |->
                        IF m = t THEN "ALLOC"
                        ELSE IF spine(m) THEN "SPLIT"
                        ELSE IF m # 1 /\ Sibling(m) # n /\ spine(Sibling(m)) THEN "FREE"
                        ELSE st[m]]
           /\ act' = [act EXCEPT ![t] = size]
           /\ live' = [a \in DOMAIN live \cup {NodeIdx[t]} |->
                          IF a = NodeIdx[t] THEN size ELSE live[a]]

(* No node fits: -1, and the caller reports or retries. *)
BuddyAllocFails(size) == Fits(size) = {} /\ UNCHANGED treeVars

(* Faulty variant: merges with the buddy, but not further up. *)
Merged_Once(s, n) ==
    IF n > 1 /\ s[Sibling(n)] = "FREE"
    THEN [m \in Nodes |-> IF m = n \div 2 THEN "FREE"
                          ELSE IF m \div 2 = n \div 2 THEN "NONE" ELSE s[m]]
    ELSE s

(* The merges on the way back up from n: a split whose halves are both     *)
(* FREE takes them back, up to the first one with a half in use.           *)
Merged(s, n) ==
    LET gathered(p) == \A q \in Path[n] \ Path[p] : s[Sibling(q)] = "FREE"
        top == CHOOSE p \in Path[n] :
                   gathered(p) /\ \A q \in Path[n] : gathered(q) => p <= q
    IN  [m \in Nodes |-> IF m = top THEN "FREE" ELSE IF Below(m, top) THEN "NONE" ELSE s[m]]

(* _buddy_free of a start the caller holds. *)
BuddyFree(a) ==
    /\ a \in DOMAIN live
    /\ LET n == CHOOSE m \in Nodes : st[m] = "ALLOC" /\ NodeIdx[m] = a
           s == Merged([st EXCEPT ![n] = "FREE"], n)
       IN  /\ st' = s
           /\ act' = [m \in Nodes |-> IF s[m] = "ALLOC" THEN act[m] ELSE 0]
    /\ live' = [b \in DOMAIN live \ {a} |-> live[b]]

BuddyNext ==
    \/ \E s \in Requests : BuddyAlloc(s) \/ BuddyAllocFails(s)
    \/ \E a \in DOMAIN live : BuddyFree(a)

BuddySpec == BuddyInit /\ [][BuddyNext]_treeVars

----------------------------------------------------------------------------
(* buddy_size: distance from idx to the end of its allocated node, -1 when *)
(* there is none.                                                          *)
Around(idx) ==
    {n \in Nodes : st[n] = "ALLOC" /\ idx \in NodeIdx[n]..(NodeIdx[n] + NodeSize[n] - 1)}

BuddySize(idx) ==
    IF Around(idx) = {} THEN -1
    ELSE LET n == CHOOSE m \in Around(idx) : TRUE IN NodeIdx[n] + NodeSize[n] - idx

----------------------------------------------------------------------------
Held(a) == a..(a + live[a] - 1)

(* What the leak check of /proc reads (buddy_is_allocated): the root is    *)
(* FREE exactly when nothing is held.                                      *)
LeakCheckExact == (st[1] # "FREE") <=> (DOMAIN live # {})

(* No two callers ever hold the same byte of SLM, none beyond the pool,    *)
(* buddy_size (the pages parked before a free, the output size of a        *)
(* program) covers at least what the caller asked for, and the leak check  *)
(* is exact.                                                               *)
HeldApart ==
    /\ TypeOK /\ LeakCheckExact
    /\ \A a, b \in DOMAIN live : a # b => Held(a) \cap Held(b) = {}
    /\ \A a \in DOMAIN live : /\ Held(a) \subseteq 0..(Pool - 1)
                              /\ BuddySize(a) >= live[a]

(* A request is refused only when every block of the pool that could serve *)
(* it overlaps memory somebody holds: merging leaves no free block split.  *)
RefusedForCause ==
    \A s \in Requests : Fits(s) = {} =>
        \A n \in Nodes : NodeSize[n] >= s =>
            \E a \in DOMAIN live :
                a..(a + BuddySize(a) - 1) \cap NodeIdx[n]..(NodeIdx[n] + NodeSize[n] - 1) # {}
=============================================================================
