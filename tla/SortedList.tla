----------------------------- MODULE SortedList -----------------------------
(***************************************************************************)
(* SortedList (include/libzth/list.h): the AA tree through the links of    *)
(* its elements that holds the waitables of the Waiter, ordered by key and *)
(* then by address.  An element is its address; 0 is nullptr.              *)
(***************************************************************************)
EXTENDS Integers, Sequences, FiniteSets

CONSTANTS Elem,  \* the addresses of the elements, positive integers
          Key    \* what the elements are compared by

VARIABLES heap,  \* left, right and level of every Listable
          key,   \* the key of every element
          tree   \* m_t, m_head and m_size

sortedVars == <<heap, key, tree>>

NullElem == 0

Fresh == [left |-> NullElem, right |-> NullElem, level |-> 0]

\* m_comp(), and the address when that is undecided.
Before(x, t) == key[x] < key[t] \/ (key[x] = key[t] /\ x < t)

-----------------------------------------------------------------------------
(* Rotations.  The heap h is handed through; an operator that returns the new *)
(* root of a subtree returns it with the heap.                                *)

At(h, t) == [heap |-> h, t |-> t]

skew(h, t) ==
    IF t = NullElem \/ h[t].left = NullElem THEN At(h, t)
    ELSE LET l == h[t].left
         IN  IF h[l].level = h[t].level
             THEN At([h EXCEPT ![t].left = h[l].right, ![l].right = t], l)
             ELSE At(h, t)

split(h, t) ==
    IF t = NullElem \/ h[t].right = NullElem \/ h[h[t].right].right = NullElem THEN At(h, t)
    ELSE LET r == h[t].right
         IN  IF h[t].level = h[h[r].right].level
             THEN At([h EXCEPT ![t].right = h[r].left, ![r].left = t, ![r].level = @ + 1], r)
             ELSE At(h, t)

\* The result s of an operator on a child is stored in the parent t.
SetLeft(s, t) == [s.heap EXCEPT ![t].left = s.t]

SetRight(s, t) == [s.heap EXCEPT ![t].right = s.t]

RECURSIVE lowest(_, _)
lowest(h, t) == IF t = NullElem \/ h[t].left = NullElem THEN t ELSE lowest(h, h[t].left)

RECURSIVE highest(_, _)
highest(h, t) == IF t = NullElem \/ h[t].right = NullElem THEN t ELSE highest(h, h[t].right)

successor(h, t) == lowest(h, h[t].right)

predecessor(h, t) == highest(h, h[t].left)

Level(h, t) == IF t = NullElem THEN 0 ELSE h[t].level

decrease_level(h, t) ==
    LET ll == Level(h, h[t].left)
        lr == Level(h, h[t].right)
        should_be == (IF ll < lr THEN ll ELSE lr) + 1
        r == h[t].right
    IN  IF should_be >= h[t].level THEN h
        ELSE [h EXCEPT ![t].level = should_be,
                       ![IF r = NullElem THEN t ELSE r].level =
                             IF r # NullElem /\ should_be >= h[r].level THEN h[r].level
                             ELSE should_be]

-----------------------------------------------------------------------------

\* The new m_head is returned as head.
RECURSIVE insert_(_, _, _, _)
insert_(h, head, x, t) ==
    IF t = NullElem
    THEN [heap |-> [h EXCEPT ![x] = [Fresh EXCEPT !.level = 1]], t |-> x, head |-> head]
    ELSE LET s == insert_(h, head, x, IF Before(x, t) THEN h[t].left ELSE h[t].right)
             g == IF Before(x, t) THEN SetLeft(s, t) ELSE SetRight(s, t)
             k == skew(g, t)
             p == split(k.heap, k.t)
         IN  [heap |-> p.heap, t |-> p.t,
              head |-> IF t = s.head /\ g[t].left # NullElem THEN g[t].left ELSE s.head]

\* Mutant of Rebalance: the right child is not skewed.
Rebalance_Half(h, t) ==
    LET a == skew(decrease_level(h, t), t)
        d == split(a.heap, a.t)
        e == split(d.heap, d.heap[d.t].right)
    IN  At(SetRight(e, d.t), d.t)

\* What delete_() does on its way back.
Rebalance(h, t) ==
    LET a == skew(decrease_level(h, t), t)
        b == skew(a.heap, a.heap[a.t].right)
        g == SetRight(b, a.t)
        c == skew(g, g[b.t].right)
        d == split(IF b.t = NullElem THEN g ELSE SetRight(c, b.t), a.t)
        e == split(d.heap, d.heap[d.t].right)
    IN  At(SetRight(e, d.t), d.t)

RECURSIVE delete_(_, _, _)
delete_(h, x, t) ==
    LET l == IF h[t].left = NullElem THEN successor(h, t) ELSE predecessor(h, t)
        \* The removed t is replaced by its neighbour l.
        s == delete_(h, l, IF h[t].left = NullElem THEN h[t].right ELSE h[t].left)
        g == [s.heap EXCEPT ![l] =
                 IF h[t].left = NullElem
                 THEN [left |-> NullElem, right |-> s.t, level |-> h[t].level]
                 ELSE [left |-> s.t, right |-> s.heap[t].right, level |-> h[t].level]]
    IN  CASE t = NullElem -> At(h, NullElem)
          [] t = x /\ h[t].left = NullElem /\ h[t].right = NullElem -> At(h, NullElem)
          [] t = x /\ (h[t].left # NullElem \/ h[t].right # NullElem) -> Rebalance(g, l)
          [] t # x /\ t # NullElem ->
                Rebalance(IF Before(x, t) THEN SetLeft(delete_(h, x, h[t].left), t)
                          ELSE SetRight(delete_(h, x, h[t].right), t), t)

RECURSIVE containsFrom(_, _)
containsFrom(x, t) ==
    t # NullElem /\ (t = x \/ containsFrom(x, IF Before(x, t) THEN heap[t].left ELSE heap[t].right))

\* Every element of the tree, in order.
RECURSIVE InOrder(_)
InOrder(t) ==
    IF t = NullElem THEN <<>>
    ELSE InOrder(heap[t].left) \o <<t>> \o InOrder(heap[t].right)

Held == {InOrder(tree.m_t)[i] : i \in DOMAIN InOrder(tree.m_t)}

-----------------------------------------------------------------------------

SortedInit ==
    /\ heap = [e \in Elem |-> Fresh]
    /\ key \in [Elem -> Key]
    /\ tree = [m_t |-> NullElem, m_head |-> NullElem, m_size |-> 0]

insert(x) ==
    LET s == insert_(heap, IF tree.m_t = NullElem THEN x ELSE tree.m_head, x, tree.m_t)
    IN  /\ heap[x] = Fresh /\ ~containsFrom(x, tree.m_t)
        /\ heap' = s.heap
        /\ tree' = [m_t |-> s.t, m_head |-> s.head, m_size |-> tree.m_size + 1]
        /\ UNCHANGED key

erase(x) ==
    LET s == delete_(heap, x, tree.m_t)
    IN  /\ containsFrom(x, tree.m_t)
        /\ heap' = [s.heap EXCEPT ![x] = Fresh]
        /\ tree' = [m_t |-> s.t, m_size |-> tree.m_size - 1,
                    m_head |-> IF tree.m_head = x THEN lowest(s.heap, s.t) ELSE tree.m_head]
        /\ UNCHANGED key

SortedNext == \E x \in Elem : insert(x) \/ erase(x)

-----------------------------------------------------------------------------
(* Properties *)

\* The assertions of check(): levels go down by one to the left, by at most one to
\* the right, and not twice over the same level.
Balanced ==
    \A t \in Held :
      LET l == heap[t].left
          r == heap[t].right
      IN  /\ Level(heap, l) = heap[t].level - 1
          /\ Level(heap, r) \in {heap[t].level - 1, heap[t].level}
          /\ r # NullElem => Level(heap, heap[r].right) < heap[t].level

\* After any sequence of insertions and removals, also of elements with equal keys,
\* the tree holds every element that was inserted and not removed, sorted and
\* balanced; front() is the smallest one, and the elements that are not in the tree
\* can be inserted again (insert(), erase(), check()).
TreeIsSorted ==
    LET q == InOrder(tree.m_t)
    IN  /\ \A i \in 1 .. Len(q) - 1 : Before(q[i], q[i + 1])
        /\ Len(q) = tree.m_size
        /\ tree.m_head = IF q = <<>> THEN NullElem ELSE q[1]
        /\ \A e \in Elem : e \in Held <=> heap[e] # Fresh
        /\ \A e \in Held : containsFrom(e, tree.m_t)
        /\ Balanced
=============================================================================
