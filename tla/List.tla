-------------------------------- MODULE List --------------------------------
(***************************************************************************)
(* zth::List (include/libzth/list.h), the intrusive list behind the run    *)
(* queue, the suspended queue and the queues of all synchronizers.  A list *)
(* is the sequence of the elements met when following next from m_head.    *)
(* Each definition gives the sequence after the call.                      *)
(***************************************************************************)
EXTENDS Integers, Sequences

Elems(q) == {q[i] : i \in DOMAIN q}

contains(q, e) == e \in Elems(q)

push_back(q, e) == Append(q, e)

push_front(q, e) ==
    [i \in 1 .. Len(q) + 1 |-> IF i = 1 THEN e ELSE q[i - 1]]

front(q) == q[1]

\* The elements from position k onwards.
From(q, k) == [i \in 1 .. Len(q) - k + 1 |-> q[i + k - 1]]

pop_front(q) == From(q, 2)

\* erase() and rotate() assert contains(elem); the position is that of elem.
Position(q, e) == CHOOSE i \in DOMAIN q : q[i] = e

erase(q, e) ==
    LET p == Position(q, e)
    IN  [i \in 1 .. Len(q) - 1 |-> IF i < p THEN q[i] ELSE q[i + 1]]

\* Mutant of rotateAfter: the head only changes places with the next element.
rotateAfter_Swaps(q, e) ==
    IF Len(q) < 2 THEN q ELSE [q EXCEPT ![1] = q[2], ![2] = q[1]]

\* rotate(*++cyclic(e)): the element after e becomes the head, so e the tail.
rotateAfter(q, e) ==
    LET p == Position(q, e)
    IN  [i \in 1 .. Len(q) |->
            IF i + p <= Len(q) THEN q[i + p] ELSE q[i + p - Len(q)]]

\* All of r, in order, appended to q with push_back().
appendAll(q, r) ==
    [i \in 1 .. Len(q) + Len(r) |-> IF i <= Len(q) THEN q[i] ELSE r[i - Len(q)]]

\* An element has one prev/next pair: it is in a list at most once.
Distinct(q) == \A i, j \in DOMAIN q : q[i] = q[j] => i = j

=============================================================================
