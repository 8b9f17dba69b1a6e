----------------------------- MODULE LinkedList -----------------------------
(***************************************************************************)
(* zth::List (include/libzth/list.h) as it is in memory: a cycle of        *)
(* Listables through prev and next, with pointers to its head and tail,    *)
(* and iterators over it.  The other modules see the list as a sequence    *)
(* (module List); here every operation is done on the pointers, and on     *)
(* the sequence next to it.                                                *)
(***************************************************************************)
EXTENDS List

CONSTANTS Node,    \* the Listables
          nullptr  \* not a Listable

VARIABLES link,  \* prev and next of every Listable
          head,  \* m_head
          tail,  \* m_tail
          seq,   \* the list as a sequence
          it     \* an Iterator: m_start and m_current

listVars == <<link, head, tail, seq, it>>

Unlinked == [prev |-> nullptr, next |-> nullptr]

atBegin == it.current = nullptr /\ it.start # nullptr

atEnd == it.current = it.start

\* What the iterator points to, when it is not at the end.
get == IF atBegin THEN it.start ELSE it.current

LinkedInit ==
    /\ link = [n \in Node |-> Unlinked]
    /\ head = nullptr /\ tail = nullptr
    /\ seq = <<>>
    /\ it = [start |-> nullptr, current |-> nullptr]

-----------------------------------------------------------------------------
(* The pointers after an operation, as a record of link, head and tail *)

Now == [link |-> link, head |-> head, tail |-> tail]

Alone(l, e) == [link |-> [l.link EXCEPT ![e] = [prev |-> e, next |-> e]],
                head |-> e, tail |-> e]

\* e is put between p and n.
Between(lk, p, e, n) ==
    LET a == [lk EXCEPT ![e] = [prev |-> p, next |-> n]]
        b == [a EXCEPT ![n].prev = e]
    IN  [b EXCEPT ![p].next = e]

\* prev and next of e are linked to each other.
Unlink(lk, e) ==
    LET a == [lk EXCEPT ![lk[e].prev].next = lk[e].next]
        b == [a EXCEPT ![lk[e].next].prev = lk[e].prev]
    IN  [b EXCEPT ![e] = Unlinked]

linkBack(l, e) ==
    IF l.tail = nullptr THEN Alone(l, e)
    ELSE [l EXCEPT !.link = Between(l.link, l.tail, e, l.link[l.tail].next), !.tail = e]

linkFront(l, e) ==
    IF l.head = nullptr THEN Alone(l, e)
    ELSE [l EXCEPT !.link = Between(l.link, l.link[l.head].prev, e, l.head), !.head = e]

Emptied(l, e) == [link |-> [l.link EXCEPT ![e] = Unlinked], head |-> nullptr, tail |-> nullptr]

unlinkFront(l) ==
    IF l.tail = l.head THEN Emptied(l, l.head)
    ELSE [l EXCEPT !.head = l.link[l.head].next, !.link = Unlink(l.link, l.head)]

\* Mutant of unlinkBack: the tail is not moved.
unlinkBack_Tail(l) ==
    IF l.tail = l.head THEN Emptied(l, l.tail)
    ELSE [l EXCEPT !.link = Unlink(l.link, l.tail)]

unlinkBack(l) ==
    IF l.tail = l.head THEN Emptied(l, l.tail)
    ELSE [l EXCEPT !.tail = l.link[l.tail].prev, !.link = Unlink(l.link, l.tail)]

unlink(l, e) ==
    IF l.head = e THEN unlinkFront(l)
    ELSE IF l.tail = e THEN unlinkBack(l)
    ELSE [l EXCEPT !.link = Unlink(l.link, e)]

-----------------------------------------------------------------------------
(* The operations.  An iterator is made anew by each that changes the list. *)

Becomes(l, s, i) ==
    /\ link' = l.link /\ head' = l.head /\ tail' = l.tail
    /\ seq' = s
    /\ it' = i

Iterator(start, current) == [start |-> start, current |-> current]

begin(l) == Iterator(l.head, nullptr)

end(l) == Iterator(l.head, l.head)

PushBack(e) ==
    LET l == linkBack(Now, e)
    IN  /\ link[e] = Unlinked
        /\ Becomes(l, push_back(seq, e), IF seq = <<>> THEN begin(l) ELSE Iterator(l.head, e))

PushFront(e) ==
    LET l == linkFront(Now, e)
    IN  /\ link[e] = Unlinked
        /\ Becomes(l, push_front(seq, e), Iterator(l.head, e))

PopFront == seq # <<>> /\ Becomes(unlinkFront(Now), pop_front(seq), begin(unlinkFront(Now)))

PopBack ==
    /\ seq # <<>>
    /\ Becomes(unlinkBack(Now), SubSeq(seq, 1, Len(seq) - 1), begin(unlinkBack(Now)))

\* insert() before the iterator.
Insert(e) ==
    LET p == Position(seq, get)
        mid == [Now EXCEPT !.link = Between(link, link[get].prev, e, get)]
    IN  /\ link[e] = Unlinked
        /\ \/ /\ atEnd
              /\ Becomes(linkBack(Now, e), push_back(seq, e), Iterator(linkBack(Now, e).head, e))
           \/ /\ ~atEnd /\ atBegin
              /\ Becomes(linkFront(Now, e), push_front(seq, e), begin(linkFront(Now, e)))
           \/ /\ ~atEnd /\ ~atBegin
              /\ Becomes(mid, SubSeq(seq, 1, p - 1) \o <<e>> \o From(seq, p), Iterator(head, e))

\* erase() of what the iterator points to.
EraseAt ==
    LET l == unlink(Now, get)
    IN  /\ ~atEnd
        /\ Becomes(l, erase(seq, get),
                   IF atBegin THEN begin(l)
                   ELSE IF get = tail THEN end(l)
                   ELSE Iterator(l.head, link[get].next))

Erase(e) ==
    /\ contains(seq, e)
    /\ Becomes(unlink(Now, e), erase(seq, e), begin(unlink(Now, e)))

\* rotate(): e becomes the head.
Rotate(e) ==
    LET p == Position(seq, e)
    IN  /\ contains(seq, e)
        /\ Becomes([Now EXCEPT !.head = e, !.tail = link[e].prev],
                   From(seq, p) \o SubSeq(seq, 1, p - 1), Iterator(e, nullptr))

Begin == it' = begin(Now) /\ UNCHANGED <<link, head, tail, seq>>

NextElem ==
    /\ ~atEnd /\ it.start # nullptr
    /\ it' = [it EXCEPT !.current = link[get].next]
    /\ UNCHANGED <<link, head, tail, seq>>

\* prev() dereferences m_current.
PrevElem ==
    /\ ~atEnd /\ it.current # nullptr
    /\ it' = [it EXCEPT !.current =
                 IF link[it.current].prev = it.start THEN nullptr ELSE link[it.current].prev]
    /\ UNCHANGED <<link, head, tail, seq>>

LinkedNext ==
    \/ PopFront \/ PopBack \/ EraseAt \/ Begin \/ NextElem \/ PrevElem
    \/ \E e \in Node : PushBack(e) \/ PushFront(e) \/ Insert(e) \/ Erase(e) \/ Rotate(e)

-----------------------------------------------------------------------------
(* Properties *)

\* The n-th element from the head along next.
Visited(n) ==
    LET f[i \in 1 .. n] == IF i = 1 THEN head ELSE link[f[i - 1]].next IN f[n]

\* The list in memory is the sequence that the other modules take it for, in both
\* directions and closed to a cycle; what is not in it has null links, so it can
\* be put in another list; and the iterator, until the list changes, is at one of
\* its elements or at the end, which is behind the last (all operations of List).
ListIsSequence ==
    LET n == Len(seq)
    IN  /\ seq = <<>> <=> head = nullptr
        /\ head = nullptr <=> tail = nullptr
        /\ \A i \in 1 .. n :
              /\ Visited(i) = seq[i]
              /\ link[seq[i]].next = seq[IF i = n THEN 1 ELSE i + 1]
              /\ link[seq[i]].prev = seq[IF i = 1 THEN n ELSE i - 1]
        /\ seq # <<>> => tail = seq[n]
        /\ \A e \in Node : contains(seq, e) <=> link[e] # Unlinked
        /\ it.start = head
        /\ ~atEnd => contains(seq, get)
        /\ ~atEnd /\ get = tail => link[get].next = it.start
=============================================================================
