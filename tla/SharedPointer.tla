--------------------------- MODULE SharedPointer ---------------------------
(***************************************************************************)
(* zth::RefCounted (include/libzth/util.h) with zth::SharedPointer and     *)
(* zth::SharedReference (include/libzth/sync.h), which own the Futures and *)
(* other synchronizers that fibers share.  An object may own another       *)
(* object by a SharedPointer that is a member of it: destroying the first  *)
(* then is what may destroy the second.                                    *)
(***************************************************************************)
EXTENDS Integers, FiniteSets

CONSTANTS Object,   \* RefCounted objects
          Variable, \* SharedPointers that are not in an object
          nullptr

Pointer == Variable \cup Object  \* o as a pointer is the member of o

VARIABLES m_count,   \* of every object
          m_object,  \* of every pointer
          alive,     \* the objects that are not deleted
          raws,      \* owners of what release() returned, a set of objects
          failed     \* an assertion failed, or a deleted object was used

sharedVars == <<m_count, m_object, alive, raws, failed>>

SharedInit ==
    /\ m_count = [o \in Object |-> 0]
    /\ m_object = [p \in Pointer |-> nullptr]
    /\ alive = {} /\ raws = {} /\ failed = FALSE

-----------------------------------------------------------------------------
(* The heap h has the fields count, ptr, alive and failed *)

Heap == [count |-> m_count, ptr |-> m_object, alive |-> alive, failed |-> failed]

used(h, o) ==
    IF o = nullptr THEN h
    ELSE [h EXCEPT !.count[o] = @ + 1, !.failed = @ \/ o \notin h.alive]

\* unused() of o, and of what its member owns when that deletes it, and so on:
\* a chain is at most as long as there are objects.
unused(h, o) ==
    LET Drop(r) ==
            LET x == r.next
                dec == [r.heap EXCEPT !.count[x] = @ - 1]
            IN  IF x = nullptr THEN r
                ELSE IF x \notin r.heap.alive \/ r.heap.count[x] = 0
                     THEN [heap |-> [r.heap EXCEPT !.failed = TRUE], next |-> nullptr]
                ELSE IF dec.count[x] > 0 THEN [heap |-> dec, next |-> nullptr]
                ELSE [heap |-> [dec EXCEPT !.alive = @ \ {x}, !.ptr[x] = nullptr],
                      next |-> dec.ptr[x]]
        dropped[n \in 0 .. Cardinality(Object)] ==
            IF n = 0 THEN [heap |-> h, next |-> o] ELSE Drop(dropped[n - 1])
    IN  dropped[Cardinality(Object)].heap

\* Mutant of reset: the old object is let go before the new one is held.
reset_Early(h, p, o) == [used(unused(h, h.ptr[p]), o) EXCEPT !.ptr[p] = o]

\* SharedPointer::reset(), and with it the constructors, the destructor and
\* assignment of a pointer or of another SharedPointer.
reset(h, p, o) == [unused(used(h, o), h.ptr[p]) EXCEPT !.ptr[p] = o]

\* Assignment of an rvalue: the old object is let go, and q is emptied.
move(h, p, q) ==
    LET r == reset(h, p, nullptr)
        a == [r EXCEPT !.ptr[q] = nullptr]
    IN  [a EXCEPT !.ptr[p] = r.ptr[q]]

-----------------------------------------------------------------------------
Becomes(h) ==
    /\ m_count' = h.count /\ m_object' = h.ptr /\ alive' = h.alive /\ failed' = h.failed

\* The members that the program gets at are those of the objects it holds.
Reachable(p) == p \in Variable \/ \E v \in Variable : m_object[v] = p

\* p = new T
New(p, o) ==
    /\ o \notin alive
    /\ Becomes(reset([Heap EXCEPT !.alive = @ \cup {o}], p, o))
    /\ UNCHANGED raws

Copy(p, q) == Becomes(reset(Heap, p, m_object[q])) /\ UNCHANGED raws

Reset(p) == Becomes(reset(Heap, p, nullptr)) /\ UNCHANGED raws

\* What is moved from is not in an object that p is the last owner of.
Move(p, q) ==
    /\ q \in Object => q \in reset(Heap, p, nullptr).alive
    /\ Becomes(move(Heap, p, q))
    /\ UNCHANGED raws

\* The caller of release() takes over the reference...
Release(p) ==
    /\ m_object[p] \notin raws \cup {nullptr}
    /\ raws' = raws \cup {m_object[p]}
    /\ m_object' = [m_object EXCEPT ![p] = nullptr]
    /\ UNCHANGED <<m_count, alive, failed>>

\* ...and calls unused().
RawUnused(o) == o \in raws /\ raws' = raws \ {o} /\ Becomes(unused(Heap, o))

SharedNext ==
    \/ \E o \in Object : RawUnused(o)
    \/ \E p \in Pointer :
          /\ Reachable(p)
          /\ \/ Reset(p) \/ Release(p)
             \/ \E o \in Object : New(p, o)
             \/ \E q \in Pointer : Reachable(q) /\ (Copy(p, q) \/ Move(p, q))

-----------------------------------------------------------------------------
(* Properties *)

Owners(o) == {p \in Pointer : m_object[p] = o /\ (p \in Object => p \in alive)}

\* An object is there exactly as long as somebody owns it: its count is the number
\* of SharedPointers to it plus the reference that was released, also when objects
\* own each other and one assignment deletes several of them (RefCounted::unused(),
\* SharedPointer::reset()); no assertion on the count fails and no deleted object is
\* used or left pointed at.
SharedIsOwned ==
    /\ ~failed
    /\ \A o \in Object :
          /\ m_count[o] = Cardinality(Owners(o)) + (IF o \in raws THEN 1 ELSE 0)
          /\ o \in alive <=> m_count[o] > 0
=============================================================================
