---------------------------- MODULE SmallVector ----------------------------
(***************************************************************************)
(* zth::small_vector (include/libzth/util.h): a buffer that is an array of *)
(* at most prealloc elements, or a std::vector.  m_size tells which of the *)
(* two it is: a value beyond prealloc says std::vector.  Elements are      *)
(* objects, so a slot of the array must be constructed before it is used   *)
(* and destroyed exactly once.  An allocation that fails throws before     *)
(* anything is changed.                                                    *)
(***************************************************************************)
EXTENDS Integers, Sequences, SequencesExt

CONSTANTS prealloc,  \* slots of the array
          Value,     \* values of elements
          raw,       \* memory that holds no object
          MaxLength  \* bound on the number of elements

VARIABLES m_size,  \* m_size
          array,   \* the buffer as an array
          vector,  \* the buffer as a std::vector: its elements and its capacity
          held,    \* the elements, according to the caller
          twice    \* an object was constructed on another, or destroyed twice

vectorVars == <<m_size, array, vector, held, twice>>

NoVector == [elems |-> raw, capacity |-> 0]

VectorInit ==
    /\ m_size = 0
    /\ array = [i \in 0 .. prealloc - 1 |-> raw]
    /\ vector = NoVector
    /\ held = <<>>
    /\ twice = FALSE

-----------------------------------------------------------------------------
(* The buffer b has the fields size, array, vector and twice *)

Buffer == [size |-> m_size, array |-> array, vector |-> vector, twice |-> twice]

is_small(b) == b.size <= prealloc

Count(b) == IF is_small(b) THEN b.size ELSE Len(b.vector.elems)

capacity(b) == IF is_small(b) THEN prealloc ELSE b.vector.capacity

Elements(b) ==
    IF is_small(b) THEN [i \in 1 .. b.size |-> b.array[i - 1]] ELSE b.vector.elems

Construct(b, v) ==
    [b EXCEPT !.array[b.size] = v, !.size = @ + 1, !.twice = @ \/ b.array[b.size] # raw]

Destroy(b) ==
    [b EXCEPT !.array[b.size - 1] = raw, !.size = @ - 1,
              !.twice = @ \/ b.array[b.size - 1] = raw]

\* Mutant of make_vector: the size is that of a full array.
make_vector_Full(b, cap) ==
    [size |-> prealloc,
     array |-> [i \in DOMAIN b.array |-> IF i < b.size THEN raw ELSE b.array[i]],
     vector |-> [elems |-> Elements(b), capacity |-> IF cap > b.size THEN cap ELSE b.size],
     twice |-> b.twice]

\* Every element is moved to a std::vector of its own, which is put in the buffer.
make_vector(b, cap) ==
    [size |-> prealloc + 1,
     array |-> [i \in DOMAIN b.array |-> IF i < b.size THEN raw ELSE b.array[i]],
     vector |-> [elems |-> Elements(b), capacity |-> IF cap > b.size THEN cap ELSE b.size],
     twice |-> b.twice \/ \E i \in DOMAIN b.array : i < b.size /\ b.array[i] = raw]

Grow(b, cap) == [b EXCEPT !.vector.capacity = IF cap > @ THEN cap ELSE @]

reserve(b, cap) ==
    IF is_small(b) /\ cap <= prealloc THEN b
    ELSE Grow(IF is_small(b) THEN make_vector(b, cap) ELSE b, cap)

\* push_back() and emplace_back()
push_back(b, v) ==
    LET r == reserve(b, Count(b) + 1)
    IN  IF r.size < prealloc THEN Construct(r, v)
        ELSE [r EXCEPT !.vector.elems = Append(@, v)]

pop_back(b) ==
    IF is_small(b) THEN Destroy(b) ELSE [b EXCEPT !.vector.elems = Front(@)]

Fill(s, n, v) == [i \in 1 .. n |-> IF i <= Len(s) THEN s[i] ELSE v]

Times(b, n, Op(_)) == LET f[i \in 0 .. n] == IF i = 0 THEN b ELSE Op(f[i - 1]) IN f[n]

resize(b, n, v) ==
    LET shrunk == Times(b, IF n < b.size THEN b.size - n ELSE 0, Destroy)
    IN  IF ~is_small(b) THEN [Grow(b, n) EXCEPT !.vector.elems = Fill(@, n, v)]
        ELSE IF n <= prealloc
             THEN Times(shrunk, n - shrunk.size, LAMBDA c : Construct(c, v))
             ELSE [make_vector(shrunk, n) EXCEPT !.vector.elems = Fill(@, n, v)]

clear(b) ==
    IF is_small(b) THEN resize(b, 0, raw) ELSE [b EXCEPT !.vector.elems = <<>>]

\* The std::vector stays, but it has no memory anymore.
clear_and_release(b) ==
    IF is_small(b) THEN resize(b, 0, raw)
    ELSE [b EXCEPT !.vector = [elems |-> <<>>, capacity |-> 0]]

\* The destructor, and a new vector in the same memory.
Renew(b) ==
    IF is_small(b) THEN resize(b, 0, raw)
    ELSE [b EXCEPT !.size = 0, !.vector = NoVector]

-----------------------------------------------------------------------------
Becomes(b, s) ==
    /\ m_size' = b.size /\ array' = b.array /\ vector' = b.vector /\ twice' = b.twice
    /\ held' = s

PushBack(v) == Len(held) < MaxLength /\ Becomes(push_back(Buffer, v), Append(held, v))

PopBack == held # <<>> /\ Becomes(pop_back(Buffer), Front(held))

Assign(i, v) ==
    /\ i \in DOMAIN held
    /\ Becomes(IF is_small(Buffer) THEN [Buffer EXCEPT !.array[i - 1] = v]
               ELSE [Buffer EXCEPT !.vector.elems[i] = v],
               [held EXCEPT ![i] = v])

Resize(n, v) == Becomes(resize(Buffer, n, v), Fill(held, n, v))

Reserve(n) == Becomes(reserve(Buffer, n), held)

Clear == Becomes(clear(Buffer), <<>>)

ClearAndRelease == Becomes(clear_and_release(Buffer), <<>>)

Destruct == Becomes(Renew(Buffer), <<>>)

VectorNext ==
    \/ PopBack \/ Clear \/ ClearAndRelease \/ Destruct
    \/ \E v \in Value : PushBack(v)
    \/ \E v \in Value, i \in 1 .. MaxLength : Assign(i, v)
    \/ \E v \in Value, n \in 0 .. MaxLength : Resize(n, v)
    \/ \E n \in 0 .. MaxLength : Reserve(n)

-----------------------------------------------------------------------------
(* Properties *)

\* Through every change between the array and the std::vector the elements are
\* what the caller put in (operator[], size(), front(), back()), in memory that
\* is large enough; the slots of the array that hold an object are exactly those
\* before m_size; and no object is constructed or destroyed twice.
VectorHoldsElements ==
    /\ Elements(Buffer) = held
    /\ Count(Buffer) <= capacity(Buffer)
    /\ \A i \in DOMAIN array : array[i] # raw <=> is_small(Buffer) /\ i < m_size
    /\ is_small(Buffer) <=> vector = NoVector
    /\ ~twice
=============================================================================
