---------------------------- MODULE WorkerProofs ----------------------------
(***************************************************************************)
(* What the operations of zth::List do to the set of the elements and to   *)
(* their distinctness, for lists of any length; and every operation of the *)
(* worker keeps QueuesMatchStates, for any number of fibers, and           *)
(* schedule() always ends with CurrentRuns.  The lemmas also say which     *)
(* fibers an operation leaves alone.                                       *)
(***************************************************************************)
EXTENDS Worker, WellFoundedInduction, TLAPS

\* The least-number principle.
LEMMA LeastNumber ==
    ASSUME NEW T, T \subseteq Nat, T # {}
    PROVE  \E x \in T : \A y \in T : x <= y
  <1>1. PICK x \in T : \A y \in T : <<y, x>> \notin OpToRel(<, Nat)
    BY WFMin, NatLessThanWellFounded, Zenon
  <1>2. ASSUME NEW y \in T PROVE ~(y < x)
    <2>1. <<y, x>> \notin OpToRel(<, Nat)
      BY <1>1, Zenon
    <2> QED
      BY <2>1, SMT DEF OpToRel
  <1> QED
    BY <1>2, SMT

\* A function on an initial segment of the positive numbers is a sequence.
LEMMA SeqFromFunction ==
    ASSUME NEW S, NEW n \in Nat, NEW q \in [1 .. n -> S]
    PROVE  q \in Seq(S) /\ Len(q) = n /\ DOMAIN q = 1 .. n
  BY SMT

\* The domain of a list, and its elements.
LEMMA ListDomain ==
    ASSUME NEW S, NEW q \in Seq(S)
    PROVE  /\ Len(q) \in Nat /\ DOMAIN q = 1 .. Len(q)
           /\ \A i \in 1 .. Len(q) : q[i] \in S
           /\ Elems(q) \subseteq S
           /\ (q = <<>>) <=> (Len(q) = 0)
  BY SMT DEF Elems

\* push_back() adds one element, at the end.
LEMMA PushBack ==
    ASSUME NEW S, NEW q \in Seq(S), NEW e \in S
    PROVE  /\ push_back(q, e) \in Seq(S)
           /\ Elems(push_back(q, e)) = Elems(q) \cup {e}
           /\ Distinct(q) /\ e \notin Elems(q) => Distinct(push_back(q, e))
  <1> DEFINE r == push_back(q, e)
             n == Len(q)
  <1>1. /\ r \in Seq(S) /\ DOMAIN r = 1 .. n + 1
        /\ \A i \in 1 .. n : r[i] = q[i]
        /\ r[n + 1] = e
    BY SMT DEF push_back
  <1>2. n \in Nat /\ DOMAIN q = 1 .. n
    BY ListDomain
  <1> HIDE DEF r, n
  <1>3. Elems(r) = Elems(q) \cup {e}
    <2>1. ASSUME NEW i \in 1 .. n + 1 PROVE r[i] \in Elems(q) \cup {e}
      BY <1>1, <1>2, SMT DEF Elems
    <2>2. ASSUME NEW i \in 1 .. n PROVE q[i] \in Elems(r)
      BY <1>1, <1>2, SMT DEF Elems
    <2>3. e \in Elems(r)
      BY <1>1, <1>2, SMT DEF Elems
    <2> QED
      BY <2>1, <2>2, <2>3, <1>1, <1>2, SMT DEF Elems
  <1>4. ASSUME Distinct(q), e \notin Elems(q) PROVE Distinct(r)
    BY <1>1, <1>2, <1>4, SMT DEF Elems, Distinct
  <1> QED
    BY <1>1, <1>3, <1>4 DEF r

\* A list r made of the elements of q at the positions p[i].
LEMMA Reindexed ==
    ASSUME NEW q, NEW r, NEW D, DOMAIN r = D, NEW p \in [D -> DOMAIN q],
           \A i, j \in D : p[i] = p[j] => i = j,
           \A i \in D : r[i] = q[p[i]]
    PROVE  /\ Elems(r) = {q[p[i]] : i \in D}
           /\ Distinct(q) => Distinct(r)
  <1>1. Elems(r) = {q[p[i]] : i \in D}
    BY DEF Elems
  <1>2. ASSUME Distinct(q) PROVE Distinct(r)
    BY <1>2 DEF Distinct
  <1> QED
    BY <1>1, <1>2

\* push_front() adds one element, at the start.
LEMMA PushFront ==
    ASSUME NEW S, NEW q \in Seq(S), NEW e \in S
    PROVE  /\ push_front(q, e) \in Seq(S)
           /\ Elems(push_front(q, e)) = Elems(q) \cup {e}
           /\ Distinct(q) /\ e \notin Elems(q) => Distinct(push_front(q, e))
  <1> DEFINE r == push_front(q, e)
             n == Len(q)
  <1>1. /\ n \in Nat /\ DOMAIN q = 1 .. n
        /\ \A i \in 1 .. n : q[i] \in S
    BY ListDomain
  <1>2. r = [i \in 1 .. n + 1 |-> IF i = 1 THEN e ELSE q[i - 1]]
    BY DEF push_front
  <1> HIDE DEF r, n
  <1>3. \A i \in 1 .. n + 1 : i # 1 => i - 1 \in 1 .. n /\ r[i] = q[i - 1]
    BY <1>1, <1>2, SMT
  <1>4. r[1] = e /\ \A i \in 1 .. n : i + 1 \in 1 .. n + 1 /\ r[i + 1] = q[i]
    BY <1>1, <1>2, SMT
  <1>5. r \in Seq(S) /\ DOMAIN r = 1 .. n + 1
    <2>1. r \in [1 .. n + 1 -> S]
      BY <1>1, <1>2, SMT
    <2> QED
      BY <2>1, <1>1, SeqFromFunction, SMT
  <1>6. Elems(r) = Elems(q) \cup {e}
    <2>1. ASSUME NEW i \in 1 .. n + 1 PROVE r[i] \in Elems(q) \cup {e}
      BY <1>1, <1>3, <1>4, Zenon DEF Elems
    <2>2. ASSUME NEW i \in 1 .. n PROVE q[i] \in Elems(r)
      BY <1>4, <1>5, Zenon DEF Elems
    <2>3. e \in Elems(r)
      <3>1. 1 \in DOMAIN r
        BY <1>1, <1>5, SMT
      <3> QED
        BY <3>1, <1>4 DEF Elems
    <2> QED
      BY <2>1, <2>2, <2>3, <1>1, <1>5 DEF Elems
  <1>7. ASSUME Distinct(q), e \notin Elems(q) PROVE Distinct(r)
    <2> SUFFICES ASSUME NEW i \in 1 .. n + 1, NEW j \in 1 .. n + 1, r[i] = r[j] PROVE i = j
      BY <1>5 DEF Distinct
    <2>1. CASE i # 1 /\ j # 1
      <3>1. i - 1 = j - 1
        <4>1. i - 1 \in DOMAIN q /\ j - 1 \in DOMAIN q /\ q[i - 1] = q[j - 1]
          BY <2>1, <1>1, <1>3
        <4> QED
          BY <4>1, <1>7, Zenon DEF Distinct
      <3> QED
        BY <3>1, SMT
    <2>2. CASE i = 1 \/ j = 1
      BY <2>2, <1>1, <1>3, <1>4, <1>7, Zenon DEF Elems
    <2> QED
      BY <2>1, <2>2
  <1> QED
    BY <1>5, <1>6, <1>7 DEF r

\* Dropping the elements before position k keeps the others, in order.
LEMMA FromLemma ==
    ASSUME NEW S, NEW q \in Seq(S), NEW k \in 1 .. Len(q) + 1
    PROVE  /\ From(q, k) \in Seq(S)
           /\ Elems(From(q, k)) \subseteq Elems(q)
           /\ \A y \in Elems(q) : y \in Elems(From(q, k)) \/ \E i \in 1 .. k - 1 : y = q[i]
           /\ \A i \in 1 .. k - 1 : q[i] \in Elems(q)
           /\ Distinct(q) => /\ Distinct(From(q, k))
                             /\ \A i \in 1 .. k - 1 : q[i] \notin Elems(From(q, k))
           /\ From(q, k) # <<>> => k <= Len(q) /\ front(From(q, k)) = q[k]
  <1> DEFINE n == Len(q)
             m == n - k + 1
             D == 1 .. m
             p == [i \in D |-> i + k - 1]
             r == From(q, k)
  <1>1. /\ n \in Nat /\ DOMAIN q = 1 .. n /\ k \in 1 .. n + 1
        /\ \A i \in 1 .. n : q[i] \in S
    BY ListDomain
  <1>2. m \in Nat /\ p \in [D -> DOMAIN q]
    BY <1>1, SMT
  <1>3. \A i, j \in D : p[i] = p[j] => i = j
    BY <1>1, SMT
  <1>4. /\ r \in [D -> S] /\ DOMAIN r = D
        /\ \A i \in D : r[i] = q[p[i]]
    BY <1>1, <1>2 DEF From
  <1>5. \A i \in D : p[i] \in k .. n
    BY <1>1, SMT
  <1>6. \A i \in k .. n : i - k + 1 \in D /\ p[i - k + 1] = i
    BY <1>1, SMT
  <1>7. r \in Seq(S) /\ Len(r) = m
    BY <1>2, <1>4, SeqFromFunction
  <1> HIDE DEF p, D, m, r
  <1>8. /\ Elems(r) = {q[p[i]] : i \in D}
        /\ Distinct(q) => Distinct(r)
    <2>1. DOMAIN r = D /\ p \in [D -> DOMAIN q] /\ \A i \in D : r[i] = q[p[i]]
      BY <1>2, <1>4
    <2>2. Elems(r) = {q[p[i]] : i \in D}
      BY <2>1 DEF Elems
    <2>3. ASSUME Distinct(q) PROVE Distinct(r)
      BY <1>3, <2>1, <2>3 DEF Distinct
    <2> QED
      BY <2>2, <2>3
  <1>9. Elems(r) = {q[i] : i \in k .. n}
    BY <1>5, <1>6, <1>8, Zenon
  <1>10. \A i \in 1 .. n : i \in 1 .. k - 1 \/ i \in k .. n
    BY <1>1, SMT
  <1>11. \A i \in 1 .. k - 1 : \A j \in k .. n : i \in 1 .. n /\ i # j
    BY <1>1, SMT
  <1>12. (\A j \in k .. n : j \in 1 .. n) /\ (\A i \in 1 .. k - 1 : i \in 1 .. n)
    BY <1>1, SMT
  <1>13. r # <<>> => k <= n /\ front(r) = q[k]
    <2> SUFFICES ASSUME r # <<>> PROVE k <= n /\ front(r) = q[k]
      OBVIOUS
    <2>1. m # 0
      BY <1>7, ListDomain
    <2>2. k <= n /\ 1 \in D /\ p[1] = k
      BY <2>1, <1>1, <1>2, SMT DEF m, D, p
    <2> QED
      BY <2>2, <1>4 DEF front
  <1> HIDE DEF n
  <1>14. Elems(r) \subseteq Elems(q)
    BY <1>1, <1>9, <1>12, Zenon DEF Elems
  <1>15. \A y \in Elems(q) : y \in Elems(r) \/ \E i \in 1 .. k - 1 : y = q[i]
    <2> SUFFICES ASSUME NEW i \in 1 .. n
                 PROVE  q[i] \in Elems(r) \/ \E j \in 1 .. k - 1 : q[i] = q[j]
      BY <1>1 DEF Elems
    <2> QED
      BY <1>9, <1>10
  <1>16. \A i \in 1 .. k - 1 : q[i] \in Elems(q)
    BY <1>1, <1>12 DEF Elems
  <1>17. ASSUME Distinct(q), NEW i \in 1 .. k - 1 PROVE q[i] \notin Elems(r)
    BY <1>1, <1>9, <1>11, <1>12, <1>17 DEF Distinct
  <1> QED
    BY <1>7, <1>8, <1>13, <1>14, <1>15, <1>16, <1>17 DEF r, n

\* pop_front() takes away the first element only.
LEMMA PopFront ==
    ASSUME NEW S, NEW q \in Seq(S), q # <<>>, Distinct(q)
    PROVE  /\ front(q) \in Elems(q)
           /\ pop_front(q) \in Seq(S)
           /\ Elems(pop_front(q)) = Elems(q) \ {front(q)}
           /\ Distinct(pop_front(q))
  <1> DEFINE n == Len(q)
  <1>1. n \in Nat /\ n # 0 /\ DOMAIN q = 1 .. n
    BY ListDomain
  <1>2. /\ 2 \in 1 .. Len(q) + 1 /\ 1 \in DOMAIN q
        /\ \A i \in 1 .. 2 - 1 : i = 1
        /\ 1 \in 1 .. 2 - 1
    BY <1>1, SMT
  <1>3. /\ pop_front(q) \in Seq(S)
        /\ Distinct(pop_front(q))
        /\ Elems(pop_front(q)) \subseteq Elems(q)
        /\ \A y \in Elems(q) : y \in Elems(pop_front(q)) \/ y = q[1]
        /\ q[1] \notin Elems(pop_front(q))
    BY <1>2, FromLemma DEF pop_front
  <1> QED
    BY <1>2, <1>3, Zenon DEF Elems, front

\* The position of an element is the one where it is.
LEMMA PositionLemma ==
    ASSUME NEW S, NEW q \in Seq(S), NEW e \in Elems(q)
    PROVE  Position(q, e) \in 1 .. Len(q) /\ q[Position(q, e)] = e
  <1>1. \E i \in DOMAIN q : q[i] = e
    BY DEF Elems
  <1> QED
    BY <1>1, ListDomain DEF Position

\* erase() takes away the given element only.
LEMMA Erase ==
    ASSUME NEW S, NEW q \in Seq(S), NEW e \in Elems(q), Distinct(q)
    PROVE  /\ erase(q, e) \in Seq(S)
           /\ Elems(erase(q, e)) = Elems(q) \ {e}
           /\ Distinct(erase(q, e))
  <1> DEFINE n == Len(q)
             x == Position(q, e)
             m == n - 1
             D == 1 .. m
             p == [i \in D |-> IF i < x THEN i ELSE i + 1]
             r == erase(q, e)
  <1>1. /\ n \in Nat /\ DOMAIN q = 1 .. n /\ x \in DOMAIN q /\ q[x] = e
        /\ \A i \in 1 .. n : q[i] \in S
    BY ListDomain, PositionLemma
  <1>2. r = [i \in D |-> IF i < x THEN q[i] ELSE q[i + 1]]
    BY DEF erase
  <1> HIDE DEF n, x, r
  <1>3. m \in Nat /\ p \in [D -> DOMAIN q]
    BY <1>1, SMT
  <1>4. \A i, j \in D : p[i] = p[j] => i = j
    BY <1>1, SMT
  <1>5. \A i \in D : p[i] # x
    BY <1>1, SMT
  <1>6. \A i \in DOMAIN q : i # x => \E j \in D : p[j] = i
    <2> SUFFICES ASSUME NEW i \in DOMAIN q, i # x PROVE \E j \in D : p[j] = i
      OBVIOUS
    <2>1. CASE i < x
      <3>1. i \in D /\ p[i] = i
        BY <2>1, <1>1, SMT
      <3> QED
        BY <3>1
    <2>2. CASE i > x
      <3>1. i - 1 \in D /\ p[i - 1] = i
        BY <2>2, <1>1, SMT
      <3> QED
        BY <3>1
    <2> QED
      BY <2>1, <2>2, <1>1, SMT
  <1>7. r \in [D -> S] /\ \A i \in D : r[i] = q[p[i]]
    <2>1. \A i \in D : r[i] = q[p[i]]
      BY <1>2
    <2> QED
      BY <2>1, <1>1, <1>2, <1>3
  <1>8. r \in Seq(S) /\ DOMAIN r = D
    BY <1>3, <1>7, SeqFromFunction
  <1> HIDE DEF p, D, m
  <1>9. Elems(r) = {q[p[i]] : i \in D} /\ Distinct(r)
    BY <1>3, <1>4, <1>7, <1>8, Reindexed
  <1>10. Elems(r) = Elems(q) \ {e}
    <2>1. \A i \in D : q[p[i]] \in Elems(q) \ {e}
      BY <1>1, <1>3, <1>5 DEF Elems, Distinct
    <2>2. ASSUME NEW y \in Elems(q) \ {e} PROVE y \in {q[p[i]] : i \in D}
      <3> PICK i \in DOMAIN q : y = q[i]
        BY DEF Elems
      <3>1. i # x
        BY <1>1
      <3> QED
        BY <3>1, <1>6
    <2> QED
      BY <2>1, <2>2, <1>9
  <1> QED
    BY <1>8, <1>9, <1>10 DEF r

\* rotate() takes away no element, and adds none.
LEMMA Rotate ==
    ASSUME NEW S, NEW q \in Seq(S), NEW e \in Elems(q)
    PROVE  /\ rotateAfter(q, e) \in Seq(S)
           /\ Elems(rotateAfter(q, e)) = Elems(q)
           /\ Distinct(q) => Distinct(rotateAfter(q, e))
  <1> DEFINE n == Len(q)
             x == Position(q, e)
             D == 1 .. n
             p == [i \in D |-> IF i + x <= n THEN i + x ELSE i + x - n]
             r == rotateAfter(q, e)
  <1>1. /\ n \in Nat /\ DOMAIN q = D /\ x \in D
        /\ \A i \in D : q[i] \in S
    BY ListDomain, PositionLemma
  <1>2. r = [i \in D |-> IF i + x <= n THEN q[i + x] ELSE q[i + x - n]]
    BY DEF rotateAfter
  <1> HIDE DEF n, x, r
  <1>3. p \in [D -> DOMAIN q]
    BY <1>1, SMT
  <1>4. \A i, j \in D : p[i] = p[j] => i = j
    BY <1>1, SMT
  <1>5. \A i \in D : \E j \in D : p[j] = i
    <2> SUFFICES ASSUME NEW i \in D PROVE \E j \in D : p[j] = i
      OBVIOUS
    <2>1. CASE i > x
      <3>1. i - x \in D /\ p[i - x] = i
        BY <2>1, <1>1, SMT
      <3> QED
        BY <3>1
    <2>2. CASE i <= x
      <3>1. i - x + n \in D /\ p[i - x + n] = i
        BY <2>2, <1>1, SMT
      <3> QED
        BY <3>1
    <2> QED
      BY <2>1, <2>2, <1>1, SMT
  <1>6. r \in [D -> S] /\ \A i \in D : r[i] = q[p[i]]
    <2>1. \A i \in D : r[i] = q[p[i]]
      BY <1>2
    <2> QED
      BY <2>1, <1>1, <1>2, <1>3
  <1>7. r \in Seq(S) /\ DOMAIN r = D
    BY <1>1, <1>6, SeqFromFunction
  <1> HIDE DEF p, D
  <1>8. /\ Elems(r) = {q[p[i]] : i \in D}
        /\ Distinct(q) => Distinct(r)
    BY <1>3, <1>4, <1>6, <1>7, Reindexed
  <1>9. Elems(r) = Elems(q)
    <2>1. \A i \in D : q[p[i]] \in Elems(q)
      BY <1>1, <1>3 DEF Elems
    <2>2. ASSUME NEW i \in D PROVE q[i] \in {q[p[j]] : j \in D}
      BY <1>5
    <2>3. Elems(q) = {q[i] : i \in D}
      BY <1>1 DEF Elems
    <2> QED
      BY <2>1, <2>2, <2>3, <1>8, Zenon
  <1> QED
    BY <1>7, <1>8, <1>9 DEF r

\* appendAll() adds all elements of the second list.
LEMMA AppendAll ==
    ASSUME NEW S, NEW q \in Seq(S), NEW r \in Seq(S)
    PROVE  /\ appendAll(q, r) \in Seq(S)
           /\ Elems(appendAll(q, r)) = Elems(q) \cup Elems(r)
           /\ Distinct(q) /\ Distinct(r) /\ Elems(q) \cap Elems(r) = {}
                 => Distinct(appendAll(q, r))
  <1> DEFINE n == Len(q)
             m == Len(r)
             D == 1 .. n + m
             a == appendAll(q, r)
  <1>1. /\ n \in Nat /\ DOMAIN q = 1 .. n /\ \A i \in 1 .. n : q[i] \in S
        /\ m \in Nat /\ DOMAIN r = 1 .. m /\ \A i \in 1 .. m : r[i] \in S
    BY ListDomain
  <1>2. a = [i \in D |-> IF i <= n THEN q[i] ELSE r[i - n]]
    BY DEF appendAll
  <1> HIDE DEF n, m, a
  <1>3. \A i \in D : \/ i \in 1 .. n /\ a[i] = q[i]
                     \/ i - n \in 1 .. m /\ a[i] = r[i - n]
    BY <1>1, <1>2, SMT
  <1>4. \A i \in 1 .. n : i \in D /\ a[i] = q[i]
    BY <1>1, <1>2, SMT
  <1>5. \A i \in 1 .. m : i + n \in D /\ a[i + n] = r[i]
    BY <1>1, <1>2, SMT
  <1>6. a \in Seq(S) /\ DOMAIN a = D
    <2>1. a \in [D -> S]
      BY <1>1, <1>2, <1>3
    <2>2. n + m \in Nat
      BY <1>1, SMT
    <2> QED
      BY <2>1, <2>2, SeqFromFunction
  <1>7. Elems(a) = Elems(q) \cup Elems(r)
    <2>1. \A i \in D : a[i] \in Elems(q) \cup Elems(r)
      BY <1>1, <1>3, Zenon DEF Elems
    <2>2. (\A i \in 1 .. n : q[i] \in Elems(a)) /\ (\A i \in 1 .. m : r[i] \in Elems(a))
      <3> HIDE DEF D
      <3> QED
        BY <1>4, <1>5, <1>6, Zenon DEF Elems
    <2> QED
      BY <2>1, <2>2, <1>1, <1>6, Zenon DEF Elems
  <1>8. ASSUME Distinct(q), Distinct(r), Elems(q) \cap Elems(r) = {} PROVE Distinct(a)
    <2> SUFFICES ASSUME NEW i \in D, NEW j \in D, a[i] = a[j] PROVE i = j
      BY <1>6 DEF Distinct
    <2>1. \A x \in 1 .. n : \A y \in 1 .. m : q[x] # r[y]
      BY <1>1, <1>8, Zenon DEF Elems
    <2>2. CASE i \in 1 .. n /\ a[i] = q[i] /\ j \in 1 .. n /\ a[j] = q[j]
      BY <2>2, <1>1, <1>8, Zenon DEF Distinct
    <2>3. CASE i - n \in 1 .. m /\ a[i] = r[i - n] /\ j - n \in 1 .. m /\ a[j] = r[j - n]
      <3>1. i - n = j - n
        BY <2>3, <1>1, <1>8, Zenon DEF Distinct
      <3> QED
        BY <3>1, <1>1, SMT
    <2> QED
      BY <2>1, <2>2, <2>3, <1>3
  <1> QED
    BY <1>6, <1>7, <1>8 DEF a

-----------------------------------------------------------------------------
(* Worker *)

\* What schedule() may have done to w when it has returned as v.
Scheduled(w, v) ==
    /\ v \in WorkerType /\ QueuesMatchStates(v) /\ CurrentRuns(v)
    /\ v.suspended = w.suspended
    /\ Elems(v.runnable) \subseteq Elems(w.runnable)
    /\ \A g \in Fiber : v.state[g] # w.state[g] =>
          /\ g \in Elems(w.runnable)
          /\ \/ v.state[g] \in {"Ready", "Running"}
             \/ w.state[g] = "Dead" /\ v.state[g] = "Uninitialized"
    /\ v.state[workerFiber] = "Running" \/ v.current \in Fiber

\* The index that cleanup() stops at is the first that it does not clean up.
LEMMA FirstStayingLemma ==
    ASSUME NEW w, w \in WorkerType
    PROVE  /\ FirstStaying(w) \in 1 .. Len(w.runnable) + 1
           /\ \A j \in 1 .. FirstStaying(w) - 1 : ~Stays(w, j)
           /\ FirstStaying(w) <= Len(w.runnable) => Stays(w, FirstStaying(w))
  <1> DEFINE n == Len(w.runnable)
             T == {i \in DOMAIN w.runnable : Stays(w, i)}
  <1>1. n \in Nat /\ DOMAIN w.runnable = 1 .. n
    BY ListDomain DEF WorkerType
  <1>2. CASE T = {}
    <2>1. FirstStaying(w) = n + 1
      BY <1>2 DEF FirstStaying
    <2>2. \A j \in 1 .. n : ~Stays(w, j)
      BY <1>1, <1>2
    <2> HIDE DEF n
    <2> QED
      BY <1>1, <2>1, <2>2, SMT DEF n
  <1>3. CASE T # {}
    <2>1. PICK x \in T : \A y \in T : x <= y
      <3>1. T \subseteq Nat
        BY <1>1, SMT
      <3> QED
        BY <3>1, <1>3, LeastNumber, Zenon
    <2>2. \A j \in 1 .. x - 1 : ~Stays(w, j)
      BY <2>1, <1>1, SMT
    <2>3. \E i \in DOMAIN w.runnable : Stays(w, i) /\ \A j \in 1 .. i - 1 : ~Stays(w, j)
      BY <2>1, <2>2
    <2>4. /\ FirstStaying(w) \in DOMAIN w.runnable
          /\ Stays(w, FirstStaying(w))
          /\ \A j \in 1 .. FirstStaying(w) - 1 : ~Stays(w, j)
      BY <2>3, Zenon DEF FirstStaying
    <2> QED
      BY <1>1, <2>4, SMT
  <1> QED
    BY <1>2, <1>3

\* cleanup() removes dead fibers only, and not the current one.
LEMMA CleanupLemma ==
    ASSUME NEW w, w \in WorkerType, QueuesMatchStates(w), NEW v, v = cleanup(w)
    PROVE  /\ v \in WorkerType /\ QueuesMatchStates(v)
           /\ v.suspended = w.suspended /\ v.current = w.current /\ v.failed = w.failed
           /\ Elems(v.runnable) \subseteq Elems(w.runnable)
           /\ \A g \in Fiber : v.state[g] # w.state[g] =>
                 /\ g \in Elems(w.runnable) /\ g # w.current
                 /\ w.state[g] = "Dead" /\ v.state[g] = "Uninitialized"
           /\ v.state[workerFiber] = w.state[workerFiber]
           /\ v.runnable # <<>> =>
                 v.state[front(v.runnable)] # "Dead" \/ front(v.runnable) = w.current
           /\ \A f \in Elems(w.runnable) : w.state[f] # "Dead" => v.runnable # <<>>
  <1> DEFINE k == FirstStaying(w)
             q == w.runnable
             n == Len(q)
  <1>1. /\ q \in Seq(Fiber) /\ n \in Nat /\ DOMAIN q = 1 .. n
        /\ \A i \in 1 .. n : q[i] \in Fiber
    BY ListDomain DEF WorkerType
  <1>2. /\ k \in 1 .. n + 1
        /\ \A j \in 1 .. k - 1 : ~Stays(w, j)
        /\ k <= n => Stays(w, k)
    BY FirstStayingLemma
  <1>3. v = [w EXCEPT !.runnable = From(q, k),
                      !.state = [f \in Context |->
                           IF f \in Reaped(w) THEN "Uninitialized" ELSE w.state[f]]]
    BY DEF cleanup
  <1>4. /\ v.runnable = From(q, k)
        /\ v.state = [f \in Context |->
                           IF f \in Reaped(w) THEN "Uninitialized" ELSE w.state[f]]
        /\ v.stateNext = w.stateNext /\ v.suspended = w.suspended
        /\ v.current = w.current /\ v.failed = w.failed
    BY <1>3 DEF WorkerType
  <1>5. /\ v.runnable \in Seq(Fiber) /\ Distinct(v.runnable)
        /\ Elems(v.runnable) \subseteq Elems(q)
        /\ \A y \in Elems(q) : y \in Elems(v.runnable) \/ \E i \in 1 .. k - 1 : y = q[i]
        /\ \A i \in 1 .. k - 1 : q[i] \in Elems(q) /\ q[i] \notin Elems(v.runnable)
        /\ v.runnable # <<>> => k <= n /\ front(v.runnable) = q[k]
    <2>1. Distinct(q)
      BY DEF QueuesMatchStates
    <2> HIDE DEF k
    <2> QED
      BY <1>1, <1>2, <1>4, <2>1, FromLemma
  <1>6. \A f \in Elems(q) : f \in Reaped(w) \/ f \in Elems(v.runnable)
    BY <1>5 DEF Reaped
  <1>7. \A f \in Reaped(w) : f \in Elems(q) /\ f # w.current /\ w.state[f] = "Dead"
    BY <1>2, <1>5 DEF Reaped, Stays
  <1>8. \A f \in Elems(v.runnable) : f \in Elems(q) /\ f \notin Reaped(w)
    BY <1>5 DEF Reaped
  <1>9. workerFiber \notin Reaped(w)
    BY <1>1, <1>7, ListDomain, WorkerAssumption
  <1>10. v.runnable # <<>> =>
           v.state[front(v.runnable)] # "Dead" \/ front(v.runnable) = w.current
    <2> SUFFICES ASSUME v.runnable # <<>> PROVE v.state[q[k]] # "Dead" \/ q[k] = w.current
      BY <1>5
    <2>1. k \in 1 .. n /\ Stays(w, k)
      BY <1>1, <1>2, <1>5, SMT
    <2> QED
      BY <2>1, <1>1, <1>4 DEF Stays, Context
  <1>11. v.stateNext \in [Context -> State] /\ v.state \in [Context -> State] /\ v \in WorkerType
    <2>1. v.state \in [Context -> State]
      BY <1>4 DEF WorkerType, State
    <2> QED
      BY <2>1, <1>3, <1>4, <1>5, Zenon DEF WorkerType
  <1>12. QueuesMatchStates(v)
    <2> USE DEF QueuesMatchStates
    <2>1. Distinct(v.runnable) /\ Distinct(v.suspended)
      BY <1>4, <1>5
    <2>2. /\ v.state[workerFiber] \in {"Ready", "Running"}
          /\ v.state[workerFiber] = "Running" => v.current = workerFiber
      BY <1>4, <1>9 DEF Context
    <2>3. ASSUME NEW f \in Fiber
          PROVE  /\ f \in Elems(v.runnable) =>
                       v.state[f] \in {"New", "Ready", "Running", "Dead"}
                 /\ f \in Elems(v.suspended) =>
                       v.state[f] \in {"Suspended", "Dead"} /\ f \notin Elems(v.runnable)
                 /\ v.state[f] \in {"New", "Ready", "Running"} => f \in Elems(v.runnable)
                 /\ v.state[f] = "Suspended" => f \in Elems(v.suspended)
                 /\ v.state[f] = "Running" => f = v.current
                 /\ v.state[f] \in {"New", "Waiting"} => v.stateNext[f] = "Ready"
                 /\ v.state[f] = "Suspended" => v.stateNext[f] \in {"New", "Ready"}
      BY <1>4, <1>6, <1>7, <1>8 DEF Context
    <2> QED
      BY <2>1, <2>2, <2>3
  <1>13. \A f \in Elems(w.runnable) : w.state[f] # "Dead" => v.runnable # <<>>
    <2>1. \A f \in Elems(w.runnable) : w.state[f] # "Dead" => f \in Elems(v.runnable)
      BY <1>6, <1>7
    <2>2. v.runnable = <<>> => Elems(v.runnable) = {}
      BY DEF Elems
    <2> QED
      BY <2>1, <2>2
  <1>14. \A g \in Fiber : v.state[g] # w.state[g] =>
              /\ g \in Elems(w.runnable) /\ g # w.current
              /\ w.state[g] = "Dead" /\ v.state[g] = "Uninitialized"
    BY <1>4, <1>7 DEF Context
  <1>15. v.state[workerFiber] = w.state[workerFiber]
    BY <1>4, <1>9 DEF Context
  <1> QED
    BY <1>4, <1>8, <1>10, <1>11, <1>12, <1>13, <1>14, <1>15

\* Fiber::run() of a fiber that can run, or of the context that waits for it.
LEMMA RunLemma ==
    ASSUME NEW w, w \in WorkerType, QueuesMatchStates(w), ~w.failed,
           NEW f \in Context, f # w.current,
           f \in Fiber => f \in Elems(w.runnable) /\ w.state[f] # "Dead",
           NEW v, v = run(w, f)
    PROVE  /\ Scheduled(w, v) /\ ~v.failed
           /\ v.runnable = w.runnable /\ v.current = f
  <1> DEFINE s == IF w.state[f] = "New" THEN w.stateNext[f] ELSE w.state[f]
  <1>1. s = "Ready"
    BY DEF QueuesMatchStates, Context
  <1> DEFINE st == [g \in Context |->
                        CASE g = f -> "Running"
                          [] g = w.current /\ w.state[g] = "Running" -> "Ready"
                          [] OTHER -> w.state[g]]
             nx == [w.stateNext EXCEPT ![f] = IF w.state[f] = "New" THEN "Ready" ELSE @]
  <1>2. v = [w EXCEPT !.current = f, !.state = st, !.stateNext = nx]
    BY <1>1 DEF run, WorkerType
  <1>3. st \in [Context -> State] /\ nx \in [Context -> State]
    BY DEF WorkerType, State
  <1>4. /\ st[f] = "Running"
        /\ \A g \in Context : g # f => 
              /\ nx[g] = w.stateNext[g]
              /\ st[g] = IF g = w.current /\ w.state[g] = "Running" THEN "Ready" ELSE w.state[g]
    BY DEF WorkerType
  <1> HIDE DEF st, nx
  <1>5. v \in WorkerType
    BY <1>2, <1>3, Zenon DEF WorkerType
  <1>6. /\ v.current = f /\ v.state = st /\ v.stateNext = nx
        /\ v.runnable = w.runnable /\ v.suspended = w.suspended /\ v.failed = w.failed
    BY <1>2 DEF WorkerType
  <1>7. /\ f # workerFiber => st[workerFiber] = "Ready"
        /\ f = workerFiber => st[workerFiber] = "Running"
    BY <1>4 DEF QueuesMatchStates, Context
  <1>8. ASSUME NEW g \in Fiber
        PROVE  /\ g \in Elems(v.runnable) =>
                     v.state[g] \in {"New", "Ready", "Running", "Dead"}
               /\ g \in Elems(v.suspended) =>
                     v.state[g] \in {"Suspended", "Dead"} /\ g \notin Elems(v.runnable)
               /\ v.state[g] \in {"New", "Ready", "Running"} => g \in Elems(v.runnable)
               /\ v.state[g] = "Suspended" => g \in Elems(v.suspended)
               /\ v.state[g] = "Running" => g = v.current
               /\ v.state[g] \in {"New", "Waiting"} => v.stateNext[g] = "Ready"
               /\ v.state[g] = "Suspended" => v.stateNext[g] \in {"New", "Ready"}
               /\ v.state[g] # w.state[g] =>
                     g \in Elems(w.runnable) /\ v.state[g] \in {"Ready", "Running"}
    <2>1. CASE g = f
      BY <2>1, <1>4, <1>6 DEF QueuesMatchStates, Context
    <2>2. CASE g # f
      BY <2>2, <1>4, <1>6 DEF QueuesMatchStates, Context
    <2> QED
      BY <2>1, <2>2
  <1>9. QueuesMatchStates(v)
    <2>1. Distinct(v.runnable) /\ Distinct(v.suspended)
      BY <1>6 DEF QueuesMatchStates
    <2>2. /\ v.state[workerFiber] \in {"Ready", "Running"}
          /\ v.state[workerFiber] = "Running" => v.current = workerFiber
      BY <1>6, <1>7
    <2> QED
      BY <2>1, <2>2, <1>8 DEF QueuesMatchStates
  <1>10. CurrentRuns(v)
    BY <1>4, <1>6 DEF CurrentRuns
  <1> QED
    BY <1>5, <1>6, <1>7, <1>8, <1>9, <1>10 DEF Scheduled, Context

\* schedule() is fine as long as it is not the worker itself that is picked
\* before any fiber has run.
LEMMA ScheduleLemma ==
    ASSUME NEW w, w \in WorkerType, QueuesMatchStates(w), ~w.failed,
           w.current \in Fiber => w.state[w.current] # "Ready" /\ w.state[w.current] # "New",
           NEW timeUp \in BOOLEAN, NEW v, v = schedule(w, timeUp)
    PROVE  /\ v \in WorkerType
           /\ ~v.failed => Scheduled(w, v)
           /\ CanSwitch(w, timeUp) => ~v.failed
  <1>1. CASE timeUp
    <2>1. v = run(w, workerFiber)
      BY <1>1 DEF schedule
    <2>2. CASE w.current # workerFiber
      <3>1. workerFiber \in Context /\ workerFiber \notin Fiber
        BY WorkerAssumption DEF Context
      <3>2. Scheduled(w, v) /\ ~v.failed
        BY <3>1, <2>1, <2>2, RunLemma
      <3> QED
        BY <3>2 DEF Scheduled
    <2>3. CASE w.current = workerFiber /\ w.state[workerFiber] = "Running"
      <3>1. v = w
        BY <2>1, <2>3 DEF run
      <3> QED
        BY <3>1, <2>3, WorkerAssumption DEF Scheduled, CurrentRuns
    <2>4. CASE w.current = workerFiber /\ w.state[workerFiber] = "Ready"
      <3>1. v = [w EXCEPT !.failed = TRUE]
        BY <2>1, <2>4 DEF run
      <3>2. v \in WorkerType /\ v.failed
        BY <3>1, Zenon DEF WorkerType
      <3>3. ~CanSwitch(w, timeUp)
        BY <1>1, <2>4, WorkerAssumption DEF CanSwitch
      <3> QED
        BY <3>2, <3>3
    <2> QED
      BY <2>2, <2>3, <2>4 DEF QueuesMatchStates
  <1>2. CASE ~timeUp
    <2> DEFINE c == cleanup(w)
               r == IF c.runnable = <<>> THEN c
                    ELSE [c EXCEPT !.runnable = rotateAfter(@, front(@))]
               f == NextFiber(c)
    <2>1. v = run(r, f)
      BY <1>2 DEF schedule
    <2>2. /\ c \in WorkerType /\ QueuesMatchStates(c)
          /\ c.suspended = w.suspended /\ c.current = w.current /\ c.failed = w.failed
          /\ Elems(c.runnable) \subseteq Elems(w.runnable)
          /\ \A g \in Fiber : c.state[g] # w.state[g] =>
                 /\ g \in Elems(w.runnable) /\ g # w.current
                 /\ w.state[g] = "Dead" /\ c.state[g] = "Uninitialized"
          /\ c.state[workerFiber] = w.state[workerFiber]
          /\ c.runnable # <<>> =>
                 c.state[front(c.runnable)] # "Dead" \/ front(c.runnable) = w.current
          /\ \A g \in Elems(w.runnable) : w.state[g] # "Dead" => c.runnable # <<>>
      BY CleanupLemma
    <2> HIDE DEF c
    <2>3. /\ r \in WorkerType /\ QueuesMatchStates(r)
          /\ r.suspended = c.suspended /\ r.current = c.current /\ r.failed = c.failed
          /\ r.state = c.state /\ Elems(r.runnable) = Elems(c.runnable)
      <3>1. CASE c.runnable = <<>>
        BY <3>1, <2>2
      <3>2. CASE c.runnable # <<>>
        <4>1. c.runnable \in Seq(Fiber) /\ Distinct(c.runnable)
          BY <2>2 DEF WorkerType, QueuesMatchStates
        <4>2. front(c.runnable) \in Elems(c.runnable)
          BY <4>1, <3>2, PopFront, Zenon
        <4>3. /\ rotateAfter(c.runnable, front(c.runnable)) \in Seq(Fiber)
              /\ Distinct(rotateAfter(c.runnable, front(c.runnable)))
              /\ Elems(rotateAfter(c.runnable, front(c.runnable))) = Elems(c.runnable)
          BY <4>1, <4>2, Rotate
        <4>4. r = [c EXCEPT !.runnable = rotateAfter(c.runnable, front(c.runnable))]
          BY <3>2
        <4> HIDE DEF r
        <4>5. /\ r \in WorkerType
              /\ r.suspended = c.suspended /\ r.current = c.current /\ r.failed = c.failed
              /\ r.state = c.state /\ r.stateNext = c.stateNext
              /\ r.runnable = rotateAfter(c.runnable, front(c.runnable))
          BY <2>2, <4>3, <4>4 DEF WorkerType
        <4> QED
          BY <2>2, <4>3, <4>5 DEF QueuesMatchStates
      <3> QED
        BY <3>1, <3>2
    <2>4. /\ f \in Context
          /\ f \in Fiber => f \in Elems(r.runnable) /\ r.state[f] # "Dead"
      <3>1. CASE f = workerFiber
        BY <3>1, WorkerAssumption DEF Context
      <3>2. CASE f # workerFiber
        <4>1. f = front(c.runnable) /\ c.runnable # <<>> /\ c.state[f] # "Dead"
          BY <3>2 DEF NextFiber
        <4> HIDE DEF f, r
        <4>2. c.runnable \in Seq(Fiber) /\ Distinct(c.runnable)
          BY <2>2 DEF WorkerType, QueuesMatchStates
        <4>3. f \in Elems(c.runnable) /\ f \in Fiber
          BY <4>1, <4>2, PopFront, ListDomain, Zenon
        <4> QED
          BY <4>1, <4>3, <2>3 DEF Context
      <3> QED
        BY <3>1, <3>2
    <2> HIDE DEF r, f
    <2>5. CASE f # r.current
      <3>1. Scheduled(r, v) /\ ~v.failed
        BY <2>1, <2>2, <2>3, <2>4, <2>5, RunLemma
      <3> QED
        BY <3>1, <2>2, <2>3 DEF Scheduled
    <2>6. CASE f = r.current /\ r.state[f] = "Running"
      <3>1. v = r
        BY <2>1, <2>6 DEF run
      <3> QED
        BY <3>1, <2>2, <2>3, <2>4, <2>6 DEF Scheduled, CurrentRuns, Context
    <2>7. CASE f = r.current /\ r.state[f] # "Running"
      <3>1. f = workerFiber
        <4>1. ASSUME f \in Fiber PROVE FALSE
          <5>1. w.current = f /\ r.state[f] = w.state[f]
            BY <4>1, <2>2, <2>3, <2>7
          <5>2. r.state[f] = "Dead"
            BY <4>1, <5>1, <2>3, <2>4, <2>7 DEF QueuesMatchStates
          <5> QED
            BY <4>1, <5>2, <2>4
        <4> QED
          BY <4>1, <2>4 DEF Context
      <3>2. r.state[f] = "Ready" /\ w.state[workerFiber] = "Ready" /\ w.current = workerFiber
        BY <3>1, <2>2, <2>3, <2>7 DEF QueuesMatchStates
      <3>3. v = [r EXCEPT !.failed = TRUE]
        BY <3>2, <2>1, <2>7 DEF run
      <3>4. v \in WorkerType /\ v.failed
        BY <3>3, <2>3, Zenon DEF WorkerType
      <3>5. \A g \in Elems(w.runnable) : w.state[g] = "Dead"
        <4>0. c.runnable \in Seq(Fiber) /\ Distinct(c.runnable)
          BY <2>2 DEF WorkerType, QueuesMatchStates
        <4>1. c.runnable # <<>> => front(c.runnable) \in Fiber
          BY <4>0, PopFront, ListDomain, Zenon
        <4>2. c.runnable = <<>> \/ c.state[front(c.runnable)] = "Dead"
          BY <4>1, <3>1, WorkerAssumption DEF f, NextFiber
        <4>3. c.runnable = <<>>
          BY <4>1, <4>2, <2>2, <3>2, WorkerAssumption
        <4> QED
          BY <4>3, <2>2, Zenon
      <3>6. ~CanSwitch(w, timeUp)
        BY <3>2, <3>5, WorkerAssumption DEF CanSwitch
      <3> QED
        BY <3>4, <3>6
    <2> QED
      BY <2>5, <2>6, <2>7
  <1> QED
    BY <1>1, <1>2

\* release() and nap() of the current fiber, before it calls schedule().
LEMMA NapLemma ==
    ASSUME NEW w, w \in WorkerType, QueuesMatchStates(w), CurrentRuns(w),
           NEW f \in Fiber, f = w.current,
           NEW v, v = nap(release(w, f), f) \/ v = release(nap(w, f), f)
    PROVE  /\ v \in WorkerType /\ QueuesMatchStates(v)
           /\ v.failed = w.failed /\ v.current = w.current /\ v.suspended = w.suspended
           /\ Elems(v.runnable) = Elems(w.runnable) \ {f}
           /\ v.state = [w.state EXCEPT ![f] = "Waiting"]
  <1> DEFINE q == erase(w.runnable, f)
  <1>1. w.state[f] = "Running" /\ f \in Elems(w.runnable)
    BY DEF CurrentRuns, QueuesMatchStates
  <1>2. q \in Seq(Fiber) /\ Distinct(q) /\ Elems(q) = Elems(w.runnable) \ {f}
    BY <1>1, Erase DEF WorkerType, QueuesMatchStates
  <1> HIDE DEF q
  <1>3. v = [w EXCEPT !.runnable = q, !.state = [w.state EXCEPT ![f] = "Waiting"],
                      !.stateNext = [w.stateNext EXCEPT ![f] = "Ready"]]
    BY <1>1, Zenon DEF nap, release, Become, WorkerType, Context, q
  <1>4. v \in WorkerType
    BY <1>2, <1>3, Zenon DEF WorkerType, State
  <1>5. /\ v.runnable = q /\ v.state = [w.state EXCEPT ![f] = "Waiting"]
        /\ v.stateNext = [w.stateNext EXCEPT ![f] = "Ready"]
        /\ v.failed = w.failed /\ v.current = w.current /\ v.suspended = w.suspended
    BY <1>3 DEF WorkerType
  <1>6. QueuesMatchStates(v)
    BY <1>1, <1>2, <1>5, WorkerAssumption DEF QueuesMatchStates, WorkerType, Context
  <1> QED
    BY <1>2, <1>4, <1>5, <1>6

\* Fiber::wakeup() and add() of a fiber that waits, or that was killed then.
LEMMA WakeLemma ==
    ASSUME NEW w, w \in WorkerType, QueuesMatchStates(w),
           NEW f \in Fiber, w.state[f] \in {"Waiting", "Dead"},
           f \notin Elems(w.runnable), f \notin Elems(w.suspended),
           NEW v, v = add(wakeup(w, f), f) \/ v = addFront(wakeup(w, f), f)
    PROVE  /\ v \in WorkerType /\ QueuesMatchStates(v)
           /\ v.failed = w.failed /\ v.current = w.current /\ v.suspended = w.suspended
           /\ Elems(v.runnable) = Elems(w.runnable) \cup {f}
           /\ w.state[f] = "Waiting" => v.state[f] = "Ready"
           /\ w.state[f] = "Dead" => v.state[f] = "Dead"
           /\ \A g \in Context : g # f => v.state[g] = w.state[g]
  <1>0. PICK q : /\ v = AddTo(wakeup(w, f), f, q)
                 /\ q = push_back(w.runnable, f) \/ q = push_front(w.runnable, f)
    BY DEF add, addFront, wakeup, Become, WorkerType
  <1> DEFINE st == [w.state EXCEPT ![f] = IF @ = "Waiting" THEN "Ready" ELSE @]
  <1>1. q \in Seq(Fiber) /\ Distinct(q) /\ Elems(q) = Elems(w.runnable) \cup {f}
    <2>1. w.runnable \in Seq(Fiber) /\ Distinct(w.runnable)
      BY DEF WorkerType, QueuesMatchStates
    <2>2. CASE q = push_back(w.runnable, f)
      BY <2>1, <2>2, PushBack
    <2>3. CASE q = push_front(w.runnable, f)
      BY <2>1, <2>3, PushFront
    <2> QED
      BY <1>0, <2>2, <2>3
  <1>2. w.state[f] = "Waiting" => w.stateNext[f] = "Ready"
    BY DEF QueuesMatchStates
  <1>3. v = [w EXCEPT !.runnable = q, !.state = st]
    <2>1. CASE w.state[f] = "Waiting"
      <3>1. st = [w.state EXCEPT ![f] = "Ready"]
        BY <2>1 DEF WorkerType, Context
      <3> HIDE DEF st
      <3>2. wakeup(w, f) = [w EXCEPT !.state = st]
        <4>1. wakeup(w, f) = Become(w, f, "Ready", "Ready")
          BY <1>2, <2>1 DEF wakeup
        <4>2. [w.stateNext EXCEPT ![f] = "Ready"] = w.stateNext
          BY <1>2, <2>1 DEF WorkerType, Context
        <4> QED
          BY <4>1, <4>2, <3>1, Zenon DEF Become, WorkerType
      <3>3. st[f] = "Ready"
        BY <3>1 DEF WorkerType, Context
      <3> QED
        BY <1>0, <3>2, <3>3, <1>2, Zenon DEF AddTo, WorkerType
    <2>2. CASE w.state[f] = "Dead"
      <3>1. wakeup(w, f) = w
        BY <2>2 DEF wakeup
      <3> QED
        BY <1>0, <3>1, <2>2, Zenon DEF AddTo, WorkerType, Context
    <2> QED
      BY <2>1, <2>2
  <1>4. st \in [Context -> State]
    BY Zenon DEF WorkerType, State
  <1> HIDE DEF st
  <1>5. v \in WorkerType
    BY <1>1, <1>3, <1>4, Zenon DEF WorkerType
  <1>6. /\ v.runnable = q /\ v.state = st /\ v.stateNext = w.stateNext
        /\ v.failed = w.failed /\ v.current = w.current /\ v.suspended = w.suspended
    BY <1>3 DEF WorkerType
  <1>7. QueuesMatchStates(v)
    BY <1>1, <1>2, <1>6, WorkerAssumption DEF QueuesMatchStates, WorkerType, Context, st
  <1>8. /\ w.state[f] = "Waiting" => st[f] = "Ready"
        /\ w.state[f] = "Dead" => st[f] = "Dead"
        /\ \A g \in Context : g # f => st[g] = w.state[g]
    BY DEF WorkerType, Context, st
  <1> QED
    BY <1>1, <1>5, <1>6, <1>7, <1>8

\* Fiber::kill() changes no queue.
LEMMA KillLemma ==
    ASSUME NEW w, w \in WorkerType, QueuesMatchStates(w), NEW f \in Fiber,
           NEW v, v = kill(w, f)
    PROVE  /\ v \in WorkerType /\ QueuesMatchStates(v)
           /\ v.failed = w.failed /\ v.current = w.current /\ v.suspended = w.suspended
           /\ v.runnable = w.runnable
           /\ v.state = [w.state EXCEPT ![f] = "Dead"]
  <1>1. v = [w EXCEPT !.state = [w.state EXCEPT ![f] = "Dead"]]
    BY DEF kill, WorkerType
  <1>2. v \in WorkerType
    <2>1. [w.state EXCEPT ![f] = "Dead"] \in [Context -> State]
      BY Zenon DEF WorkerType, State
    <2> QED
      BY <1>1, <2>1, Zenon DEF WorkerType
  <1>3. /\ v.runnable = w.runnable /\ v.state = [w.state EXCEPT ![f] = "Dead"]
        /\ v.stateNext = w.stateNext
        /\ v.failed = w.failed /\ v.current = w.current /\ v.suspended = w.suspended
    BY <1>1 DEF WorkerType
  <1>4. QueuesMatchStates(v)
    BY <1>3, WorkerAssumption DEF QueuesMatchStates, WorkerType, Context
  <1> QED
    BY <1>2, <1>3, <1>4

-----------------------------------------------------------------------------
(* What the waiter needs: the order of the queue, and the operations on other
   fibers. *)

\* rotate() makes the given element the last one.
LEMMA RotateLast ==
    ASSUME NEW S, NEW q \in Seq(S), NEW e \in Elems(q)
    PROVE  Len(rotateAfter(q, e)) = Len(q) /\ Len(q) > 0 /\ rotateAfter(q, e)[Len(q)] = e
  <1> DEFINE n == Len(q)
             x == Position(q, e)
             r == rotateAfter(q, e)
  <1>1. n \in Nat /\ x \in 1 .. n /\ q[x] = e /\ \A i \in 1 .. n : q[i] \in S
    BY ListDomain, PositionLemma
  <1>2. r = [i \in 1 .. n |-> IF i + x <= n THEN q[i + x] ELSE q[i + x - n]]
    BY DEF rotateAfter
  <1> HIDE DEF n, x, r
  <1>3. r \in [1 .. n -> S]
    BY <1>1, <1>2, SMT
  <1>4. Len(r) = n
    BY <1>1, <1>3, SeqFromFunction
  <1>5. r[n] = e /\ n > 0
    BY <1>1, <1>2, SMT
  <1> QED BY <1>4, <1>5 DEF n, r

\* push_front() leaves the last element.
LEMMA PushFrontLast ==
    ASSUME NEW S, NEW q \in Seq(S), q # <<>>, NEW e \in S
    PROVE  push_front(q, e)[Len(push_front(q, e))] = q[Len(q)]
  <1> DEFINE n == Len(q)
             r == push_front(q, e)
  <1>1. n \in Nat /\ n # 0 /\ \A i \in 1 .. n : q[i] \in S
    BY ListDomain
  <1>2. r = [i \in 1 .. n + 1 |-> IF i = 1 THEN e ELSE q[i - 1]]
    BY DEF push_front
  <1> HIDE DEF n, r
  <1>3. r \in [1 .. n + 1 -> S]
    BY <1>1, <1>2, SMT
  <1>4. Len(r) = n + 1
    BY <1>1, <1>3, SeqFromFunction
  <1>5. r[n + 1] = q[n]
    BY <1>1, <1>2, SMT
  <1> QED BY <1>4, <1>5 DEF n, r

\* A list without repetition that starts and ends with the same element has no other.
LEMMA FirstIsLast ==
    ASSUME NEW S, NEW q \in Seq(S), q # <<>>, Distinct(q), front(q) = q[Len(q)]
    PROVE  q = <<front(q)>>
  <1>1. Len(q) \in Nat /\ Len(q) # 0 /\ DOMAIN q = 1 .. Len(q)
    BY ListDomain
  <1>2. Len(q) = 1
    BY <1>1 DEF front, Distinct
  <1> QED BY <1>1, <1>2 DEF front

\* resume() of a suspended fiber moves it to the run queue.
LEMMA ResumeLemma ==
    ASSUME NEW w, w \in WorkerType, QueuesMatchStates(w), NEW f \in Fiber,
           w.state[f] = "Suspended", NEW v, v = resume(w, f)
    PROVE  /\ v \in WorkerType /\ QueuesMatchStates(v)
           /\ v.failed = w.failed /\ v.current = w.current
           /\ Elems(v.runnable) = Elems(w.runnable) \cup {f}
           /\ Elems(v.suspended) = Elems(w.suspended) \ {f}
           /\ v.state[f] \in {"New", "Ready"}
           /\ \A g \in Context : g # f => v.state[g] = w.state[g]
  <1> DEFINE x == w.stateNext[f]
             st == [w.state EXCEPT ![f] = x]
             nx == [w.stateNext EXCEPT ![f] = "Ready"]
             s == erase(w.suspended, f)
             q == push_back(w.runnable, f)
  <1>1. /\ w.runnable \in Seq(Fiber) /\ Distinct(w.runnable) /\ f \notin Elems(w.runnable)
        /\ w.suspended \in Seq(Fiber) /\ Distinct(w.suspended) /\ f \in Elems(w.suspended)
        /\ x \in {"New", "Ready"} /\ f \in Context
    BY DEF QueuesMatchStates, WorkerType, Context
  <1>2. /\ s \in Seq(Fiber) /\ Distinct(s) /\ Elems(s) = Elems(w.suspended) \ {f}
    BY <1>1, Erase
  <1>3. q \in Seq(Fiber) /\ Distinct(q) /\ Elems(q) = Elems(w.runnable) \cup {f}
    BY <1>1, PushBack
  <1>4. st \in [Context -> State] /\ nx \in [Context -> State]
    BY <1>1 DEF WorkerType, State
  <1>5. st[f] = x /\ nx[f] = "Ready"
        /\ \A g \in Context : g # f => st[g] = w.state[g] /\ nx[g] = w.stateNext[g]
    BY <1>1 DEF WorkerType
  <1>6. v = [w EXCEPT !.suspended = s, !.runnable = q, !.state = st, !.stateNext = nx]
    <2> DEFINE a == release(w, f)
               b == fiberResume(a, f)
    <2>1. a = [w EXCEPT !.suspended = s]
      BY DEF release, WorkerType
    <2> HIDE DEF s
    <2>2. /\ a.state = w.state /\ a.stateNext = w.stateNext /\ a.runnable = w.runnable
          /\ a.suspended = s
      BY <2>1 DEF WorkerType
    <2>3. b = [a EXCEPT !.state = st, !.stateNext = nx]
      BY <1>1, <2>1, <2>2, Zenon DEF fiberResume, Become, WorkerType
    <2> HIDE DEF st, nx
    <2>4. b = [w EXCEPT !.suspended = s, !.state = st, !.stateNext = nx]
      BY <2>1, <2>3 DEF WorkerType
    <2>5. b.state = st /\ b.runnable = w.runnable
      BY <2>4 DEF WorkerType
    <2>6. v = add(b, f)
      BY DEF resume
    <2> HIDE DEF b
    <2>7. v = [b EXCEPT !.runnable = q]
      BY <1>1, <1>5, <2>5, <2>6 DEF add, AddTo
    <2> HIDE DEF q
    <2> QED BY <2>4, <2>7, Zenon DEF WorkerType
  <1> HIDE DEF s, q, st, nx
  <1>7. v \in WorkerType
    BY <1>2, <1>3, <1>4, <1>6, Zenon DEF WorkerType
  <1>8. /\ v.runnable = q /\ v.suspended = s /\ v.state = st /\ v.stateNext = nx
        /\ v.failed = w.failed /\ v.current = w.current
    BY <1>6 DEF WorkerType
  <1>9. QueuesMatchStates(v)
    BY <1>1, <1>2, <1>3, <1>5, <1>8, WorkerAssumption DEF QueuesMatchStates, Context
  <1> QED BY <1>1, <1>2, <1>3, <1>5, <1>7, <1>8, <1>9

\* suspend() of a fiber moves it to the other queue, before it gives way.
LEMMA SuspendLemma ==
    ASSUME NEW w, w \in WorkerType, QueuesMatchStates(w),
           NEW f \in Fiber, w.state[f] \in {"New", "Ready", "Running"},
           NEW v, v = add(fiberSuspend(release(w, f), f), f)
    PROVE  /\ v \in WorkerType /\ QueuesMatchStates(v)
           /\ v.failed = w.failed /\ v.current = w.current
           /\ Elems(v.runnable) = Elems(w.runnable) \ {f}
           /\ Elems(v.suspended) = Elems(w.suspended) \cup {f}
           /\ v.state[f] = "Suspended"
           /\ \A g \in Context : g # f => v.state[g] = w.state[g]
  <1> DEFINE x == IF w.state[f] = "New" THEN "New" ELSE "Ready"
             st == [w.state EXCEPT ![f] = "Suspended"]
             nx == [w.stateNext EXCEPT ![f] = x]
             q == erase(w.runnable, f)
             s == push_back(w.suspended, f)
  <1>1. /\ w.runnable \in Seq(Fiber) /\ Distinct(w.runnable) /\ f \in Elems(w.runnable)
        /\ w.suspended \in Seq(Fiber) /\ Distinct(w.suspended) /\ f \notin Elems(w.suspended)
        /\ f \in Context
    BY DEF QueuesMatchStates, WorkerType, Context
  <1>2. s \in Seq(Fiber) /\ Distinct(s) /\ Elems(s) = Elems(w.suspended) \cup {f}
    BY <1>1, PushBack
  <1>3. q \in Seq(Fiber) /\ Distinct(q) /\ Elems(q) = Elems(w.runnable) \ {f}
    BY <1>1, Erase
  <1>4. st \in [Context -> State] /\ nx \in [Context -> State]
    BY <1>1 DEF WorkerType, State
  <1>5. st[f] = "Suspended" /\ nx[f] = x
        /\ \A g \in Context : g # f => st[g] = w.state[g] /\ nx[g] = w.stateNext[g]
    BY <1>1 DEF WorkerType
  <1>6. v = [w EXCEPT !.suspended = s, !.runnable = q, !.state = st, !.stateNext = nx]
    <2> DEFINE a == release(w, f)
               b == fiberSuspend(a, f)
    <2>1. a = [w EXCEPT !.runnable = q]
      BY DEF release, WorkerType
    <2> HIDE DEF q
    <2>2. /\ a.state = w.state /\ a.stateNext = w.stateNext /\ a.suspended = w.suspended
      BY <2>1 DEF WorkerType
    <2>3. b = [a EXCEPT !.state = st, !.stateNext = nx]
      BY <1>1, <2>1, <2>2, Zenon DEF fiberSuspend, Become, WorkerType
    <2> HIDE DEF st, nx
    <2>4. b = [w EXCEPT !.runnable = q, !.state = st, !.stateNext = nx]
      BY <2>1, <2>3 DEF WorkerType
    <2>5. b.state = st /\ b.suspended = w.suspended
      BY <2>4 DEF WorkerType
    <2>6. v = add(b, f)
      OBVIOUS
    <2> HIDE DEF b
    <2>7. v = [b EXCEPT !.suspended = s]
      BY <1>5, <2>5, <2>6, Zenon DEF add, AddTo
    <2> HIDE DEF s
    <2> QED BY <2>4, <2>7, Zenon DEF WorkerType
  <1> HIDE DEF s, q, st, nx
  <1>7. v \in WorkerType
    BY <1>2, <1>3, <1>4, <1>6, Zenon DEF WorkerType
  <1>8. /\ v.runnable = q /\ v.suspended = s /\ v.state = st /\ v.stateNext = nx
        /\ v.failed = w.failed /\ v.current = w.current
    BY <1>6 DEF WorkerType
  <1>9. QueuesMatchStates(v)
    <2>1. x \in {"New", "Ready"}
      OBVIOUS
    <2> HIDE DEF x
    <2>2. ASSUME NEW g \in Fiber, g # f
          PROVE  /\ v.state[g] = w.state[g] /\ v.stateNext[g] = w.stateNext[g]
                 /\ g \in Elems(v.runnable) <=> g \in Elems(w.runnable)
                 /\ g \in Elems(v.suspended) <=> g \in Elems(w.suspended)
      BY <2>2, <1>2, <1>3, <1>5, <1>8 DEF Context
    <2>3. v.state[workerFiber] = w.state[workerFiber]
      BY <1>5, <1>8, WorkerAssumption DEF Context
    <2> QED
      BY <2>1, <2>2, <2>3, <1>2, <1>3, <1>5, <1>8 DEF QueuesMatchStates
  <1> QED BY <1>2, <1>3, <1>5, <1>7, <1>8, <1>9

\* A new fiber is added at the end of the run queue.
LEMMA HatchLemma ==
    ASSUME NEW w, w \in WorkerType, QueuesMatchStates(w),
           NEW f \in Fiber, w.state[f] = "Uninitialized",
           NEW v, v = hatch(w, f)
    PROVE  /\ v \in WorkerType /\ QueuesMatchStates(v)
           /\ v.failed = w.failed /\ v.current = w.current /\ v.suspended = w.suspended
           /\ Elems(v.runnable) = Elems(w.runnable) \cup {f}
           /\ v.state[f] = "New"
           /\ \A g \in Context : g # f => v.state[g] = w.state[g]
  <1> DEFINE st == [w.state EXCEPT ![f] = "New"]
             nx == [w.stateNext EXCEPT ![f] = "Ready"]
             q == push_back(w.runnable, f)
  <1>1. /\ w.runnable \in Seq(Fiber) /\ Distinct(w.runnable) /\ f \notin Elems(w.runnable)
        /\ f \notin Elems(w.suspended) /\ f \in Context
    BY DEF QueuesMatchStates, WorkerType, Context
  <1>2. q \in Seq(Fiber) /\ Distinct(q) /\ Elems(q) = Elems(w.runnable) \cup {f}
    BY <1>1, PushBack
  <1>3. st \in [Context -> State] /\ nx \in [Context -> State]
    BY <1>1 DEF WorkerType, State
  <1>4. st[f] = "New" /\ nx[f] = "Ready"
        /\ \A g \in Context : g # f => st[g] = w.state[g] /\ nx[g] = w.stateNext[g]
    BY <1>1 DEF WorkerType
  <1>5. v = [w EXCEPT !.runnable = q, !.state = st, !.stateNext = nx]
    <2> DEFINE b == Become(w, f, "New", "Ready")
    <2>1. b = [w EXCEPT !.state = st, !.stateNext = nx]
      BY DEF Become, WorkerType
    <2> HIDE DEF st, nx
    <2>2. b.state = st /\ b.runnable = w.runnable
      BY <2>1, Zenon DEF WorkerType
    <2>3. v = add(b, f)
      BY DEF hatch
    <2> HIDE DEF b
    <2>4. v = [b EXCEPT !.runnable = q]
      BY <1>4, <2>2, <2>3 DEF add, AddTo
    <2> HIDE DEF q
    <2> QED BY <2>1, <2>4, Zenon DEF WorkerType
  <1> HIDE DEF q, st, nx
  <1>6. v \in WorkerType
    BY <1>2, <1>3, <1>5, Zenon DEF WorkerType
  <1>7. /\ v.runnable = q /\ v.suspended = w.suspended /\ v.state = st /\ v.stateNext = nx
        /\ v.failed = w.failed /\ v.current = w.current
    BY <1>5 DEF WorkerType
  <1>8. QueuesMatchStates(v)
    BY <1>1, <1>2, <1>4, <1>7, WorkerAssumption DEF QueuesMatchStates, Context
  <1> QED BY <1>2, <1>4, <1>6, <1>7, <1>8

\* yieldTo(): schedule(&g) switches to a fiber that can run, or ends Worker::run().
LEMMA ScheduleToLemma ==
    ASSUME NEW w, w \in WorkerType, QueuesMatchStates(w), ~w.failed,
           w.current \in Fiber, CurrentRuns(w),
           NEW g \in Elems(w.runnable), w.state[g] # "Dead",
           NEW timeUp \in BOOLEAN, NEW v, v = scheduleTo(w, g, timeUp)
    PROVE  Scheduled(w, v) /\ ~v.failed /\ v.current \in {g, workerFiber}
  <1>1. CASE timeUp
    <2>1. v = run(w, workerFiber)
      BY <1>1 DEF scheduleTo
    <2>2. workerFiber \in Context /\ workerFiber \notin Fiber
      BY WorkerAssumption DEF Context
    <2> QED
      BY <2>1, <2>2, RunLemma
  <1>2. CASE ~timeUp
    <2> DEFINE q == rotateAfter(w.runnable, g)
               r == [w EXCEPT !.runnable = q]
    <2>1. v = run(r, g)
      BY <1>2 DEF scheduleTo, WorkerType
    <2>2. w.runnable \in Seq(Fiber) /\ Distinct(w.runnable) /\ g \in Fiber /\ g \in Context
      BY ListDomain DEF WorkerType, QueuesMatchStates, Context
    <2>3. q \in Seq(Fiber) /\ Distinct(q) /\ Elems(q) = Elems(w.runnable)
      BY <2>2, Rotate
    <2> HIDE DEF q
    <2>4. /\ r \in WorkerType
          /\ r.suspended = w.suspended /\ r.current = w.current /\ r.failed = w.failed
          /\ r.state = w.state /\ r.stateNext = w.stateNext /\ r.runnable = q
      BY <2>3, Zenon DEF WorkerType
    <2> HIDE DEF r
    <2>5. QueuesMatchStates(r) /\ CurrentRuns(r)
      BY <2>3, <2>4 DEF QueuesMatchStates, CurrentRuns
    <2>6. CASE g = w.current
      <3>1. v = r
        BY <2>1, <2>4, <2>6 DEF run, CurrentRuns
      <3> QED
        BY <3>1, <2>3, <2>4, <2>5, <2>6 DEF Scheduled
    <2>7. CASE g # w.current
      <3>1. Scheduled(r, v) /\ ~v.failed /\ v.current = g
        BY <2>1, <2>2, <2>3, <2>4, <2>5, <2>7, RunLemma
      <3> QED
        BY <3>1, <2>3, <2>4 DEF Scheduled
    <2> QED
      BY <2>6, <2>7
  <1> QED
    BY <1>1, <1>2

\* schedule() leaves the fiber that it switches to at the end of the queue; and
\* when it returns to the caller without any clean up, that one was the first.
LEMMA ScheduleOrder ==
    ASSUME NEW w, w \in WorkerType, QueuesMatchStates(w),
           NEW timeUp \in BOOLEAN, NEW v, v = schedule(w, timeUp),
           ~v.failed, v.current \in Fiber
    PROVE  /\ ~timeUp /\ v.runnable # <<>> /\ v.runnable[Len(v.runnable)] = v.current
           /\ Reaped(w) = {} /\ v.current = w.current =>
                 w.runnable # <<>> /\ front(w.runnable) = w.current
  <1>1. ASSUME timeUp PROVE FALSE
    <2>1. v = run(w, workerFiber)
      BY <1>1 DEF schedule
    <2>2. v.current = workerFiber \/ v.failed
      BY <2>1 DEF run, WorkerType
    <2> QED
      BY <2>2, WorkerAssumption
  <1> DEFINE c == cleanup(w)
             r == IF c.runnable = <<>> THEN c
                  ELSE [c EXCEPT !.runnable = rotateAfter(@, front(@))]
             f == NextFiber(c)
  <1>2. v = run(r, f)
    BY <1>1 DEF schedule
  <1>3. c \in WorkerType /\ QueuesMatchStates(c) /\ c.current = w.current
    BY CleanupLemma
  <1>4. c.runnable = From(w.runnable, FirstStaying(w))
    BY DEF cleanup, WorkerType
  <1> HIDE DEF c
  <1>5. v.current = f /\ v.runnable = r.runnable
    <2>1. r \in WorkerType
      <3>1. c.runnable # <<>> => front(c.runnable) \in Elems(c.runnable)
        BY <1>3, PopFront, Zenon DEF WorkerType, QueuesMatchStates
      <3>2. c.runnable # <<>> => rotateAfter(c.runnable, front(c.runnable)) \in Seq(Fiber)
        BY <1>3, <3>1, Rotate DEF WorkerType
      <3> QED
        BY <1>3, <3>2, Zenon DEF WorkerType
    <2> HIDE DEF r, f
    <2> QED
      BY <1>2, <2>1 DEF run, WorkerType
  <1>6. c.runnable # <<>> /\ f = front(c.runnable)
    BY <1>5, WorkerAssumption DEF NextFiber
  <1>7. r.runnable = rotateAfter(c.runnable, f)
    BY <1>3, <1>6 DEF WorkerType
  <1>8. c.runnable \in Seq(Fiber) /\ f \in Elems(c.runnable)
    BY <1>3, <1>6, PopFront, ZenonT(30) DEF WorkerType, QueuesMatchStates
  <1> HIDE DEF r, f
  <1>9. v.runnable # <<>> /\ v.runnable[Len(v.runnable)] = v.current
    BY <1>5, <1>7, <1>8, RotateLast
  <1>10. ASSUME Reaped(w) = {}, v.current = w.current
         PROVE  w.runnable # <<>> /\ front(w.runnable) = w.current
    <2> DEFINE n == Len(w.runnable)
               k == FirstStaying(w)
    <2>1. n \in Nat /\ w.runnable \in Seq(Fiber) /\ k \in 1 .. n + 1
      BY FirstStayingLemma, ListDomain DEF WorkerType
    <2>2. \A i \in 1 .. k - 1 : w.runnable[i] \in Reaped(w)
      BY DEF Reaped
    <2>3. From(w.runnable, k) # <<>> => k <= n /\ front(From(w.runnable, k)) = w.runnable[k]
      BY <2>1, FromLemma
    <2> HIDE DEF k, n
    <2>4. k = 1
      <3>1. 1 \notin 1 .. k - 1
        BY <1>10, <2>2, Zenon
      <3> QED
        BY <2>1, <3>1
    <2>5. 1 <= n /\ w.runnable[1] = w.current
      BY <1>4, <1>5, <1>6, <1>10, <2>3, <2>4 DEF k
    <2> QED
      BY <2>1, <2>5 DEF front, n
  <1> QED
    BY <1>1, <1>9, <1>10

\* Fiber::wakeup() and add(front = true) put the fiber first in the run queue.
LEMMA WakeFirst ==
    ASSUME NEW w, w \in WorkerType, QueuesMatchStates(w),
           NEW f \in Fiber, w.state[f] \in {"Waiting", "Dead"}
    PROVE  addFront(wakeup(w, f), f).runnable = push_front(w.runnable, f)
  <1> DEFINE b == wakeup(w, f)
  <1>1. b \in WorkerType /\ b.state[f] \in {"Ready", "Dead"} /\ b.runnable = w.runnable
    <2>1. CASE w.state[f] = "Dead"
      BY <2>1 DEF wakeup
    <2>2. CASE w.state[f] = "Waiting"
      <3>1. w.stateNext[f] = "Ready" /\ f \in Context
        BY <2>2 DEF QueuesMatchStates, Context
      <3>2. b = Become(w, f, "Ready", "Ready")
        BY <2>2, <3>1 DEF wakeup
      <3>3. b = [w EXCEPT !.state = [w.state EXCEPT ![f] = "Ready"],
                          !.stateNext = [w.stateNext EXCEPT ![f] = "Ready"]]
        BY <3>2 DEF Become, WorkerType
      <3> HIDE DEF b
      <3>4. /\ [w.state EXCEPT ![f] = "Ready"] \in [Context -> State]
            /\ [w.stateNext EXCEPT ![f] = "Ready"] \in [Context -> State]
            /\ [w.state EXCEPT ![f] = "Ready"][f] = "Ready"
        BY <3>1 DEF WorkerType, State
      <3> QED
        BY <3>3, <3>4, Zenon DEF WorkerType
    <2> QED
      BY <2>1, <2>2
  <1> HIDE DEF b
  <1>2. addFront(b, f) = [b EXCEPT !.runnable = push_front(w.runnable, f)]
    BY <1>1 DEF addFront, AddTo
  <1>3. addFront(b, f).runnable = push_front(w.runnable, f)
    BY <1>1, <1>2 DEF WorkerType
  <1> QED
    BY <1>3 DEF b
=============================================================================
