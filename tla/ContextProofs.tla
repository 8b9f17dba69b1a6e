---------------------------- MODULE ContextProofs ----------------------------
(***************************************************************************)
(* Contexts are sound: their stacks, for stacks of any size and alignment  *)
(* and pages of any size, and their first frame, for any number of threads *)
(* and contexts.                                                           *)
(*                                                                         *)
(* StacksAreSound says nothing of the contexts that do not run.  StackInv  *)
(* adds the guard that every context sets when it goes on, also the one    *)
(* that it returns to from the stack of the user, and that nothing below   *)
(* the marks of a stack is written.  BootstrapsOnce needs, in FrameInv,    *)
(* what a thread relies on at every step of create(): while it may handle  *)
(* SIGUSR1, its altstack is the stack of the context that it creates.      *)
(***************************************************************************)
EXTENDS Context, TLAPS

-----------------------------------------------------------------------------
(* Stacks *)

\* Context, on its own.
StackSpec == ContextInit /\ [][ContextNext]_contextVars

\* Sizes are sizes, and every stack has room for the size and one mark.  A stack of
\* the user is too small to be guarded, or has room for the guard, wherever it starts.
\* No create() fails after the stack has been allocated.
Sizable ==
    /\ pageSize \in Nat \ {0} /\ Word \in Nat \ {0} /\ MINSIGSTKSZ \in Nat
    /\ Sizes \subseteq Nat /\ Bases \subseteq Nat /\ UserSizes \subseteq Nat
    /\ \A size \in Sizes : size + MINSIGSTKSZ >= 2 * Word
    /\ \A size \in UserSizes :
          size >= 2 * Word /\ (size < 2 * pageSize \/ size + 2 >= 3 * pageSize + 2 * Word)
    /\ "arch" \notin Failures
    /\ worker \notin Contexts /\ nullptr \notin Contexts /\ "user" \notin Contexts \cup {nullptr}

Guard == (Contexts \cup {nullptr, "user"}) \X Int

Region == [p : Nat, size : Nat]

ContextType ==
    [state : {"none", "ready", "entered", "dead"}, asked : Nat, stack : Region,
     usable : Region, low : Nat, guard : Guard, calls : Seq(Guard)]

StackTypeOK ==
    /\ build \in {"mman", "mpu", "none"}
    /\ ctx \in [Contexts \cup {worker} -> ContextType]
    /\ memory \subseteq Contexts
    /\ current \in Contexts \cup {worker}
    /\ user \in [p : Nat, size : Nat, low : Nat]
    /\ user.p \in Bases /\ user.size \in UserSizes

\* Nothing under the first mark of a stack is used.
LowRight(stack, low) ==
    low >= sizeptr(stack.p) + Word /\ low <= Top(stack)

\* Whether a guard is in the stack of the user, and where it may be.
GuardsUser(g) ==
    /\ g[1] = "user"
    /\ g[2] >= user.p /\ g[2] + pageSize <= UserTop

\* The guard of a context, and the one that stack_switch() returns to.
GuardRight(c) ==
    LET g == ctx[c].guard
        s == ctx[c].calls
    IN  \/ s = <<>> /\ (g[1] = c \/ (g = NoGuard /\ build # "mpu"))
        \/ s = <<NoGuard>> /\ g[1] = c
        \/ Len(s) = 1 /\ s[1][1] = c /\ GuardsUser(g)

\* What holds of every context that exists.
ContextRight(c) ==
    StackFits(c) /\ GuardRight(c) /\ LowRight(ctx[c].usable, ctx[c].low)

\* The inductive invariant.
StackInv ==
    /\ StackTypeOK
    /\ memory = {c \in Contexts : ctx[c].state # "none"}
    /\ \A c \in memory : ContextRight(c)
    /\ LowRight(user, user.low)
    /\ ctx[worker].state = "entered" /\ ctx[worker].guard = NoGuard
    /\ ctx[current].state = "entered" /\ mpu = ctx[current].guard
    /\ \A c \in Contexts \ memory : ctx[c].calls = <<>>

\* Rounding down gives a multiple.
LEMMA RoundDownLemma ==
  ASSUME NEW n \in Nat, NEW k \in Nat \ {0}
  PROVE  /\ RoundDown(n, k) \in Nat
         /\ RoundDown(n, k) <= n
         /\ n < RoundDown(n, k) + k
         /\ \E q \in Nat : RoundDown(n, k) = q * k
<1>1. PICK q \in Nat : q = n \div k
  OBVIOUS
<1>2. n \in Int /\ k \in Int /\ k > 0
  OBVIOUS
<1>3. (n \div k) * k <= n
  BY <1>2, SMT
<1>4. n < (n \div k) * k + k
  BY <1>2, SMT
<1>5. q * k \in Nat
  OBVIOUS
<1> QED BY <1>1, <1>3, <1>4, <1>5 DEF RoundDown

\* And so does rounding up.
LEMMA RoundUpLemma ==
  ASSUME NEW n \in Nat, NEW k \in Nat \ {0}
  PROVE  /\ RoundUp(n, k) \in Nat
         /\ RoundUp(n, k) >= n
         /\ RoundUp(n, k) < n + k
         /\ \E q \in Nat : RoundUp(n, k) = q * k
<1>1. PICK m \in Nat : m = n + k - 1
  OBVIOUS
<1>2. RoundUp(n, k) = RoundDown(m, k)
  BY <1>1 DEF RoundUp, RoundDown
<1>3. /\ RoundDown(m, k) \in Nat /\ RoundDown(m, k) <= m
      /\ m < RoundDown(m, k) + k
      /\ \E q \in Nat : RoundDown(m, k) = q * k
  BY RoundDownLemma, Zenon
<1>4. PICK d \in Nat : d = RoundUp(n, k)
  BY <1>2, <1>3
<1>5. d >= n /\ d < n + k
  BY <1>1, <1>2, <1>3, <1>4
<1> QED BY <1>2, <1>3, <1>4, <1>5

\* Between two multiples is a whole number of times.
LEMMA MultiplesLemma ==
  ASSUME NEW i \in Nat, NEW j \in Nat, NEW k \in Nat \ {0}, i * k < j * k + k
  PROVE  i * k <= j * k
<1>1. CASE i <= j
  BY <1>1
<1>2. CASE i >= j + 1
  <2>1. i * k >= (j + 1) * k
    BY <1>2
  <2> QED BY <2>1
<1> QED BY <1>1, <1>2

\* A multiple leaves no remainder.
LEMMA MultipleLemma ==
  ASSUME NEW i \in Nat, NEW k \in Nat \ {0}
  PROVE  (i * k) % k = 0
OBVIOUS

\* What initStack() allocates has room for a stack of the size asked for, with its
\* guards, wherever the allocator puts it (stackAlign()).
LEMMA AlignLemma ==
  ASSUME Sizable, build \in {"mman", "mpu", "none"}, NEW asked \in Nat, NEW base \in Nat
  PROVE  LET size == stackSize(asked)
             u    == stackAlign(base, size)
         IN  /\ size \in Nat /\ u \in Region
             /\ u.p % pageSize = 0 /\ u.size >= asked + MINSIGSTKSZ
             /\ u.p - (IF build = "none" THEN 0 ELSE pageSize) >= base
             /\ u.p + u.size + (IF build = "mman" THEN pageSize ELSE 0) <= base + size
<1> DEFINE size == stackSize(asked)
           u == stackAlign(base, size)
<1>0. pageSize \in Nat \ {0} /\ MINSIGSTKSZ \in Nat
  BY DEF Sizable
<1>1. PICK g \in 0 .. 2 : /\ g = GuardPages
                          /\ g = (IF build = "mman" THEN 2 ELSE IF build = "mpu" THEN 1 ELSE 0)
  BY DEF GuardPages
<1>2. PICK gp \in Nat : gp = g * pageSize
  BY <1>0
<1>3. gp = (IF build = "mman" THEN pageSize + pageSize ELSE IF build = "mpu" THEN pageSize ELSE 0)
  BY <1>0, <1>1, <1>2
<1>4. PICK calc \in Nat : calc = calcStackSize(asked) /\ calc = asked + MINSIGSTKSZ + gp
  BY <1>0, <1>1, <1>2 DEF calcStackSize
<1>5. PICK i \in Nat : RoundUp(calc, pageSize) = i * pageSize /\ i * pageSize >= calc /\ i * pageSize \in Nat
  <2>1. RoundUp(calc, pageSize) \in Nat /\ RoundUp(calc, pageSize) >= calc
    BY <1>0, RoundUpLemma
  <2>2. \E i \in Nat : RoundUp(calc, pageSize) = i * pageSize
    BY <1>0, RoundUpLemma, Zenon
  <2> QED BY <2>1, <2>2
<1>6. size = i * pageSize + pageSize
  BY <1>4, <1>5 DEF stackSize
<1>7. PICK j \in Nat : /\ RoundUp(base, pageSize) = j * pageSize /\ j * pageSize \in Nat
                       /\ j * pageSize >= base /\ j * pageSize < base + pageSize
  <2>1. /\ RoundUp(base, pageSize) \in Nat /\ RoundUp(base, pageSize) >= base
        /\ RoundUp(base, pageSize) < base + pageSize
    BY <1>0, RoundUpLemma
  <2>2. \E j \in Nat : RoundUp(base, pageSize) = j * pageSize
    BY <1>0, RoundUpLemma, Zenon
  <2> QED BY <2>1, <2>2
<1>8. PICK rest \in Nat : rest = size - (RoundUp(base, pageSize) - base) /\ rest > i * pageSize
  BY <1>0, <1>5, <1>6, <1>7
<1>9. PICK l \in Nat : /\ RoundDown(rest, pageSize) = l * pageSize /\ l * pageSize \in Nat
                       /\ l * pageSize <= rest /\ rest < l * pageSize + pageSize
  <2>1. /\ RoundDown(rest, pageSize) \in Nat /\ RoundDown(rest, pageSize) <= rest
        /\ rest < RoundDown(rest, pageSize) + pageSize
    BY <1>0, RoundDownLemma
  <2>2. \E l \in Nat : RoundDown(rest, pageSize) = l * pageSize
    BY <1>0, RoundDownLemma, Zenon
  <2> QED BY <2>1, <2>2
<1>10. i * pageSize <= l * pageSize
  <2>1. i * pageSize < l * pageSize + pageSize
    BY <1>0, <1>5, <1>8, <1>9
  <2> QED BY <1>0, <2>1, MultiplesLemma
<1>11. u = [p |-> j * pageSize + (IF build = "none" THEN 0 ELSE pageSize),
            size |-> l * pageSize - gp]
  BY <1>1, <1>2, <1>7, <1>8, <1>9 DEF stackAlign
<1>12. PICK a \in Nat, b \in Nat, c \in Nat : a = i * pageSize /\ b = j * pageSize /\ c = l * pageSize
  BY <1>5, <1>7, <1>9
<1>13. /\ u.p = b + (IF build = "none" THEN 0 ELSE pageSize) /\ u.size = c - gp
       /\ size = a + pageSize /\ rest = size - (b - base) /\ a <= c /\ c <= rest
       /\ b >= base /\ b < base + pageSize /\ a >= calc
  BY <1>5, <1>6, <1>7, <1>8, <1>9, <1>10, <1>11, <1>12
<1>14. /\ size \in Nat /\ u.p \in Nat /\ u.size \in Nat
       /\ u.size >= asked + MINSIGSTKSZ
       /\ u.p - (IF build = "none" THEN 0 ELSE pageSize) >= base
       /\ u.p + u.size + (IF build = "mman" THEN pageSize ELSE 0) <= base + size
  <2> HIDE DEF size, u
  <2> QED BY <1>0, <1>3, <1>4, <1>13
<1>15. u.p % pageSize = 0
  <2>1. CASE build = "none"
    <3>1. u.p = j * pageSize
      BY <1>7, <1>11, <2>1
    <3> QED BY <1>0, <3>1, MultipleLemma
  <2>2. CASE build # "none"
    <3>1. u.p = (j + 1) * pageSize
      BY <1>0, <1>7, <1>11, <2>2
    <3>2. j + 1 \in Nat
      OBVIOUS
    <3> QED BY <1>0, <3>1, <3>2, MultipleLemma
  <2> QED BY <2>1, <2>2
<1>16. u \in Region
  BY <1>11, <1>14 DEF Region
<1> QED BY <1>14, <1>15, <1>16

\* The first mark of a stack of some size is below its top.
LEMMA MarkLemma ==
  ASSUME Sizable, NEW stack, stack.p \in Nat, stack.size \in Nat, stack.size >= 2 * Word
  PROVE  sizeptr(stack.p) \in Nat /\ LowRight(stack, Top(stack))
<1>1. /\ RoundUp(stack.p, Word) \in Nat /\ RoundUp(stack.p, Word) < stack.p + Word
      /\ Word \in Nat
  BY RoundUpLemma, Zenon DEF Sizable
<1> QED BY <1>1 DEF sizeptr, LowRight, Top

\* The high water mark of a stack is that of the lowest address that was written
\* (stack_watermark_maxused()).
LEMMA WatermarkLemma ==
  ASSUME Sizable, NEW stack, NEW low \in Nat, stack.p \in Nat, stack.size \in Nat,
         LowRight(stack, low)
  PROVE  WatermarkIsTight(stack, low)
<1>0. Word \in Nat \ {0}
  BY DEF Sizable
<1>1. PICK first \in Nat : first = sizeptr(stack.p) + Word
  <2>1. sizeptr(stack.p) \in Nat
    BY <1>0, RoundUpLemma DEF sizeptr
  <2> QED BY <1>0, <2>1
<1>2. PICK top \in Nat : top = stack.p + stack.size
  OBVIOUS
<1>3. first <= low /\ low <= top
  BY <1>1, <1>2 DEF LowRight, Top
<1>4. PICK all \in Nat : all = top - first
  BY <1>3
<1>5. PICK free \in Nat : free = low - first
  BY <1>3
<1>6. stack_watermark_size(stack) = all
  <2>1. sizeptr(stack.p) \in Nat
    BY <1>0, RoundUpLemma DEF sizeptr
  <2> QED BY <1>0, <1>1, <1>2, <1>4, <2>1 DEF stack_watermark_size
<1>7. PICK words \in Nat : words = all \div Word /\ words * Word <= all /\ all < words * Word + Word
  <2>1. PICK words \in Nat : words = all \div Word
    BY <1>0
  <2>2. RoundDown(all, Word) = words * Word
    BY <2>1 DEF RoundDown
  <2>3. RoundDown(all, Word) <= all /\ all < RoundDown(all, Word) + Word
    BY <1>0, RoundDownLemma
  <2> QED BY <2>1, <2>2, <2>3
<1>8. PICK clean \in Nat : clean = free \div Word /\ clean * Word <= free /\ free < clean * Word + Word
  <2>1. PICK clean \in Nat : clean = free \div Word
    BY <1>0
  <2>2. RoundDown(free, Word) = clean * Word
    BY <2>1 DEF RoundDown
  <2>3. RoundDown(free, Word) <= free /\ free < RoundDown(free, Word) + Word
    BY <1>0, RoundDownLemma
  <2> QED BY <2>1, <2>2, <2>3
<1>9. unused(stack, low) = IF clean < words THEN clean ELSE words
  <2>1. sizeptr(stack.p) \in Nat
    BY <1>0, RoundUpLemma DEF sizeptr
  <2>2. low - sizeptr(stack.p) - Word = free
    BY <1>0, <1>1, <1>5, <2>1
  <2> QED BY <1>6, <1>7, <1>8, <2>2 DEF unused
<1>10. PICK n \in Nat : /\ n = unused(stack, low) * Word
                        /\ n = clean * Word \/ (n = words * Word /\ words * Word <= clean * Word)
  <2>1. CASE clean < words
    BY <1>0, <1>9, <2>1
  <2>2. CASE ~(clean < words)
    <3>1. words * Word <= clean * Word /\ words * Word \in Nat
      BY <1>0, <2>2
    <3> QED BY <1>9, <2>2, <3>1
  <2> QED BY <2>1, <2>2
<1>11. n <= free /\ (free < n + Word \/ all < n + Word) /\ free <= all
  <2>1. PICK a \in Nat, b \in Nat : a = clean * Word /\ b = words * Word
    BY <1>0
  <2> QED BY <1>0, <1>3, <1>4, <1>5, <1>7, <1>8, <1>10, <2>1
<1>12. stack_watermark_maxused(stack, low) = all - n
  BY <1>6, <1>10 DEF stack_watermark_maxused
<1>13. stack_watermark_remaining(stack, low) = n
  BY <1>6, <1>12 DEF stack_watermark_remaining
<1>14. Top(stack) - low = all - free
  BY <1>2, <1>3, <1>4, <1>5 DEF Top
<1> QED BY <1>0, <1>11, <1>12, <1>13, <1>14 DEF WatermarkIsTight

\* A guard in the stack of the user is inside of that stack and below what a function
\* writes first (stack_switch()).
LEMMA UserGuardLemma ==
  ASSUME Sizable, StackTypeOK, user.size >= 2 * pageSize
  PROVE  userGuard \in Guard /\ GuardsUser(userGuard)
<1>0. /\ pageSize \in Nat \ {0} /\ Word \in Nat \ {0} /\ user.p \in Nat /\ user.size \in Nat
      /\ user.size + 2 >= 3 * pageSize + 2 * Word
  BY DEF Sizable, StackTypeOK, ContextType
<1>1. PICK n \in Nat : n = user.p + 2 * pageSize - 1
  BY <1>0
<1>2. PICK r \in Nat : r = RoundDown(n, pageSize) /\ r <= n /\ n < r + pageSize
  BY <1>0, RoundDownLemma, Zenon
<1>3. PICK top \in Nat : top = Top(user) /\ top = user.p + user.size
  BY <1>0 DEF Top
<1>4. PICK d \in Nat : d = RoundDown(top, Word) /\ top < d + Word
  BY <1>0, RoundDownLemma, Zenon
<1>5. userGuard = <<"user", r>>
  BY <1>1, <1>2 DEF userGuard
<1>6. UserTop = d - Word
  BY <1>3, <1>4 DEF UserTop
<1>7. r >= user.p /\ r + pageSize <= d - Word
  BY <1>0, <1>1, <1>2, <1>3, <1>4
<1> QED BY <1>5, <1>6, <1>7 DEF GuardsUser, Guard

\* The invariant holds initially.
LEMMA StackInvInit == ASSUME Sizable PROVE ContextInit => StackInv
<1> SUFFICES ASSUME ContextInit PROVE StackInv
  OBVIOUS
<1>1. PICK base \in Bases, size \in UserSizes : user = [p |-> base, size |-> size, low |-> base + size]
  BY DEF ContextInit
<1>2. base \in Nat /\ size \in Nat /\ size >= 2 * Word
  BY Zenon DEF Sizable
<1>3. LowRight(user, user.low)
  <2>1. user.p \in Nat /\ user.size \in Nat /\ user.size >= 2 * Word /\ user.low = Top(user)
    BY <1>1, <1>2 DEF Top
  <2> QED BY <2>1, MarkLemma
<1>4. NoGuard \in Guard
  BY DEF NoGuard, Guard
<1>5. <<>> \in Seq(Guard)
  OBVIOUS
<1>6. /\ \A c \in Contexts \cup {worker} :
            ctx[c] = IF c = worker THEN [NoContext EXCEPT !.state = "entered"]
                                   ELSE NoContext
      /\ ctx = [c \in Contexts \cup {worker} |-> ctx[c]]
  BY Zenon DEF ContextInit
<1>7. StackTypeOK
  <2>1. user \in [p : Nat, size : Nat, low : Nat] /\ user.p \in Bases /\ user.size \in UserSizes
    BY <1>1, <1>2
  <2>2. /\ NoContext \in ContextType
        /\ [NoContext EXCEPT !.state = "entered"] \in ContextType
    BY <1>4, <1>5, Zenon DEF NoContext, Region, ContextType
  <2> QED BY <1>6, <2>1, <2>2, Zenon DEF StackTypeOK, ContextInit
<1>8. /\ memory = {} /\ current = worker /\ mpu = NoGuard
      /\ \A c \in Contexts : ctx[c].state = "none" /\ ctx[c].calls = <<>>
      /\ ctx[worker].state = "entered" /\ ctx[worker].guard = NoGuard
  BY <1>6, Zenon DEF ContextInit, NoContext, Sizable
<1> QED BY <1>3, <1>7, <1>8 DEF StackInv

\* A context that is left alone is still right.
LEMMA ContextKeeps ==
  ASSUME NEW c, ContextRight(c), build' = build, user'.p = user.p, user'.size = user.size,
         ctx'[c].asked = ctx[c].asked, ctx'[c].stack = ctx[c].stack,
         ctx'[c].usable = ctx[c].usable, ctx'[c].low = ctx[c].low,
         ctx'[c].guard = ctx[c].guard, ctx'[c].calls = ctx[c].calls
  PROVE  ContextRight(c)'
<1>1. StackFits(c)'
  BY DEF ContextRight, StackFits, Top
<1>2. GuardRight(c)'
  BY DEF ContextRight, GuardRight, GuardsUser, UserTop, Top, NoGuard, RoundDown
<1>3. LowRight(ctx'[c].usable, ctx'[c].low)
  BY DEF ContextRight
<1> QED BY <1>1, <1>2, <1>3 DEF ContextRight, LowRight, sizeptr, RoundUp, Top

\* A new context is right, wherever its stack is (context_create()).
LEMMA CreateKeepsStacks ==
  ASSUME Sizable, StackInv, NEW c \in Contexts, NEW asked \in Sizes, NEW base \in Bases,
         context_create(c, asked, base)
  PROVE  StackInv'
<1>0. /\ ctx[c].state = "none" /\ c \notin memory
      /\ build' = build /\ current' = current /\ mpu' = mpu /\ user' = user
  BY DEF context_create
<1>1. CASE ctx' = ctx /\ memory' = memory
  <2>1. \A d \in memory' : ContextRight(d)'
    BY <1>0, <1>1, ContextKeeps DEF StackInv
  <2>2. StackTypeOK' /\ LowRight(user, user.low)'
    BY <1>0, <1>1 DEF StackInv, StackTypeOK, ContextType, LowRight, sizeptr, RoundUp, Top
  <2> QED BY <1>0, <1>1, <2>1, <2>2 DEF StackInv, NoGuard
<1>2. CASE ctx' = [ctx EXCEPT ![c] = initStack(c, asked, base)] /\ memory' = memory \cup {c}
  <2>0. asked \in Nat /\ base \in Nat /\ build \in {"mman", "mpu", "none"} /\ asked + MINSIGSTKSZ >= 2 * Word
    BY DEF Sizable, StackInv, StackTypeOK, ContextType
  <2>1. PICK size : size = stackSize(asked)
    OBVIOUS
  <2>2. PICK u : u = stackAlign(base, size)
    OBVIOUS
  <2>3. /\ size \in Nat /\ u \in Region
        /\ u.p % pageSize = 0 /\ u.size >= asked + MINSIGSTKSZ
        /\ u.p - (IF build = "none" THEN 0 ELSE pageSize) >= base
        /\ u.p + u.size + (IF build = "mman" THEN pageSize ELSE 0) <= base + size
    BY <2>0, <2>1, <2>2, AlignLemma, Zenon
  <2>4. PICK g : g = IF build = "mpu" THEN <<c, u.p - pageSize>> ELSE NoGuard
    BY Zenon
  <2>5. PICK new : new = [state |-> "ready", asked |-> asked, stack |-> [p |-> base, size |-> size],
                          usable |-> u, low |-> Top(u), guard |-> g, calls |-> <<>>]
    BY Zenon
  <2>6. initStack(c, asked, base) = new
    <3>1. initStack(c, asked, base) =
             [NoContext EXCEPT !.state = "ready", !.asked = asked,
                               !.stack = [p |-> base, size |-> size], !.usable = u,
                               !.low = Top(u), !.guard = g]
      BY <2>1, <2>2, <2>4 DEF initStack
    <3> QED BY <2>5, <3>1, Zenon DEF NoContext
  <2>7. u.p \in Nat /\ u.size \in Nat /\ Top(u) \in Nat /\ u.size >= 2 * Word
    BY <2>0, <2>3 DEF Region, Top, Sizable
  <2>8. g \in Guard
    BY <2>4, <2>7 DEF Guard, NoGuard, Sizable
  <2>9. <<>> \in Seq(Guard)
    OBVIOUS
  <2>10. new \in ContextType
    BY <2>0, <2>3, <2>5, <2>7, <2>8, <2>9 DEF Region, ContextType
  <2>11. StackTypeOK'
    BY <1>0, <1>2, <2>6, <2>10 DEF StackInv, StackTypeOK
  <2>12. /\ ctx'[c] = new /\ \A d \in (Contexts \cup {worker}) \ {c} : ctx'[d] = ctx[d]
         /\ c # current /\ c # worker
    BY <1>0, <1>2, <2>6 DEF StackInv, StackTypeOK, ContextType, Sizable
  <2>13. ContextRight(c)'
    <3>1. StackFits(c)'
      BY <1>0, <2>3, <2>5, <2>12 DEF StackFits, Top
    <3>2. GuardRight(c)'
      BY <1>0, <2>4, <2>5, <2>12 DEF GuardRight, NoGuard
    <3>3. LowRight(u, Top(u))
      BY <2>7, MarkLemma
    <3> QED BY <2>5, <2>12, <3>1, <3>2, <3>3 DEF ContextRight, LowRight, sizeptr, RoundUp, Top
  <2>14. \A d \in memory : ContextRight(d)'
    <3> SUFFICES ASSUME NEW d \in memory PROVE ContextRight(d)'
      OBVIOUS
    <3>1. ctx'[d] = ctx[d] /\ ContextRight(d)
      BY <1>0, <2>12, Zenon DEF StackInv, StackTypeOK, ContextType
    <3> QED BY <1>0, <3>1, ContextKeeps
  <2>15. memory' = {d \in Contexts : ctx'[d].state # "none"}
    BY <1>2, <2>5, <2>12 DEF StackInv
  <2>16. LowRight(user, user.low)'
    BY <1>0 DEF StackInv, LowRight, sizeptr, RoundUp, Top
  <2>17. /\ ctx'[worker] = ctx[worker] /\ ctx'[current] = ctx[current]
         /\ \A d \in Contexts \ memory' : ctx'[d].calls = <<>>
    BY <1>2, <2>12 DEF StackInv, StackTypeOK, ContextType
  <2> QED BY <1>0, <1>2, <2>11, <2>13, <2>14, <2>15, <2>16, <2>17 DEF StackInv, NoGuard
<1> QED BY <1>1, <1>2 DEF context_create, Sizable

\* A context is left, and the guard is set for the other one (context_switch(), and
\* context_entry() when the context dies).
LEMMA SwitchKeepsStacks ==
  ASSUME Sizable, StackInv, NEW to \in Contexts \cup {worker},
         context_switch(to) \/ die(to)
  PROVE  StackInv'
<1>1. /\ to # current /\ ctx[to].state \in {"ready", "entered"}
      /\ current' = to /\ mpu' = ctx[to].guard
      /\ build' = build /\ memory' = memory /\ user' = user
  BY DEF context_switch, die
<1>2. PICK s \in {"entered", "dead"} :
         /\ ctx' = [ctx EXCEPT ![current].state = s, ![to].state = "entered"]
         /\ s = "dead" => current # worker
  <2>1. CASE context_switch(to)
    <3>1. ctx' = [ctx EXCEPT ![to].state = "entered"]
      BY <2>1 DEF context_switch
    <3>2. ctx = [ctx EXCEPT ![current].state = "entered"]
      BY DEF StackInv, StackTypeOK, ContextType
    <3>3. ctx' = [ctx EXCEPT ![current].state = "entered", ![to].state = "entered"]
      BY <3>1, <3>2, Zenon
    <3> QED BY <3>3
  <2>2. CASE die(to)
    BY <2>2 DEF die
  <2> QED BY <2>1, <2>2
<1>3. StackTypeOK'
  <2>1. \A r \in ContextType, x \in {"entered", "dead"} : [r EXCEPT !.state = x] \in ContextType
    BY DEF ContextType
  <2>2. PICK left : left = [ctx EXCEPT ![current].state = s]
    BY Zenon
  <2>3. left \in [Contexts \cup {worker} -> ContextType]
    BY <2>1, <2>2, Zenon DEF StackInv, StackTypeOK
  <2>4. ctx' = [left EXCEPT ![to].state = "entered"]
    BY <1>2, <2>2
  <2>5. ctx' \in [Contexts \cup {worker} -> ContextType]
    BY <2>1, <2>3, <2>4, Zenon
  <2> QED BY <1>1, <2>5 DEF StackInv, StackTypeOK
<1>4. \A c \in Contexts \cup {worker} :
         /\ ctx'[c].asked = ctx[c].asked /\ ctx'[c].stack = ctx[c].stack
         /\ ctx'[c].usable = ctx[c].usable /\ ctx'[c].low = ctx[c].low
         /\ ctx'[c].guard = ctx[c].guard /\ ctx'[c].calls = ctx[c].calls
         /\ ctx'[c].state = IF c = to THEN "entered" ELSE IF c = current THEN s ELSE ctx[c].state
  BY <1>1, <1>2 DEF StackInv, StackTypeOK, ContextType
<1>5. \A c \in memory' : ContextRight(c)'
  <2> SUFFICES ASSUME NEW c \in memory PROVE ContextRight(c)'
    BY <1>1
  <2>1. ContextRight(c) /\ c \in Contexts
    BY DEF StackInv, StackTypeOK, ContextType
  <2> QED BY <1>1, <1>4, <2>1, ContextKeeps
<1>6. memory' = {c \in Contexts : ctx'[c].state # "none"}
  BY <1>1, <1>4 DEF StackInv
<1>7. LowRight(user, user.low)'
  BY <1>1 DEF StackInv, LowRight, sizeptr, RoundUp, Top
<1>8. /\ ctx'[worker].state = "entered" /\ ctx'[worker].guard = NoGuard
      /\ ctx'[current'].state = "entered" /\ mpu' = ctx'[current'].guard
      /\ \A c \in Contexts \ memory' : ctx'[c].calls = <<>>
  <2>1. ctx'[worker].state = "entered" /\ ctx'[worker].guard = NoGuard
    <3>1. s = "entered" \/ current # worker
      BY <1>2
    <3>2. ctx[worker].state = "entered" /\ ctx[worker].guard = NoGuard
      BY DEF StackInv
    <3> QED BY <1>4, <3>1, <3>2
  <2>2. ctx'[to].state = "entered" /\ ctx'[to].guard = ctx[to].guard
    BY <1>4
  <2>3. \A c \in Contexts \ memory : ctx'[c].calls = <<>>
    BY <1>4 DEF StackInv
  <2> QED BY <1>1, <2>1, <2>2, <2>3
<1> QED BY <1>3, <1>5, <1>6, <1>7, <1>8 DEF StackInv, NoGuard

\* A context that does not run is destroyed, with its memory (context_destroy()).
LEMMA DestroyKeepsStacks ==
  ASSUME Sizable, StackInv, NEW c \in Contexts \cup {worker}, context_destroy(c)
  PROVE  StackInv'
<1>1. /\ c \in Contexts /\ c # current /\ c # worker
      /\ ctx' = [ctx EXCEPT ![c] = NoContext] /\ memory' = memory \ {c}
      /\ build' = build /\ current' = current /\ mpu' = mpu /\ user' = user
  BY DEF context_destroy
<1>2. /\ ctx'[c] = NoContext /\ \A d \in (Contexts \cup {worker}) \ {c} : ctx'[d] = ctx[d]
  BY <1>1 DEF StackInv, StackTypeOK, ContextType
<1>3. StackTypeOK'
  <2>1. NoGuard \in Guard
    BY DEF NoGuard, Guard
  <2>2. <<>> \in Seq(Guard)
    OBVIOUS
  <2>3. NoContext \in ContextType
    BY <2>1, <2>2 DEF NoContext, Region, ContextType
  <2> QED BY <1>1, <2>3 DEF StackInv, StackTypeOK
<1>4. \A d \in memory' : ContextRight(d)'
  <2> SUFFICES ASSUME NEW d \in memory' PROVE ContextRight(d)'
    OBVIOUS
  <2>1. ctx'[d] = ctx[d] /\ ContextRight(d)
    BY <1>1, <1>2 DEF StackInv, StackTypeOK, ContextType
  <2> QED BY <1>1, <2>1, ContextKeeps
<1>5. ctx'[c].state = "none" /\ ctx'[c].calls = <<>>
  BY <1>2 DEF NoContext
<1>6. memory' = {d \in Contexts : ctx'[d].state # "none"}
  BY <1>1, <1>2, <1>5 DEF StackInv
<1>7. LowRight(user, user.low)'
  BY <1>1 DEF StackInv, LowRight, sizeptr, RoundUp, Top
<1>8. /\ ctx'[worker] = ctx[worker] /\ ctx'[current] = ctx[current]
      /\ \A d \in Contexts \ memory' : ctx'[d].calls = <<>>
  BY <1>1, <1>2, <1>5 DEF StackInv, StackTypeOK, ContextType
<1> QED BY <1>1, <1>3, <1>4, <1>6, <1>7, <1>8 DEF StackInv, NoGuard

\* The context that runs gets another guard, and keeps the one to return to
\* (stack_switch(), and its return).
LEMMA GuardKeepsStacks ==
  ASSUME Sizable, StackInv, stack_switch \/ stack_switchEnd
  PROVE  StackInv'
<1>0. current \in memory /\ current # worker /\ ContextRight(current)
  <2>1. current # worker
    BY DEF stack_switch, stack_switchEnd, Switched, Sizable
  <2> QED BY <2>1 DEF StackInv, StackTypeOK, ContextType
<1>1. build' = build /\ memory' = memory /\ current' = current /\ user' = user
  BY DEF stack_switch, stack_switchEnd
<1>2. PICK g \in Guard, s \in Seq(Guard) :
         /\ ctx' = [ctx EXCEPT ![current].guard = g, ![current].calls = s]
         /\ mpu' = g
         /\ \/ s = <<>> /\ (g[1] = current \/ (g = NoGuard /\ build # "mpu"))
            \/ s = <<NoGuard>> /\ g[1] = current
            \/ Len(s) = 1 /\ s[1][1] = current /\ GuardsUser(g)
  <2>1. CASE stack_switch
    <3>1. ctx[current].calls = <<>> /\ build = "mpu"
      BY <1>0, <2>1 DEF stack_switch, Switched, StackInv, StackTypeOK, ContextType
    <3>2. ctx[current].guard \in Guard /\ ctx[current].guard[1] = current
      BY <1>0, <3>1 DEF ContextRight, GuardRight, StackInv, StackTypeOK, ContextType
    <3>3. CASE user.size >= 2 * pageSize
      <4>1. userGuard \in Guard /\ GuardsUser(userGuard)
        BY <3>3, UserGuardLemma DEF StackInv
      <4>2. <<ctx[current].guard>> \in Seq(Guard)
        BY <3>2
      <4>3. /\ ctx' = [ctx EXCEPT ![current].guard = userGuard,
                                  ![current].calls = <<ctx[current].guard>>]
            /\ mpu' = userGuard
        BY <2>1, <3>3 DEF stack_switch
      <4> QED BY <3>2, <4>1, <4>2, <4>3, Zenon
    <3>4. CASE ~(user.size >= 2 * pageSize)
      <4>1. NoGuard \in Guard
        BY DEF NoGuard, Guard
      <4>2. <<NoGuard>> \in Seq(Guard)
        BY <4>1
      <4>3. /\ ctx' = [ctx EXCEPT ![current].guard = ctx[current].guard,
                                  ![current].calls = <<NoGuard>>]
            /\ mpu' = ctx[current].guard
        BY <2>1, <3>4 DEF stack_switch
      <4> QED BY <3>2, <4>2, <4>3, Zenon
    <3> QED BY <3>3, <3>4, Zenon
  <2>2. CASE stack_switchEnd
    <3>1. ctx[current].calls # <<>> /\ ctx[current].guard \in Guard
      BY <1>0, <2>2 DEF stack_switchEnd, Switched, StackInv, StackTypeOK, ContextType
    <3>2. PICK prev \in Guard : prev = Head(ctx[current].calls) /\ prev = ctx[current].calls[1]
      BY <1>0, <3>1 DEF StackInv, StackTypeOK, ContextType
    <3>3. PICK g \in Guard : g = (IF prev = NoGuard THEN ctx[current].guard ELSE prev)
      BY <3>1
    <3>4. g[1] = current
      <4>1. CASE ctx[current].calls = <<NoGuard>> /\ ctx[current].guard[1] = current
        BY <3>2, <3>3, <4>1
      <4>2. CASE prev[1] = current
        <5>1. prev # NoGuard
          BY <1>0, <4>2 DEF NoGuard, StackInv, StackTypeOK, ContextType, Sizable
        <5> QED BY <3>3, <4>2, <5>1
      <4> QED BY <1>0, <3>1, <3>2, <4>1, <4>2 DEF ContextRight, GuardRight
    <3>5. /\ ctx' = [ctx EXCEPT ![current].guard = g, ![current].calls = <<>>] /\ mpu' = g
      BY <2>2, <3>2, <3>3 DEF stack_switchEnd
    <3>6. <<>> \in Seq(Guard)
      OBVIOUS
    <3> QED BY <3>4, <3>5, <3>6, Zenon
  <2> QED BY <2>1, <2>2, Zenon
<1>3. StackTypeOK'
  <2>1. \A r \in ContextType : [[r EXCEPT !.guard = g] EXCEPT !.calls = s] \in ContextType
    BY Zenon DEF ContextType
  <2>2. ctx' = [ctx EXCEPT ![current] = [[ctx[current] EXCEPT !.guard = g] EXCEPT !.calls = s]]
    BY <1>2, Zenon DEF StackInv, StackTypeOK, ContextType
  <2>3. ctx' \in [Contexts \cup {worker} -> ContextType]
    BY <2>1, <2>2, Zenon DEF StackInv, StackTypeOK
  <2> QED BY <1>1, <2>3 DEF StackInv, StackTypeOK
<1>4. /\ \A c \in (Contexts \cup {worker}) \ {current} : ctx'[c] = ctx[c]
      /\ ctx'[current].asked = ctx[current].asked /\ ctx'[current].stack = ctx[current].stack
      /\ ctx'[current].usable = ctx[current].usable /\ ctx'[current].low = ctx[current].low
      /\ ctx'[current].guard = g /\ ctx'[current].calls = s
      /\ ctx'[current].state = ctx[current].state
  BY <1>2 DEF StackInv, StackTypeOK, ContextType
<1>5. \A c \in memory \ {current} : ContextRight(c)'
  <2> SUFFICES ASSUME NEW c \in memory \ {current} PROVE ContextRight(c)'
    OBVIOUS
  <2>1. ctx'[c] = ctx[c] /\ ContextRight(c)
    BY <1>4 DEF StackInv, StackTypeOK, ContextType
  <2> QED BY <1>1, <2>1, ContextKeeps
<1>6. ContextRight(current)'
  <2>1. StackFits(current)'
    BY <1>0, <1>1, <1>4 DEF ContextRight, StackFits, Top
  <2>2. GuardRight(current)'
    BY <1>1, <1>2, <1>4, Zenon DEF GuardRight, GuardsUser, UserTop, Top, NoGuard, RoundDown
  <2>3. LowRight(ctx'[current].usable, ctx'[current].low)
    BY <1>0, <1>4 DEF ContextRight
  <2> QED BY <1>1, <2>1, <2>2, <2>3 DEF ContextRight, LowRight, sizeptr, RoundUp, Top
<1>7. memory' = {c \in Contexts : ctx'[c].state # "none"}
  BY <1>1, <1>4 DEF StackInv
<1>8. LowRight(user, user.low)'
  BY <1>1 DEF StackInv, LowRight, sizeptr, RoundUp, Top
<1>9. ctx'[worker] = ctx[worker] /\ \A c \in Contexts \ memory' : ctx'[c].calls = <<>>
  BY <1>0, <1>1, <1>4, Zenon DEF StackInv, StackTypeOK, ContextType
<1> QED BY <1>0, <1>1, <1>2, <1>3, <1>4, <1>5, <1>6, <1>7, <1>8, <1>9, Zenon DEF StackInv, NoGuard

\* A stack is used down to the first mark at most.
LEMMA UseKeepsStacks ==
  ASSUME Sizable, StackInv, Use
  PROVE  StackInv'
<1>1. build' = build /\ memory' = memory /\ current' = current /\ mpu' = mpu /\ current # worker
  BY DEF Use
<1>2. CASE current \in Switched
  <2>1. PICK a \in sizeptr(user.p) + Word .. user.low - 1 :
           user' = [user EXCEPT !.low = a] /\ ctx' = ctx
    BY <1>2 DEF Use
  <2>2. sizeptr(user.p) \in Nat /\ Word \in Nat
    BY RoundUpLemma, Zenon DEF sizeptr, Sizable, StackInv, StackTypeOK, ContextType
  <2>3. a \in Nat /\ a >= sizeptr(user.p) + Word /\ a < user.low
    BY <2>1, <2>2 DEF StackInv, StackTypeOK
  <2>4. StackTypeOK' /\ user'.p = user.p /\ user'.size = user.size /\ user'.low = a
    BY <1>1, <2>1, <2>3, Zenon DEF StackInv, StackTypeOK, ContextType
  <2>5. LowRight(user, user.low)'
    BY <2>2, <2>3, <2>4 DEF StackInv, StackTypeOK, ContextType, LowRight, sizeptr, RoundUp, Top
  <2>6. \A c \in memory : ContextRight(c)'
    BY <1>1, <2>1, <2>4, ContextKeeps DEF StackInv
  <2> QED BY <1>1, <2>1, <2>4, <2>5, <2>6 DEF StackInv, NoGuard
<1>3. CASE current \notin Switched
  <2>0. current \in memory /\ ContextRight(current) /\ current \in Contexts
    BY <1>1 DEF StackInv, StackTypeOK, ContextType
  <2>1. PICK u : u = ctx[current].usable
    OBVIOUS
  <2>2. PICK a \in sizeptr(u.p) + Word .. ctx[current].low - 1 :
           ctx' = [ctx EXCEPT ![current].low = a] /\ user' = user
    BY <1>3, <2>1 DEF Use
  <2>3. u.p \in Nat /\ u.size \in Nat /\ ctx[current].low \in Nat
    BY <2>0, <2>1 DEF StackInv, StackTypeOK, ContextType, Region
  <2>4. sizeptr(u.p) \in Nat /\ Word \in Nat
    BY <2>3, RoundUpLemma DEF sizeptr, Sizable
  <2>5. a \in Nat /\ a >= sizeptr(u.p) + Word /\ a < ctx[current].low
    BY <2>2, <2>3, <2>4
  <2>6. StackTypeOK'
    BY <1>1, <2>2, <2>5, Zenon DEF StackInv, StackTypeOK, ContextType
  <2>7. /\ \A c \in (Contexts \cup {worker}) \ {current} : ctx'[c] = ctx[c]
        /\ ctx'[current].asked = ctx[current].asked /\ ctx'[current].stack = ctx[current].stack
        /\ ctx'[current].usable = u /\ ctx'[current].low = a
        /\ ctx'[current].guard = ctx[current].guard /\ ctx'[current].calls = ctx[current].calls
        /\ ctx'[current].state = ctx[current].state
    BY <2>1, <2>2 DEF StackInv, StackTypeOK
  <2>8. \A c \in memory \ {current} : ContextRight(c)'
    <3> SUFFICES ASSUME NEW c \in memory \ {current} PROVE ContextRight(c)'
      OBVIOUS
    <3>1. ctx'[c] = ctx[c] /\ ContextRight(c)
      BY <2>7 DEF StackInv, StackTypeOK, ContextType
    <3> QED BY <1>1, <2>2, <3>1, ContextKeeps
  <2>9. ContextRight(current)'
    <3>1. StackFits(current)'
      BY <1>1, <2>0, <2>1, <2>7 DEF ContextRight, StackFits, Top
    <3>2. GuardRight(current)'
      BY <1>1, <2>0, <2>2, <2>7 DEF ContextRight, GuardRight, GuardsUser, UserTop, Top,
                                   NoGuard, RoundDown
    <3>3. LowRight(u, a)
      BY <2>0, <2>1, <2>3, <2>4, <2>5 DEF ContextRight, LowRight, Top
    <3> QED BY <1>1, <2>7, <3>1, <3>2, <3>3
            DEF ContextRight, LowRight, sizeptr, RoundUp, Top
  <2>10. memory' = {c \in Contexts : ctx'[c].state # "none"}
    BY <1>1, <2>7 DEF StackInv
  <2>11. LowRight(user, user.low)'
    BY <2>2 DEF StackInv, LowRight, sizeptr, RoundUp, Top
  <2>12. ctx'[worker] = ctx[worker] /\ \A c \in Contexts \ memory' : ctx'[c].calls = <<>>
    BY <1>1, <2>0, <2>7, Zenon DEF StackInv, StackTypeOK, ContextType
  <2> QED BY <1>1, <2>2, <2>6, <2>7, <2>8, <2>9, <2>10, <2>11, <2>12 DEF StackInv, NoGuard
<1> QED BY <1>2, <1>3

\* Every operation on contexts keeps the invariant.
LEMMA StackInvNext ==
  ASSUME Sizable PROVE StackInv /\ [ContextNext]_contextVars => StackInv'
<1> SUFFICES ASSUME StackInv, [ContextNext]_contextVars PROVE StackInv'
  OBVIOUS
<1>1. CASE UNCHANGED contextVars
  <2>1. build' = build /\ ctx' = ctx /\ memory' = memory /\ current' = current /\ mpu' = mpu /\ user' = user
    BY <1>1 DEF contextVars
  <2>2. \A c \in memory : ContextRight(c)'
    BY <2>1, ContextKeeps DEF StackInv
  <2>3. StackTypeOK' /\ LowRight(user, user.low)'
    BY <2>1 DEF StackInv, StackTypeOK, ContextType, LowRight, sizeptr, RoundUp, Top
  <2> QED BY <2>1, <2>2, <2>3 DEF StackInv, NoGuard
<1>2. CASE ContextNext
  BY <1>2, CreateKeepsStacks, SwitchKeepsStacks, DestroyKeepsStacks, GuardKeepsStacks, UseKeepsStacks
     DEF ContextNext
<1> QED BY <1>1, <1>2

\* The stacks of contexts are sound and marked.
LEMMA StackInvImplies ==
  ASSUME Sizable, StackInv PROVE StacksAreSound /\ StacksAreMarked
<1>1. \A c \in memory : WatermarkIsTight(ctx[c].usable, ctx[c].low)
  <2> SUFFICES ASSUME NEW c \in memory
               PROVE  WatermarkIsTight(ctx[c].usable, ctx[c].low)
    OBVIOUS
  <2>1. PICK u : u = ctx[c].usable
    OBVIOUS
  <2>2. u.p \in Nat /\ u.size \in Nat /\ ctx[c].low \in Nat /\ LowRight(u, ctx[c].low)
    BY <2>1, Zenon DEF StackInv, StackTypeOK, ContextType, Region, ContextRight
  <2>3. WatermarkIsTight(u, ctx[c].low)
    BY <2>2, WatermarkLemma
  <2> QED BY <2>1, <2>3
<1>2. WatermarkIsTight(user, user.low)
  <2>1. user.p \in Nat /\ user.size \in Nat /\ user.low \in Nat /\ LowRight(user, user.low)
    BY DEF StackInv, StackTypeOK, ContextType
  <2> QED BY <2>1, WatermarkLemma
<1>3. /\ mpu # NoGuard => mpu[1] = current \/ (mpu[1] = "user" /\ current \in Switched)
      /\ mpu[1] = "user" => mpu[2] >= user.p /\ mpu[2] + pageSize <= UserTop
  <2>1. CASE current = worker
    BY <2>1 DEF StackInv, NoGuard, Sizable
  <2>2. CASE current # worker
    <3>1. current \in memory /\ current \in Contexts /\ GuardRight(current) /\ mpu = ctx[current].guard
      BY <2>2 DEF StackInv, StackTypeOK, ContextType, ContextRight
    <3>2. ctx[current].calls # <<>> => current \in Switched
      BY <3>1 DEF Switched
    <3>3. Len(<<>>) # 1 /\ "user" # current /\ NoGuard[1] # "user"
      BY <3>1 DEF Sizable, NoGuard
    <3> QED BY <3>1, <3>2, <3>3 DEF GuardRight, GuardsUser
  <2> QED BY <2>1, <2>2
<1> QED BY <1>1, <1>2, <1>3 DEF StackInv, ContextRight, StacksAreSound, StacksAreMarked

\* A stack has room for what was asked for and is guarded, memory is freed once, and
\* the high water mark is right (context_create(), stackAlign(), context_switch(),
\* stack_switch(), stack_watermark_maxused()).
THEOREM StacksAreSoundHolds ==
  ASSUME Sizable PROVE StackSpec => [](StacksAreSound /\ StacksAreMarked)
<1>1. StackInv => StacksAreSound /\ StacksAreMarked
  BY StackInvImplies
<1> QED BY <1>1, StackInvInit, StackInvNext, PTL DEF StackSpec

-----------------------------------------------------------------------------
(* The first frame *)

CONSTANTS Threads, Debug, Shared, Fails

VARIABLES sigaction, working, blocked, pending, altstack, trampoline_context, at, env, did, lost

Frames == INSTANCE Sigaltstack WITH worker <- working

\* Sigaltstack, on its own.
FrameSpec == Frames!SigInit /\ [][Frames!SigNext]_Frames!sigVars

\* The last Worker of the process is the one that ends last, and no system call fails
\* that leaves SIGUSR1 as it is.  And a null pointer is no context.
Orderly == ~Shared /\ Fails \subseteq {"unblock"} /\ nullptr \notin Contexts

Pointer == Contexts \cup {nullptr}

FrameTypeOK ==
    /\ sigaction \in {"default", "trampoline"}
    /\ working \in [Threads -> BOOLEAN] /\ blocked \in [Threads -> BOOLEAN]
    /\ pending \in [Threads -> BOOLEAN]
    /\ altstack \in [Threads -> Pointer] /\ trampoline_context \in [Threads -> Pointer]
    /\ at \in [Threads -> [pc : {"outside", "unblock", "kill", "wait", "bootstrap"},
                           c : Pointer, oss : Pointer]]
    /\ env \in [Contexts -> {"none", "stack", "frame", "ready"}]
    /\ did \in [Contexts -> 0 .. 2]

\* What a thread in create() relies on.
Open(t) ==
    LET c == at[t].c
    IN  /\ trampoline_context[t] = c /\ altstack[t] = c
        /\ did[c] \in {0, 1} /\ env[c] = IF did[c] = 0 THEN "stack" ELSE "frame"

CreateRight(t) ==
    LET c == at[t].c
    IN  /\ at[t].pc = "outside" => c = nullptr /\ blocked[t]
        /\ at[t].pc # "outside" => c \in Contexts /\ working[t] /\ env[c] \in {"stack", "frame"}
        /\ at[t].pc \in {"unblock", "kill", "wait"} => Open(t)
        /\ at[t].pc \in {"unblock", "bootstrap"} => blocked[t]
        /\ at[t].pc = "bootstrap" => env[c] = "frame"

\* No two threads create the same context.
OneCreator ==
    \A t, u \in Threads : t # u /\ at[t].c # nullptr => at[t].c # at[u].c

\* The inductive invariant.
FrameInv ==
    /\ FrameTypeOK
    /\ \A t \in Threads : CreateRight(t) /\ (working[t] => sigaction = "trampoline")
    /\ OneCreator
    /\ lost = {}

\* The invariant holds initially.
LEMMA FrameInvInit == ASSUME Orderly PROVE Frames!SigInit => FrameInv
BY DEF Frames!SigInit, Frames!Outside, FrameInv, FrameTypeOK, CreateRight, OneCreator, Pointer

\* A step of a thread that changes its own variables and one context, that no other
\* thread creates.
OnlyOwn(t, c) ==
    /\ \A u \in Threads \ {t} : at[u].c # c
    /\ \A u \in Threads \ {t} :
          /\ at'[u] = at[u] /\ altstack'[u] = altstack[u]
          /\ trampoline_context'[u] = trampoline_context[u]
          /\ blocked'[u] = blocked[u] /\ working'[u] = working[u]
    /\ \A d \in Contexts \ {c} : env'[d] = env[d] /\ did'[d] = did[d]

\* Such a step does not disturb another thread in create().
LEMMA OthersKeep ==
  ASSUME FrameInv, NEW t \in Threads, NEW c, OnlyOwn(t, c)
  PROVE  \A u \in Threads \ {t} : CreateRight(u)'
<1> SUFFICES ASSUME NEW u \in Threads, u # t PROVE CreateRight(u)'
  OBVIOUS
<1>1. CreateRight(u)
  BY DEF FrameInv
<1>2. CASE at[u].pc = "outside"
  BY <1>1, <1>2 DEF CreateRight, OnlyOwn
<1>3. CASE at[u].pc # "outside"
  <2>1. PICK d \in Contexts : d = at[u].c
    BY <1>1, <1>3 DEF CreateRight
  <2>2. d # c /\ env'[d] = env[d] /\ did'[d] = did[d]
    BY <2>1 DEF OnlyOwn
  <2> QED BY <1>1, <1>3, <2>1, <2>2 DEF CreateRight, Open, OnlyOwn
<1> QED BY <1>2, <1>3

\* Signals are sent, and Workers come and go, at any time.
LEMMA OutsideKeepsFrames ==
  ASSUME Orderly, FrameInv, NEW t \in Threads, Frames!kill(t) \/ Frames!init(t) \/ Frames!deinit(t)
  PROVE  FrameInv'
<1>1. CASE Frames!kill(t)
  BY <1>1 DEF Frames!kill, FrameInv, FrameTypeOK, CreateRight, Open, OneCreator
<1>2. CASE Frames!init(t)
  BY <1>2 DEF Frames!init, FrameInv, FrameTypeOK, CreateRight, Open, OneCreator
<1>3. CASE Frames!deinit(t)
  BY <1>3 DEF Frames!deinit, Frames!At, FrameInv, FrameTypeOK, CreateRight, Open, OneCreator, Orderly
<1> QED BY <1>1, <1>2, <1>3

\* The handler runs only for the context that its thread creates: anybody else has
\* SIGUSR1 blocked.
LEMMA TrampolineKeepsFrames ==
  ASSUME Orderly, FrameInv, NEW t \in Threads, Frames!context_trampoline(t)
  PROVE  FrameInv'
<1>1. pending[t] /\ ~blocked[t] /\ at' = at /\ altstack' = altstack /\ blocked' = blocked
      /\ trampoline_context' = trampoline_context /\ working' = working /\ sigaction' = sigaction
      /\ pending' = [pending EXCEPT ![t] = FALSE]
  BY DEF Frames!context_trampoline, Frames!Interrupted
<1>2. at[t].pc \in {"kill", "wait"}
  BY <1>1 DEF FrameInv, CreateRight, FrameTypeOK
<1>3. PICK c \in Contexts : c = at[t].c
  BY <1>2 DEF FrameInv, CreateRight
<1>4. trampoline_context[t] = c /\ altstack[t] = c /\ sigaction = "trampoline" /\ c # nullptr
      /\ did[c] \in {0, 1} /\ env[c] = (IF did[c] = 0 THEN "stack" ELSE "frame")
  BY <1>2, <1>3 DEF FrameInv, CreateRight, Open, Orderly
<1>5. CASE did[c] # 0
  <2>1. lost' = lost /\ env' = env /\ did' = did
    BY <1>4, <1>5, SMTT(30) DEF Frames!context_trampoline
  <2> QED BY <1>1, <2>1 DEF FrameInv, FrameTypeOK, CreateRight, Open, OneCreator
<1>6. CASE did[c] = 0
  <2>1. lost' = lost /\ env' = [env EXCEPT ![c] = "frame"] /\ did' = [did EXCEPT ![c] = 1]
    BY <1>4, <1>6 DEF Frames!context_trampoline
  <2>2. FrameTypeOK'
    BY <1>1, <2>1 DEF FrameInv, FrameTypeOK
  <2>3. \A u \in Threads \ {t} : CreateRight(u)'
    <3>1. \A u \in Threads \ {t} : at[u].c # c
      BY <1>3, <1>4 DEF FrameInv, OneCreator
    <3>2. OnlyOwn(t, c)
      BY <1>1, <2>1, <3>1 DEF OnlyOwn, FrameInv, FrameTypeOK
    <3> QED BY <3>2, OthersKeep
  <2>4. CreateRight(t)'
    <3>1. env'[c] = "frame" /\ did'[c] = 1
      BY <2>1 DEF FrameInv, FrameTypeOK
    <3>2. Open(t)'
      BY <1>1, <1>3, <1>4, <3>1 DEF Open
    <3>3. working[t] /\ (at[t].pc = "unblock" => blocked[t])
      BY <1>2 DEF FrameInv, CreateRight
    <3> QED BY <1>1, <1>2, <1>3, <3>1, <3>2, <3>3 DEF CreateRight
  <2> QED BY <1>1, <2>1, <2>2, <2>3, <2>4, Zenon DEF FrameInv, OneCreator
<1> QED BY <1>4, <1>5, <1>6

\* create() takes a context that nobody has.
LEMMA CreateKeepsFrames ==
  ASSUME Orderly, FrameInv, NEW t \in Threads, NEW c \in Contexts, Frames!create(t, c)
  PROVE  FrameInv'
<1>1. CASE UNCHANGED <<env, did, altstack, trampoline_context, at>>
  BY <1>1 DEF Frames!create, FrameInv, FrameTypeOK, CreateRight, Open, OneCreator
<1>2. CASE ~UNCHANGED <<env, did, altstack, trampoline_context, at>>
  <2>1. /\ at[t].pc = "outside" /\ working[t] /\ env[c] = "none"
        /\ env' = [env EXCEPT ![c] = "stack"] /\ did' = [did EXCEPT ![c] = 0]
        /\ altstack' = [altstack EXCEPT ![t] = c]
        /\ trampoline_context' = [trampoline_context EXCEPT ![t] = c]
        /\ at' = [at EXCEPT ![t] = [pc |-> "unblock", c |-> c, oss |-> altstack[t]]]
        /\ sigaction' = sigaction /\ working' = working /\ blocked' = blocked
        /\ pending' = pending /\ lost' = lost
    BY <1>2 DEF Frames!create, Frames!At
  <2>2. FrameTypeOK'
    BY <2>1 DEF FrameInv, FrameTypeOK, Pointer
  <2>3. \A u \in Threads : at[u].c # c
    BY <2>1 DEF FrameInv, CreateRight, Orderly
  <2>4. \A u \in Threads \ {t} : CreateRight(u)'
    <3>1. OnlyOwn(t, c)
      BY <2>1, <2>3 DEF OnlyOwn, FrameInv, FrameTypeOK
    <3> QED BY <3>1, OthersKeep
  <2>5. CreateRight(t)'
    BY <2>1 DEF FrameInv, FrameTypeOK, CreateRight, Open
  <2>6. OneCreator'
    BY <2>1, <2>3 DEF FrameInv, FrameTypeOK, OneCreator
  <2> QED BY <2>1, <2>2, <2>4, <2>5, <2>6 DEF FrameInv
<1> QED BY <1>1, <1>2

\* destroy() ends a context that nobody creates.
LEMMA DestroyKeepsFrames ==
  ASSUME Orderly, FrameInv, NEW t \in Threads, NEW c \in Contexts, Frames!destroy(t, c)
  PROVE  FrameInv'
BY DEF Frames!destroy, Frames!At, FrameInv, FrameTypeOK, CreateRight, Open, OneCreator, Orderly

\* create() goes on with its own context: it waits for the handler with SIGUSR1
\* unblocked, and leaves with SIGUSR1 blocked.
LEMMA StepsKeepFrames ==
  ASSUME Orderly, FrameInv, NEW t \in Threads,
         Frames!unblock(t) \/ Frames!killSelf(t) \/ Frames!waitHandler(t) \/ Frames!bootstrap(t)
  PROVE  FrameInv'
<1>0. at[t].pc # "outside"
  BY DEF Frames!unblock, Frames!killSelf, Frames!waitHandler, Frames!bootstrap, Frames!At
<1>1. PICK c \in Contexts : c = at[t].c
  BY <1>0, SMTT(30) DEF FrameInv, CreateRight
<1>2. c # nullptr /\ (\A u \in Threads \ {t} : at[u].c # c) /\ working[t]
      /\ sigaction = "trampoline" /\ CreateRight(t)
  BY <1>0, <1>1 DEF FrameInv, CreateRight, Orderly, OneCreator
<1>3. CASE Frames!unblock(t)
  <2>1. CASE Frames!rollback_altstack(t, "unblock")
    <3>1. /\ at[t].pc = "unblock"
          /\ env' = [env EXCEPT ![c] = "none"] /\ at' = [at EXCEPT ![t] = Frames!Outside]
          /\ altstack' = [altstack EXCEPT ![t] = altstack'[t]] /\ altstack'[t] \in Pointer
          /\ trampoline_context' = trampoline_context /\ did' = did
          /\ sigaction' = sigaction /\ working' = working /\ blocked' = blocked
          /\ pending' = pending /\ lost' = lost
      BY <1>1, <1>3, <2>1 DEF Frames!unblock, Frames!At, Frames!rollback_altstack, FrameInv, FrameTypeOK
    <3>2. FrameTypeOK'
      BY <3>1 DEF FrameInv, FrameTypeOK, Pointer, Frames!Outside
    <3>3. \A u \in Threads \ {t} : CreateRight(u)'
      <4>1. OnlyOwn(t, c)
        BY <1>2, <3>1 DEF OnlyOwn, FrameInv, FrameTypeOK
      <4> QED BY <4>1, OthersKeep
    <3>4. CreateRight(t)' /\ at'[t].c = nullptr
      BY <1>2, <3>1 DEF FrameInv, FrameTypeOK, CreateRight, Frames!Outside
    <3>5. OneCreator'
      BY <3>1, <3>4 DEF FrameInv, FrameTypeOK, OneCreator
    <3> QED BY <3>1, <3>2, <3>3, <3>4, <3>5 DEF FrameInv
  <2>2. CASE ~Frames!rollback_altstack(t, "unblock")
    <3>1. /\ at[t].pc = "unblock" /\ at' = [at EXCEPT ![t].pc = "kill"]
          /\ blocked' = [blocked EXCEPT ![t] = FALSE]
          /\ UNCHANGED <<sigaction, working, pending, altstack, trampoline_context, env, did, lost>>
      BY <1>3, <2>2 DEF Frames!unblock, Frames!At, Frames!Goes
    <3>2. FrameTypeOK' /\ at'[t].pc = "kill" /\ at'[t].c = at[t].c
          /\ \A u \in Threads \ {t} : at'[u] = at[u] /\ blocked'[u] = blocked[u]
      BY <3>1 DEF FrameInv, FrameTypeOK
    <3>3. \A u \in Threads : CreateRight(u)'
      BY <1>2, <3>1, <3>2 DEF FrameInv, CreateRight, Open
    <3>4. OneCreator'
      BY <3>2 DEF FrameInv, OneCreator
    <3> QED BY <3>1, <3>2, <3>3, <3>4 DEF FrameInv
  <2> QED BY <2>1, <2>2
<1>4. CASE Frames!killSelf(t)
  <2>1. /\ at[t].pc = "kill" /\ at' = [at EXCEPT ![t].pc = "wait"]
        /\ pending' = [pending EXCEPT ![t] = TRUE]
        /\ UNCHANGED <<sigaction, working, blocked, altstack, trampoline_context, env, did, lost>>
    BY <1>4 DEF Frames!killSelf, Frames!At, Frames!Goes, Frames!rollback_altstack, Orderly
  <2> QED BY <1>2, <2>1 DEF FrameInv, FrameTypeOK, CreateRight, Open, OneCreator
<1>5. CASE Frames!waitHandler(t)
  <2>0. PICK a \in Pointer, b \in Pointer :
            /\ altstack' = [altstack EXCEPT ![t] = a]
            /\ trampoline_context' = [trampoline_context EXCEPT ![t] = b]
    <3>1. PICK a \in Pointer : altstack' = [altstack EXCEPT ![t] = a]
      BY <1>5 DEF Frames!waitHandler, Frames!rollback_altstack, FrameInv, FrameTypeOK
    <3>2. \E b \in Pointer : trampoline_context' = [trampoline_context EXCEPT ![t] = b]
      <4>1. CASE Debug
        <5>1. nullptr \in Pointer
          BY DEF Pointer
        <5> WITNESS nullptr \in Pointer
        <5> QED BY <1>5, <4>1 DEF Frames!waitHandler, Frames!rollback_altstack, Orderly
      <4>2. CASE ~Debug
        <5>1. trampoline_context[t] \in Pointer
          BY DEF FrameInv, FrameTypeOK
        <5> WITNESS trampoline_context[t] \in Pointer
        <5> QED BY <1>5, <4>2 DEF Frames!waitHandler, Frames!rollback_altstack, Orderly,
                                  FrameInv, FrameTypeOK
      <4> QED BY <4>1, <4>2
    <3> QED BY <3>1, <3>2, Zenon
  <2>1. /\ at[t].pc = "wait" /\ did[c] # 0 /\ at' = [at EXCEPT ![t].pc = "bootstrap"]
        /\ blocked' = [blocked EXCEPT ![t] = TRUE]
        /\ did' = [did EXCEPT ![c] = 2]
        /\ UNCHANGED <<sigaction, working, pending, env, lost>>
    BY <1>1, <1>5 DEF Frames!waitHandler, Frames!At, Frames!Goes, Frames!rollback_altstack, Orderly
  <2>2. FrameTypeOK'
    BY <2>0, <2>1 DEF FrameInv, FrameTypeOK
  <2>3. \A u \in Threads \ {t} : CreateRight(u)'
    <3>1. OnlyOwn(t, c)
      BY <1>2, <2>0, <2>1 DEF OnlyOwn, FrameInv, FrameTypeOK
    <3> QED BY <3>1, OthersKeep
  <2>4. CreateRight(t)' /\ \A u \in Threads : at'[u].c = at[u].c
    BY <1>1, <1>2, <2>0, <2>1 DEF FrameInv, FrameTypeOK, CreateRight, Open
  <2> QED BY <2>1, <2>2, <2>3, <2>4 DEF FrameInv, OneCreator
<1>6. CASE Frames!bootstrap(t)
  <2>0. PICK n \in 0 .. 2 : did' = [did EXCEPT ![c] = n]
    <3>1. did \in [Contexts -> 0 .. 2] /\ did' = IF Debug THEN [did EXCEPT ![c] = 0] ELSE did
      BY <1>1, <1>6 DEF Frames!bootstrap, FrameInv, FrameTypeOK
    <3>2. CASE Debug
      BY <3>1, <3>2
    <3>3. CASE ~Debug
      BY <3>1, <3>3
    <3> QED BY <3>2, <3>3
  <2>1. /\ at[t].pc = "bootstrap" /\ env' = [env EXCEPT ![c] = "ready"]
        /\ lost' = (IF env[c] # "frame" THEN lost \cup {c} ELSE lost)
        /\ at' = [at EXCEPT ![t] = Frames!Outside]
        /\ UNCHANGED <<sigaction, working, blocked, pending, altstack, trampoline_context>>
    BY <1>1, <1>6 DEF Frames!bootstrap, Frames!At
  <2>2. FrameTypeOK' /\ lost' = {}
    BY <1>1, <1>2, <2>0, <2>1 DEF FrameInv, FrameTypeOK, CreateRight, Frames!Outside, Pointer
  <2>3. \A u \in Threads \ {t} : CreateRight(u)'
    <3>1. OnlyOwn(t, c)
      BY <1>2, <2>0, <2>1 DEF OnlyOwn, FrameInv, FrameTypeOK
    <3> QED BY <3>1, OthersKeep
  <2>4. CreateRight(t)' /\ at'[t].c = nullptr
    BY <1>2, <2>1 DEF FrameInv, FrameTypeOK, CreateRight, Frames!Outside
  <2>5. OneCreator'
    BY <2>1, <2>4 DEF FrameInv, FrameTypeOK, OneCreator
  <2> QED BY <2>1, <2>2, <2>3, <2>4, <2>5 DEF FrameInv
<1> QED BY <1>3, <1>4, <1>5, <1>6

\* Every step of create() and of the handler keeps the invariant.
LEMMA FrameInvNext == ASSUME Orderly PROVE FrameInv /\ [Frames!SigNext]_Frames!sigVars => FrameInv'
<1> SUFFICES ASSUME FrameInv, [Frames!SigNext]_Frames!sigVars PROVE FrameInv'
  OBVIOUS
<1>1. CASE UNCHANGED Frames!sigVars
  BY <1>1 DEF Frames!sigVars, FrameInv, FrameTypeOK, CreateRight, Open, OneCreator
<1>2. CASE Frames!SigNext
  BY <1>2, OutsideKeepsFrames, TrampolineKeepsFrames, CreateKeepsFrames, DestroyKeepsFrames,
     StepsKeepFrames DEF Frames!SigNext
<1> QED BY <1>1, <1>2

\* A context gets its frame once, on its own stack, however many signals there are
\* (Context::create(), context_trampoline()).
THEOREM BootstrapsOnceHolds == ASSUME Orderly PROVE FrameSpec => []Frames!BootstrapsOnce
<1>1. FrameInv => Frames!BootstrapsOnce
  BY DEF FrameInv, CreateRight, OneCreator, Frames!BootstrapsOnce
<1> QED BY <1>1, FrameInvInit, FrameInvNext, PTL DEF FrameSpec

-----------------------------------------------------------------------------
(* Contexts *)

ContextsAreSound == StacksAreSound /\ StacksAreMarked /\ Frames!BootstrapsOnce

\* Contexts are sound: every stack has room for what was asked for, is guarded, marked
\* and freed once, and every context gets its first frame once, on its own stack,
\* whoever sends SIGUSR1 (context_create(), stack_switch(), stack_watermark_init(),
\* Context::create() of sigaltstack.h).
THEOREM ContextsAreSoundHolds ==
  ASSUME Sizable, Orderly PROVE StackSpec /\ FrameSpec => []ContextsAreSound
<1>1. StackSpec => [](StacksAreSound /\ StacksAreMarked)
  BY StacksAreSoundHolds
<1>2. FrameSpec => []Frames!BootstrapsOnce
  BY BootstrapsOnceHolds
<1>3. (StacksAreSound /\ StacksAreMarked) /\ Frames!BootstrapsOnce => ContextsAreSound
  BY DEF ContextsAreSound
<1> QED BY <1>1, <1>2, <1>3, PTL
==============================================================================
