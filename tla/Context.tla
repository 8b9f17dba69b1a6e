------------------------------- MODULE Context -------------------------------
(***************************************************************************)
(* Contexts and their stacks (src/context.cpp, include/libzth/context/     *)
(* context.h, with ucontext.h, sjlj.h and arch_arm.h): the stack of a      *)
(* context is allocated, aligned, guarded and filled with watermarks; a    *)
(* context is switched to, may call a function on a stack of the user, and *)
(* is destroyed.                                                           *)
(*                                                                         *)
(* The allocator gives every context a block of memory of its own.  An     *)
(* address is an offset in the block, and offset 0 is page aligned.        *)
(* Registers and the jump itself are left out.                             *)
(***************************************************************************)
EXTENDS Integers, Sequences

CONSTANTS Contexts, worker,   \* the contexts of fibers, and the one of the worker, without stack
          pageSize, MINSIGSTKSZ,
          Word,               \* sizeof(size_t), and of a watermark
          Sizes,              \* the stack sizes that fibers ask for
          Bases,              \* where in its block the allocator puts a stack
          UserSizes,          \* the sizes of the stack of the user
          Failures,           \* what may fail: "alloc", "guard", "arch"
          nullptr

VARIABLES build,     \* what guards a stack: "mman", "mpu", or "none"
          ctx,       \* every context
          memory,    \* what is allocated: the blocks of these contexts
          current,   \* the context that runs
          mpu,       \* the page that the MPU guards: a context's, the user's, or none
          user       \* the stack of the user

contextVars == <<build, ctx, memory, current, mpu, user>>

RoundUp(n, to) == ((n + to - 1) \div to) * to

RoundDown(n, to) == (n \div to) * to

NoGuard == <<nullptr, 0>>

\* The pages of a stack that are never used.
GuardPages == CASE build = "mman" -> 2 [] build = "mpu" -> 1 [] build = "none" -> 0

calcStackSize(size) == size + MINSIGSTKSZ + GuardPages * pageSize

\* Mutant of stackSize: there is no page to align the stack in.
stackSize_Tight(size) == RoundUp(calcStackSize(size), pageSize)

\* What initStack() allocates.
stackSize(size) == RoundUp(calcStackSize(size), pageSize) + pageSize

\* What stackAlign() leaves of the allocated stack.
stackAlign(p, size) ==
    LET new  == RoundUp(p, pageSize)
        left == RoundDown(size - (new - p), pageSize)
    IN  [p |-> new + (IF build = "none" THEN 0 ELSE pageSize),
         size |-> left - GuardPages * pageSize]

\* stack_watermark_align(): where the size is stored; the marks follow.
sizeptr(p) == RoundUp(p, Word)

\* The size that stack_watermark_init() stores.
stack_watermark_size(stack) == stack.size - (sizeptr(stack.p) + Word - stack.p)

\* The words that are still marked, when nothing under address low has been
\* written.
unused(stack, low) ==
    LET words == stack_watermark_size(stack) \div Word
        clean == (low - sizeptr(stack.p) - Word) \div Word
    IN  IF clean < words THEN clean ELSE words

stack_watermark_maxused(stack, low) ==
    stack_watermark_size(stack) - unused(stack, low) * Word

stack_watermark_remaining(stack, low) ==
    stack_watermark_size(stack) - stack_watermark_maxused(stack, low)

\* Nothing of a stack has been used.
Top(stack) == stack.p + stack.size

NoContext ==
    [state |-> "none", asked |-> 0, stack |-> [p |-> 0, size |-> 0],
     usable |-> [p |-> 0, size |-> 0], low |-> 0, guard |-> NoGuard, calls |-> <<>>]

ContextInit ==
    /\ build \in {"mman", "mpu", "none"}
    /\ ctx = [c \in Contexts \cup {worker} |->
                  IF c = worker THEN [NoContext EXCEPT !.state = "entered"] ELSE NoContext]
    /\ memory = {}
    /\ current = worker
    /\ mpu = NoGuard
    /\ \E p \in Bases, size \in UserSizes :
          user = [p |-> p, size |-> size, low |-> p + size]

\* initStack(), for a block where the allocator puts the stack at p.
initStack(c, asked, p) ==
    LET stack  == [p |-> p, size |-> stackSize(asked)]
        usable == stackAlign(p, stack.size)
    IN  [NoContext EXCEPT !.state = "ready", !.asked = asked, !.stack = stack,
                          !.usable = usable, !.low = Top(usable),
                          !.guard = IF build = "mpu" THEN <<c, usable.p - pageSize>> ELSE NoGuard]

\* context_create().  Nothing is left when the stack cannot be allocated, or
\* cannot be guarded.  A create() of ucontext.h that fails after that leaves the
\* stack behind.
context_create(c, asked, p) ==
    /\ ctx[c].state = "none" /\ c \notin memory
    /\ \/ /\ ctx' = [ctx EXCEPT ![c] = initStack(c, asked, p)]
          /\ memory' = memory \cup {c}
       \/ \E f \in Failures :
             /\ f = "guard" => build = "mman"
             /\ memory' = IF f = "arch" THEN memory \cup {c} ELSE memory
             /\ UNCHANGED ctx
    /\ UNCHANGED <<build, current, mpu, user>>

\* Mutant of context_switch: the guard stays where it is.
context_switch_Keeps(to) ==
    /\ to # current /\ ctx[to].state \in {"ready", "entered"}
    /\ ctx' = [ctx EXCEPT ![to].state = "entered"]
    /\ current' = to
    /\ UNCHANGED <<build, memory, mpu, user>>

\* context_switch(): the other context goes on after its own context_switch(),
\* or starts in context_entry(), and sets its guard.
context_switch(to) ==
    /\ to # current /\ ctx[to].state \in {"ready", "entered"}
    /\ ctx' = [ctx EXCEPT ![to].state = "entered"]
    /\ current' = to
    /\ mpu' = ctx[to].guard
    /\ UNCHANGED <<build, memory, user>>

\* The end of context_entry(): the context dies, and yields to another one.
die(to) ==
    /\ current # worker /\ ctx[current].calls = <<>>
    /\ to # current /\ ctx[to].state \in {"ready", "entered"}
    /\ ctx' = [ctx EXCEPT ![current].state = "dead", ![to].state = "entered"]
    /\ current' = to
    /\ mpu' = ctx[to].guard
    /\ UNCHANGED <<build, memory, user>>

\* context_destroy(), by the worker or another fiber.
context_destroy(c) ==
    /\ c \notin {current, worker} /\ ctx[c].state # "none"
    /\ ctx' = [ctx EXCEPT ![c] = NoContext]
    /\ memory' = memory \ {c}
    /\ UNCHANGED <<build, current, mpu, user>>

\* The guard in a stack of the user, when it is large enough.
userGuard == <<"user", RoundDown(user.p + 2 * pageSize - 1, pageSize)>>

\* Only one context is in the stack of the user at a time.
Switched == {c \in Contexts : ctx[c].calls # <<>>}

\* stack_switch() to the stack of the user.
stack_switch ==
    /\ build = "mpu" /\ current # worker /\ Switched = {}
    /\ LET guards == user.size >= 2 * pageSize
           new    == IF guards THEN userGuard ELSE ctx[current].guard
       IN  /\ ctx' = [ctx EXCEPT ![current].guard = new,
                                 ![current].calls =
                                     <<IF guards THEN ctx[current].guard ELSE NoGuard>>]
           /\ mpu' = new
    /\ UNCHANGED <<build, memory, current, user>>

\* Its return.
stack_switchEnd ==
    /\ current \in Switched
    /\ LET prev == Head(ctx[current].calls)
           new  == IF prev = NoGuard THEN ctx[current].guard ELSE prev
       IN  /\ ctx' = [ctx EXCEPT ![current].guard = new, ![current].calls = <<>>]
           /\ mpu' = new
    /\ UNCHANGED <<build, memory, current, user>>

\* The context that runs uses its stack, or the one of the user, down to some
\* address.
Use ==
    /\ current # worker
    /\ IF current \in Switched
       THEN /\ \E a \in sizeptr(user.p) + Word .. user.low - 1 : user' = [user EXCEPT !.low = a]
            /\ UNCHANGED ctx
       ELSE /\ \E a \in sizeptr(ctx[current].usable.p) + Word .. ctx[current].low - 1 :
                  ctx' = [ctx EXCEPT ![current].low = a]
            /\ UNCHANGED user
    /\ UNCHANGED <<build, memory, current, mpu>>

ContextNext ==
    \/ \E c \in Contexts, size \in Sizes, p \in Bases : context_create(c, size, p)
    \/ \E c \in Contexts \cup {worker} : context_switch(c) \/ die(c) \/ context_destroy(c)
    \/ stack_switch \/ stack_switchEnd \/ Use

-----------------------------------------------------------------------------
(* Properties *)

\* The usable stack of a context is aligned, is as large as what was asked for,
\* and lies with the pages that guard it in what was allocated.
StackFits(c) ==
    LET s == ctx[c].stack
        u == ctx[c].usable
    IN  /\ u.p % pageSize = 0 /\ u.size >= ctx[c].asked + MINSIGSTKSZ
        /\ u.p - (IF build = "none" THEN 0 ELSE pageSize) >= s.p
        /\ Top(u) + (IF build = "mman" THEN pageSize ELSE 0) <= Top(s)

\* The first word that a function on the stack of the user writes.
UserTop == RoundDown(Top(user), Word) - Word

\* A stack has room for what was asked for, is guarded, and is freed once: the
\* usable part and its guards are inside of the allocated memory, memory is
\* allocated for exactly the contexts that exist, and the MPU guards the context
\* that runs and no memory that has been freed or is the top of the stack in use
\* (context_create(), stackAlign(), context_switch(), stack_switch()).
StacksAreSound ==
    /\ memory = {c \in Contexts : ctx[c].state # "none"}
    /\ \A c \in memory : StackFits(c)
    /\ mpu = ctx[current].guard
    /\ mpu # NoGuard => mpu[1] = current \/ (mpu[1] = "user" /\ current \in Switched)
    /\ mpu[1] = "user" => mpu[2] >= user.p /\ mpu[2] + pageSize <= UserTop

\* The high water mark of a stack is right: what was used at most, rounded up to
\* a word, and never less (stack_watermark_init(), stack_watermark_maxused()).
WatermarkIsTight(stack, low) ==
    LET used == Top(stack) - low
    IN  /\ stack_watermark_maxused(stack, low) >= used
        /\ stack_watermark_maxused(stack, low) < used + Word
        /\ stack_watermark_remaining(stack, low) >= 0

StacksAreMarked ==
    /\ \A c \in memory : WatermarkIsTight(ctx[c].usable, ctx[c].low)
    /\ WatermarkIsTight(user, user.low)
==============================================================================
