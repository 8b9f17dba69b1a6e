---------------------------- MODULE Transitions -----------------------------
(***************************************************************************)
(* The transition descriptions of zth::fsm (include/libzth/fsm14.h): the   *)
(* expressions "state + guard / action >>= target" of which any part may   *)
(* be left out, and compile(), which turns a list of them into the table   *)
(* that a BasicFsm executes.                                               *)
(*                                                                         *)
(* A line of a description is a record of its parts, as it is written:     *)
(*   st   the state, or NoSymbol                                           *)
(*   gd   the guard: [k |-> "none"], a Guard object [k |-> "guard", g],    *)
(*        a string literal [k |-> "sym", s], or input("s") [k |-> "input", *)
(*        s]; a line without a state has a unary + in front of its guard   *)
(*   ac   the Action object, or "" for none                                *)
(*   tg   the target state, or NoSymbol                                    *)
(***************************************************************************)
EXTENDS SequencesExt, Integers

NoSymbol == ""

valid(symbol) == symbol # NoSymbol

-----------------------------------------------------------------------------
(* The values of the subexpressions *)

Sym(s) == [k |-> "sym", s |-> s]

GuardedAction(guard, input, action) ==
    [k |-> "ga", guard |-> guard, input |-> input, action |-> action]

InputAction(input, action) == GuardedAction("never", input, action)

TransitionStart(state, ga) == [k |-> "ts", s |-> state, ga |-> ga]

invalid_fsm == [k |-> "invalid_fsm"]

\* unary operator+
Plus1(x) == IF x.k = "sym" THEN InputAction(x.s, "nothing") ELSE x

\* Mutant of Divide: an input guard keeps its own action, nothing.
Divide_Nothing(x, a) ==
    CASE x.k = "guard" -> GuardedAction(x.g, NoSymbol, a)
      [] x.k = "sym" -> TransitionStart(x.s, GuardedAction("always", NoSymbol, a))
      [] OTHER -> x

\* operator/ of a guard, an input or a state with the action a.
Divide(x, a) ==
    CASE x.k = "guard" -> GuardedAction(x.g, NoSymbol, a)
      [] x.k = "sym" -> TransitionStart(x.s, GuardedAction("always", NoSymbol, a))
      [] x.k = "ga" /\ valid(x.input) /\ x.action = "nothing" -> InputAction(x.input, a)
      [] OTHER -> invalid_fsm   \* Ambiguous /

\* operator+ of the state with a guard, an input, or both with an action.  As /
\* binds more tightly than +, "a" + "b" / c arrives here with "b" as a state.
Plus(state, x) ==
    CASE x.k = "ga" -> TransitionStart(state, x)
      [] x.k = "guard" -> TransitionStart(state, GuardedAction(x.g, NoSymbol, "nothing"))
      [] x.k = "sym" -> TransitionStart(state, InputAction(x.s, "nothing"))
      [] x.k = "ts" /\ ~valid(x.ga.input) /\ x.ga.guard = "always" ->
            TransitionStart(state, InputAction(x.s, x.ga.action))
      [] OTHER -> invalid_fsm   \* Ambiguous +

\* The conversion of an expression without a state to a TransitionStart.
Start(x) ==
    CASE x.k = "guard" ->
            TransitionStart(NoSymbol, GuardedAction(x.g, NoSymbol, "nothing"))
      [] x.k = "action" ->
            TransitionStart(NoSymbol, GuardedAction("always", NoSymbol, x.a))
      [] x.k = "ga" -> TransitionStart(NoSymbol, x)
      [] OTHER -> x

Transition(start, to) ==
    [from |-> start.s, guard |-> start.ga.guard, input |-> start.ga.input,
     action |-> start.ga.action, to |-> to]

\* operator>>=, and the conversion to a Transition without a target.  A state
\* alone is never left; a state with only a target is left at once.
Arrow(x, to) ==
    IF x.k = "sym"
    THEN Transition(TransitionStart(x.s, GuardedAction("always", NoSymbol, "nothing")), to)
    ELSE Transition(Start(x), to)

NoArrow(x) ==
    IF x.k = "sym"
    THEN Transition(TransitionStart(x.s, GuardedAction("never", NoSymbol, "nothing")), NoSymbol)
    ELSE Transition(Start(x), NoSymbol)

\* The expression of one line, by the precedence of C++: unary +, /, +, >>=.
GuardValue(gd) ==
    IF gd.k = "input" THEN InputAction(gd.s, "nothing") ELSE gd

WithAction(x, ac) == IF ac = "" THEN x ELSE Divide(x, ac)

Line(l) ==
    LET g == GuardValue(l.gd)
        e == CASE valid(l.st) /\ l.gd.k # "none" -> Plus(l.st, WithAction(g, l.ac))
               [] valid(l.st) /\ l.gd.k = "none" -> WithAction(Sym(l.st), l.ac)
               [] ~valid(l.st) /\ l.gd.k # "none" -> WithAction(Plus1(g), l.ac)
               [] OTHER -> [k |-> "action", a |-> l.ac]
    IN  IF valid(l.tg) THEN Arrow(e, l.tg) ELSE NoArrow(e)

-----------------------------------------------------------------------------
(* Transitions::compile() *)

\* The index of the first transition of a state; 0 for no state.
Found(state, l) == ~valid(state) \/ \E i \in DOMAIN l : l[i].from = state

find(state, l) ==
    IF ~valid(state) THEN 0 ELSE SelectInSeq(l, LAMBDA t : t.from = state)

\* prev, when compile() arrives at transition i.
Before(l, i) ==
    LET named == {j \in 1 .. i - 1 : valid(l[j].from)}
    IN  IF named = {} THEN NoSymbol ELSE l[Max(named)].from

StartsState(l, i) == valid(l[i].from) /\ l[i].from # Before(l, i)

Throws(l) ==
    \/ l # <<>> /\ ~valid(l[1].from)             \* First state must be valid
    \/ \E i \in DOMAIN l :
          \/ StartsState(l, i) /\ find(l[i].from, l) # i   \* not contiguous
          \/ ~Found(l[i].to, l)                            \* Target state not found

compile(l) ==
    [i \in 0 .. Len(l) |->
        IF i = 0
        THEN [from |-> NoSymbol, guard |-> IF l = <<>> THEN "never" ELSE "always",
              input |-> NoSymbol, action |-> "nothing", to |-> IF l = <<>> THEN 0 ELSE 1]
        ELSE [l[i] EXCEPT !.from = IF StartsState(l, i) THEN @ ELSE NoSymbol,
                          !.to = find(@, l)]]

\* The transitions that step() looks at in the state with index i, in order.
LastOf(table, i) ==
    LET others == {j \in DOMAIN table : j > i /\ valid(table[j].from)}
    IN  IF others = {} THEN Cardinality(DOMAIN table) - 1 ELSE Min(others) - 1

Scan(table, i) == i .. LastOf(table, i)

-----------------------------------------------------------------------------
(* What a description means, to its reader *)

\* The parts of a line that are written, and the defaults of those that are not.
Meaning(l) ==
    [guard |-> CASE l.gd.k = "guard" -> l.gd.g
                 [] l.gd.k \in {"sym", "input"} -> "never"
                 [] OTHER -> IF l.ac = "" /\ ~valid(l.tg) THEN "never" ELSE "always",
     input |-> IF l.gd.k \in {"sym", "input"} THEN l.gd.s ELSE NoSymbol,
     action |-> IF l.ac = "" THEN "nothing" ELSE l.ac,
     to |-> l.tg]

\* The state that line i belongs to: the last one named.
Owner(lines, i) ==
    lines[Max({j \in 1 .. i : valid(lines[j].st)})].st

Declared(lines) == {lines[i].st : i \in DOMAIN lines} \ {NoSymbol}

WellFormed(lines) ==
    lines # <<>> =>
      /\ valid(lines[1].st)
      /\ \A i \in DOMAIN lines : lines[i].tg \in Declared(lines) \cup {NoSymbol}
      /\ \A i, j, k \in DOMAIN lines :
            i < j /\ j < k /\ Owner(lines, i) = Owner(lines, k)
              => Owner(lines, j) = Owner(lines, i)

LinesOf(lines, state) ==
    SetToSortSeq({i \in DOMAIN lines : Owner(lines, i) = state}, <)

\* The compiled transitions of the state at index i, with the targets by name.
RowsAt(table, i) ==
    [n \in 1 .. LastOf(table, i) - i + 1 |->
        LET t == table[i + n - 1]
        IN  [guard |-> t.guard, input |-> t.input, action |-> t.action,
             to |-> IF t.to = 0 THEN NoSymbol ELSE table[t.to].from]]

\* compile() accepts the well formed descriptions and no others, and step()
\* then looks, in every state, at the lines of that state in the order in which
\* they are written, with the guard, the action and the target that the line
\* shows (fsm14.h: the operators /, + and >>=, compile() and find()).
CompiledAsWritten(lines) ==
    LET l == [i \in DOMAIN lines |-> Line(lines[i])]
        table == compile(l)
    IN  /\ ~Throws(l) <=> WellFormed(lines)
        /\ WellFormed(lines) =>
             /\ \A s \in Declared(lines) :
                   RowsAt(table, find(s, l)) =
                     [n \in DOMAIN LinesOf(lines, s) |-> Meaning(lines[LinesOf(lines, s)[n]])]
             /\ lines # <<>> => table[table[0].to].from = lines[1].st
=============================================================================
