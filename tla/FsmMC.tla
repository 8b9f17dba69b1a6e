------------------------------- MODULE FsmMC --------------------------------
(***************************************************************************)
(* The descriptions for the model checker: a machine with two nested       *)
(* subroutines, timeouts and inputs, a machine without transitions, and    *)
(* all short listings over two states, in every way to write a line.       *)
(***************************************************************************)
EXTENDS Fsm

L(st, gd, ac, tg) == [st |-> st, gd |-> gd, ac |-> ac, tg |-> tg]

NoGuard == [k |-> "none"]

Guard(g) == [k |-> "guard", g |-> g]

InputOf(s) == [k |-> "input", s |-> s]

Subroutines ==
    << L("a", Guard("popped"),     "",        "b"),
       L("",  Guard("always"),     "push",    "x"),
       L("b", Sym("i"),            "consume", "a"),
       L("",  Guard("ready"),      "stop",    ""),
       L("",  Guard("timeout_2"),  "",        "a"),
       L("x", Guard("entry"),      "",        ""),
       L("",  Guard("ready"),      "push",    "y"),
       L("",  Guard("timeout_1"),  "pop",     ""),
       L("y", Guard("entry"),      "unready", ""),
       L("",  InputOf("i"),        "consume", ""),
       L("",  Guard("timeout_1"),  "pop",     "") >>

MCPrograms == {Subroutines, <<>>}

Parts ==
    {L(st, gd, ac, tg) :
       st \in {"a", "b", NoSymbol},
       gd \in {NoGuard, Guard("ready"), Sym("i"), InputOf("i")},
       ac \in {"", "stop"},
       tg \in {"a", "b", NoSymbol}}

\* A line of which all parts are left out is not an expression.
Lines == Parts \ {L(NoSymbol, NoGuard, "", tg) : tg \in {"a", "b", NoSymbol}}

Short == {L(st, NoGuard, "stop", tg) : st \in {"a", "b", NoSymbol}, tg \in {"b", NoSymbol}}

MCListings ==
    {<<>>} \cup UNION {[1 .. n -> Lines] : n \in 1 .. 2} \cup [1 .. 4 -> Short]
=============================================================================
