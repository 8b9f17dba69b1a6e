----------------------------- MODULE UniqueID ------------------------------
(***************************************************************************)
(* zth::UniqueID, zth::NamedUniqueID, zth::Singleton and zth::cow_string   *)
(* (include/libzth/util.h): objects with a number and a name, of which the *)
(* text is made when it is asked for and kept until the name changes; the  *)
(* first of them is registered as the instance of its class; and strings   *)
(* that point at a text of somebody else until they are changed.           *)
(***************************************************************************)
EXTENDS Naturals

CONSTANTS Instance, \* objects
          Name,     \* names, which are not empty
          Cow,      \* cow_strings
          Literal,  \* texts in constant memory
          MaxId,    \* bound on m_nextId
          nullptr

VARIABLES obj,       \* m_id, m_name and m_id_str of every object, or nullptr
          nextId,    \* m_nextId
          instance,  \* Singleton::m_instance
          cow,       \* m_cstr and m_str of every cow_string
          text       \* what every cow_string was given

idVars == <<obj, nextId, instance, cow, text>>

Empty == <<>>

\* The text of id_str(), which no other name or number gives.
Formatted(name, id) == <<"id", name, id>>

Constant(l) == <<"literal", l>>

\* What operator[] writes in a text.
Changed(t) == <<"changed", t>>

IdInit ==
    /\ obj = [o \in Instance |-> nullptr]
    /\ nextId = 0
    /\ instance = nullptr
    /\ cow = [c \in Cow |-> [cstr |-> nullptr, str |-> Empty]]
    /\ text = [c \in Cow |-> Empty]

Exists(o) == obj[o] # nullptr

\* Whoever has the text of str() of an object does not use it when that changes.
NotPointedAt(o) == \A c \in Cow : cow[c].cstr # o

-----------------------------------------------------------------------------
(* Objects *)

\* The constructor, with getID(); and the one of Singleton.
Construct(o, name) ==
    /\ ~Exists(o) /\ nextId < MaxId
    /\ nextId' = nextId + 1
    /\ obj' = [obj EXCEPT ![o] = [id |-> nextId + 1, name |-> name, idstr |-> Empty]]
    /\ instance' = IF instance = nullptr THEN o ELSE instance
    /\ UNCHANGED <<cow, text>>

Destruct(o) ==
    /\ Exists(o) /\ NotPointedAt(o)
    /\ obj' = [obj EXCEPT ![o] = nullptr]
    /\ instance' = IF instance = o THEN nullptr ELSE instance
    /\ UNCHANGED <<nextId, cow, text>>

\* Mutant of Renamed: the text stays.
Renamed_Keeps(r, name) == [r EXCEPT !.name = name]

Renamed(r, name) == [r EXCEPT !.name = name, !.idstr = Empty]

setName(o, name) ==
    /\ Exists(o) /\ NotPointedAt(o)
    /\ obj' = [obj EXCEPT ![o] = Renamed(@, name)]
    /\ UNCHANGED <<nextId, instance, cow, text>>

\* The assignment of an rvalue takes the number.  The name and the text are copied,
\* as NamedUniqueID has a destructor and therefore no move assignment.
Move(o, u) ==
    /\ Exists(o) /\ Exists(u) /\ o # u /\ NotPointedAt(o)
    /\ obj' = [obj EXCEPT ![o] = obj[u], ![u].id = 0]
    /\ UNCHANGED <<nextId, instance, cow, text>>

id_str(r) ==
    [r EXCEPT !.idstr = IF @ = Empty THEN Formatted(r.name, r.id) ELSE @]

-----------------------------------------------------------------------------
(* Strings *)

\* What c_str() points at.
c_str(w) ==
    IF w.cstr = nullptr THEN w.str
    ELSE IF w.cstr \in Instance THEN obj[w.cstr].idstr ELSE Constant(w.cstr)

local(w) == [cstr |-> nullptr, str |-> c_str(w)]

Becomes(c, w, t) ==
    /\ cow' = [cow EXCEPT ![c] = w]
    /\ text' = [text EXCEPT ![c] = t]
    /\ UNCHANGED <<nextId, instance>>

\* c = str(o): c points at the text of o.
AssignId(c, o) ==
    /\ Exists(o)
    /\ obj' = [obj EXCEPT ![o] = id_str(@)]
    /\ Becomes(c, [cstr |-> o, str |-> Empty], id_str(obj[o]).idstr)

AssignLiteral(c, l) ==
    Becomes(c, [cstr |-> l, str |-> Empty], Constant(l)) /\ UNCHANGED obj

\* Both pointers are copied; the same for an rvalue, of which m_str is emptied.
Assign(c, d) == Becomes(c, cow[d], text[d]) /\ UNCHANGED obj

MoveString(c, d) ==
    /\ c # d
    /\ cow' = [cow EXCEPT ![c] = cow[d], ![d].str = Empty]
    /\ text' = [text EXCEPT ![c] = text[d],
                            ![d] = IF cow[d].cstr = nullptr THEN Empty ELSE text[d]]
    /\ UNCHANGED <<obj, nextId, instance>>

\* str(), size(), length() and at() give c a text of its own, without changing it.
Localize(c) == Becomes(c, local(cow[c]), text[c]) /\ UNCHANGED obj

\* operator[] of a string that is not const.
Write(c) ==
    /\ text[c] # Empty /\ text[c][1] # "changed"
    /\ Becomes(c, [cstr |-> nullptr, str |-> Changed(local(cow[c]).str)], Changed(text[c]))
    /\ UNCHANGED obj

Clear(c) == Becomes(c, [cstr |-> nullptr, str |-> Empty], Empty) /\ UNCHANGED obj

IdNext ==
    \/ \E o \in Instance, n \in Name : Construct(o, n) \/ setName(o, n)
    \/ \E o, u \in Instance : Move(o, u)
    \/ \E o \in Instance : Destruct(o)
    \/ \E c \in Cow : Localize(c) \/ Write(c) \/ Clear(c)
    \/ \E c \in Cow, o \in Instance : AssignId(c, o)
    \/ \E c \in Cow, l \in Literal : AssignLiteral(c, l)
    \/ \E c, d \in Cow : Assign(c, d) \/ MoveString(c, d)

-----------------------------------------------------------------------------
(* Properties *)

\* Numbers are unique among the objects that have one (not 0, as a moved object
\* has); the text kept in such an object is that of its number and of its present
\* name, through every setName() and every move; the instance of the class exists;
\* and a cow_string has the text it was given, whatever is done to its copies.
IdsAreCurrent ==
    /\ \A o \in Instance : Exists(o) /\ obj[o].id # 0 =>
          /\ \A u \in Instance \ {o} : Exists(u) => obj[u].id # obj[o].id
          /\ obj[o].idstr \in {Empty, Formatted(obj[o].name, obj[o].id)}
    /\ instance # nullptr => Exists(instance)
    /\ \A c \in Cow : c_str(cow[c]) = text[c]
=============================================================================
