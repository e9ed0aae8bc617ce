------------------------------- MODULE LogRecord -------------------------------
(***************************************************************************)
(* tools/logs: how LogHandler.Handle arranges the attributes collected by  *)
(* WithAttrs and WithGroup, and the record's own, into a record's Data.    *)
(* It walks the collected list backwards, keeps attributes on a stack      *)
(* (tools/stack) and empties the stack into a map at every group.  The     *)
(* walk is modelled element by element; what it makes is compared with a   *)
(* definition of where each attribute belongs.                             *)
(***************************************************************************)
EXTENDS Integers, Sequences

CONSTANTS
  Groups,       \* names of groups
  Attrs,        \* keys of attributes, which are no names of groups
  AttrLists,    \* the lists of keys that WithAttrs and records are given
  MaxCalls      \* bound on the calls of WithAttrs and WithGroup

\* The empty name: an element of the list that is no group.
NoGroup == ""

ASSUME RecordAssumption ==
  /\ MaxCalls \in Nat /\ NoGroup \notin Groups
  /\ AttrLists \subseteq Seq(Attrs) \ {<<>>}

VARIABLES
  goas,        \* groups of the handler, oldest first
  own,         \* what the record being handled adds: its source, its attributes
  handling,    \* idle, walking, logged: where Handle is
  rest,        \* elements of goas the loop has still to visit
  stack,       \* attributes waiting for their group
  grouped,     \* the groups' maps in the record's Data
  plain        \* what is in Data outside of any group

recordVars == <<goas, own, handling, rest, stack, grouped, plain>>

SourceKey == "source"

\* An attribute is its key and a value, here its place: the element of the list that
\* brought it and its number in there.
Attr(k, i, n) == [key |-> k, at |-> i, nr |-> n]
Listed(keys, i) == [n \in DOMAIN keys |-> Attr(keys[n], i, n)]
Hole == [group |-> NoGroup, attrs |-> <<>>]
WithGroup(g) == [group |-> g, attrs |-> <<>>]
WithAttrs(s) == [group |-> NoGroup, attrs |-> s]

Attributes == [key : Attrs \cup {SourceKey}, at : Nat, nr : Nat]
Nothing == [k \in {} |-> 0]

RecordTypeOK ==
  /\ goas \in Seq([group : Groups \cup {NoGroup}, attrs : Seq(Attributes)])
  /\ Len(goas) <= 2 * MaxCalls
  /\ own \in Seq(Attributes) /\ stack \in Seq(Attributes)
  /\ handling \in {"idle", "walking", "logged"} /\ rest \in 0 .. Len(goas)
  /\ DOMAIN grouped \subseteq Groups /\ DOMAIN plain \subseteq Attrs \cup {SourceKey}

RecordInit ==
  /\ goas = <<>> /\ own = <<>>
  /\ handling = "idle" /\ rest = 0 /\ stack = <<>>
  /\ grouped = Nothing /\ plain = Nothing

\* withGroupAttrs allocates one element too many before it appends its parameter.
Derived(param) ==
  /\ handling # "walking" /\ Len(goas) < 2 * MaxCalls
  /\ goas' = goas \o <<Hole, param>>
  /\ own' = <<>> /\ handling' = "idle" /\ rest' = 0 /\ stack' = <<>>
  /\ grouped' = Nothing /\ plain' = Nothing

DeriveGroup(g) == Derived(WithGroup(g))

DeriveAttrs(keys) == Derived(WithAttrs(Listed(keys, Len(goas) + 2)))

-------------------------------------------------------------------------------
(* Handle.                                                                    *)

\* How much of the list is left when the groups at its end are dropped.
Trimmed ==
  CHOOSE n \in 0 .. Len(goas) :
    /\ n = 0 \/ goas[n].group = NoGroup
    /\ \A i \in n + 1 .. Len(goas) : goas[i].group # NoGroup

\* A record comes with the attributes keys, and with its source if AddSource says so;
\* without attributes, empty groups at the end of the list are dropped.
HandleRecord(keys, source) ==
  /\ handling # "walking"
  /\ own' = Listed(source \o keys, Len(goas) + 1)
  /\ rest' = IF keys = <<>> THEN Trimmed ELSE Len(goas)
  /\ handling' = "walking" /\ stack' = <<>>
  /\ grouped' = Nothing /\ plain' = Nothing
  /\ UNCHANGED goas

\* Mutant: attributes leave the stack in the order they were pushed.
PopByLength_Fifo(s) == s

\* Everything on the stack, the last first.
PopByLength(s) == [i \in 1 .. Len(s) |-> s[Len(s) + 1 - i]]

\* appendAttr for each of them: a later one replaces an earlier one of the same key.
AppendAttrs(m, s) ==
  [k \in DOMAIN m \cup {s[i].key : i \in DOMAIN s} |->
     IF \E i \in DOMAIN s : s[i].key = k
     THEN s[CHOOSE i \in DOMAIN s :
              s[i].key = k /\ \A j \in DOMAIN s : s[j].key = k => j <= i]
     ELSE m[k]]

\* The loop meets a group: it gets what is on the stack, in a map of its own.
VisitGroup ==
  /\ handling = "walking" /\ rest > 0 /\ goas[rest].group # NoGroup
  /\ grouped' = [g \in DOMAIN grouped \cup {goas[rest].group} |->
                   IF g = goas[rest].group THEN AppendAttrs(Nothing, PopByLength(stack))
                                           ELSE grouped[g]]
  /\ stack' = <<>> /\ rest' = rest - 1
  /\ UNCHANGED <<goas, own, handling, plain>>

\* The loop meets attributes, or a hole, and pushes what there is.
VisitAttrs ==
  /\ handling = "walking" /\ rest > 0 /\ goas[rest].group = NoGroup
  /\ stack' = stack \o goas[rest].attrs /\ rest' = rest - 1
  /\ UNCHANGED <<goas, own, handling, grouped, plain>>

\* After the loop: what is left on the stack is in no group, and the record's source
\* and its own attributes come last, also outside of any group.
FinishRecord ==
  /\ handling = "walking" /\ rest = 0
  /\ plain' = AppendAttrs(AppendAttrs(Nothing, PopByLength(stack)), own)
  /\ stack' = <<>> /\ handling' = "logged"
  /\ UNCHANGED <<goas, own, rest, grouped>>

RecordNext ==
  \/ \E g \in Groups : DeriveGroup(g)
  \/ \E keys \in AttrLists : DeriveAttrs(keys)
  \/ \E keys \in AttrLists \cup {<<>>}, source \in {<<>>, <<SourceKey>>} :
       HandleRecord(keys, source)
  \/ VisitGroup
  \/ VisitAttrs
  \/ FinishRecord

RecordSpec == RecordInit /\ [][RecordNext]_recordVars

-------------------------------------------------------------------------------
Elements(s) == {s[n] : n \in DOMAIN s}

\* In the list s, the attributes that belong to the group at element h, or outside of
\* any group for h = 0: those after it and before the next group.
Section(s, h) ==
  {a \in UNION {Elements(s[i].attrs) : i \in DOMAIN s} :
     a.at > h /\ \A i \in h + 1 .. a.at : s[i].group = NoGroup}

\* Which of two attributes with one key shows: the later call's, of one call's the
\* first, and of the record's own, which come after all calls, the last.
Beats(s, a, b) ==
  \/ a.at > b.at
  \/ a.at = b.at /\ IF a.at > Len(s) THEN a.nr > b.nr ELSE a.nr < b.nr

\* Map m is what the attributes S amount to: each key, with the attribute that shows.
Shows(s, m, S) ==
  /\ DOMAIN m = {a.key : a \in S}
  /\ \A k \in DOMAIN m :
       /\ m[k] \in S /\ m[k].key = k
       /\ \A b \in S : b.key = k => b = m[k] \/ Beats(s, m[k], b)

\* Element h opens a group, and no element in from .. h - 1 opens one of that name.
FirstFrom(s, from, h) ==
  s[h].group # NoGroup /\ \A i \in from .. h - 1 : s[i].group # s[h].group

\* Every attribute a handler collected shows in its records under the last group
\* opened before it, and of several with one key the latest call's does (of one
\* call's, the first).  When a group is opened again under the same name, what is
\* collected in it is lost: the first one's map is the one that stays.  The record's
\* own attributes are outside of all groups and replace what was collected there.
\* Nothing else shows (Handle, appendAttr, Stack.PopByLength).
DataAsCollected ==
  handling = "logged" =>
    /\ \A h \in DOMAIN goas : goas[h].group # NoGroup /\ Section(goas, h) # {} =>
         goas[h].group \in DOMAIN grouped
    /\ \A g \in DOMAIN grouped : \E h \in DOMAIN goas :
         /\ FirstFrom(goas, 1, h) /\ goas[h].group = g
         /\ Shows(goas, grouped[g], Section(goas, h))
    /\ Shows(goas, plain, Section(goas, 0) \cup Elements(own))
===============================================================================
