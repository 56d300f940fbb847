------------------------------ MODULE AgNames ------------------------------
(***************************************************************************)
(* Names, ids and shared strings of one root graph (lib/cgraph id.c,       *)
(* imap.c and refstr.c; agsubg, agnode, agedge, agclose and the two        *)
(* deletions where they use them).                                         *)
(*                                                                         *)
(* The id of an object with an ordinary name is the address of the shared, *)
(* reference-counted copy of the name, an even number.  An object without  *)
(* a name, or with a local one, gets the next odd number, and a dictionary *)
(* per type of object, the internal map, links the local name to it.       *)
(*                                                                         *)
(* An operator named Bug... is a wrong version of the one that follows it. *)
(***************************************************************************)
EXTENDS Integers, FiniteSets

CONSTANTS
  Type,        \* types of objects
  Place, Main, \* where names are looked up: the root graph (Main), another
               \* parent of subgraphs, a pair of nodes
  Addr,        \* the addresses strings may have
  Name, Local, \* names, and those that begin with LOCALNAMEPREFIX
  Text, Markup,\* what the client passes to agstrdup and to agstrdup_html
  NULL,
  MaxCtr,      \* bound: ids are not invented past this one
  MaxHeld,     \* bound: uses of one string that the client holds at once
  ClosesAny    \* whether subgraphs are closed while local names are in use

ASSUME NamesAssumption ==
  /\ Type \subseteq {"graph", "node", "edge"}
  /\ Main \in Place
  /\ Addr \subseteq {n \in Nat : n > 0 /\ n % 2 = 0}
  /\ Local \subseteq Name
  /\ NULL \notin Name \cup Text \cup Markup
  /\ MaxCtr \in Nat /\ MaxHeld \in Nat
  /\ ClosesAny \in BOOLEAN

VARIABLES
  s, refcnt, html, \* the fields of refstr_t, with HTML_BIT apart
  ctr,             \* the static counter of idmap
  imap,            \* IMapEntry_t structs in the internal map
  objs,            \* objects, with the name they were given
  held             \* how often the client holds each string, plain and HTML

strings == <<s, refcnt, html>>
vars == <<strings, ctr, imap, objs, held>>

Content == Name \cup Text \cup Markup
Id == Addr \cup {n \in 1 .. MaxCtr + 2 : n % 2 = 1}
Entry == [type : Type, id : Id, str : Addr]
Obj == [type : Type, place : Place, id : Id, given : Name \cup {NULL}]

TypeOK ==
  /\ s \in [Addr -> Content \cup {NULL}]
  /\ refcnt \in [Addr -> Nat]
  /\ html \in [Addr -> BOOLEAN]
  /\ ctr \in Nat /\ ctr % 2 = 1
  /\ imap \subseteq Entry
  /\ objs \subseteq Obj
  /\ held \in [Content -> [plain : 0 .. MaxHeld, html : 0 .. MaxHeld]]

-----------------------------------------------------------------------------
(* refstr.c                                                                *)

Agstrbind(c) == {a \in Addr : s[a] = c}

\* (a copy is made although there is one)
BugCopyAt(c) == {a \in Addr : s[a] = NULL}

\* where agstrdup finds or puts a string
CopyAt(c) == IF Agstrbind(c) # {} THEN Agstrbind(c) ELSE {a \in Addr : s[a] = NULL}

\* (the bit is lost)
BugAgstrdup(c, a, bit) ==
  /\ a \in CopyAt(c)
  /\ s' = [s EXCEPT ![a] = c]
  /\ refcnt' = [refcnt EXCEPT ![a] = @ + 1]
  /\ html' = [html EXCEPT ![a] = FALSE]

\* agstrdup and, with bit, agstrdup_html, that return a
Agstrdup(c, a, bit) ==
  /\ a \in CopyAt(c)
  /\ s' = [s EXCEPT ![a] = c]
  /\ refcnt' = [refcnt EXCEPT ![a] = @ + 1]
  /\ html' = [html EXCEPT ![a] = IF s[a] = NULL THEN bit ELSE @]

\* (the first free deletes the string)
BugAgstrfree(uses) ==
  /\ refcnt' = [a \in Addr |-> IF uses[a] > 0 THEN 0 ELSE refcnt[a]]
  /\ s' = [a \in Addr |-> IF uses[a] > 0 THEN NULL ELSE s[a]]
  /\ UNCHANGED html

\* agstrfree, uses[a] times for every a.  The test "refcnt && CNT_BITS" is true
\* as long as HTML_BIT is set.
Agstrfree(uses) ==
  /\ refcnt' = [a \in Addr |-> refcnt[a] - uses[a]]
  /\ s' = [a \in Addr |->
             IF uses[a] > 0 /\ refcnt[a] = uses[a] /\ ~html[a] THEN NULL ELSE s[a]]
  /\ UNCHANGED html

Once(a) == [x \in Addr |-> IF x = a THEN 1 ELSE 0]

-----------------------------------------------------------------------------
(* id.c and imap.c                                                         *)

\* (one dictionary for all types)
BugLookup(t, n) == {e.id : e \in {x \in imap : s[x.str] = n}}

\* (the internal map is not asked)
BugNoLookup(t, n) == {}

\* aginternalmaplookup
Lookup(t, n) == {e.id : e \in {x \in imap : x.type = t /\ x.str \in Agstrbind(n)}}

\* agmapnametoid without createflag; the id 0 it may store is nobody's
Probe(t, n) == IF n \in Local THEN Lookup(t, n) ELSE Agstrbind(n)

\* A node is looked up in the root graph, whatever graph it is asked of.
PlacesOf(t) == IF t = "node" THEN {Main} ELSE Place

\* The object that agsubg, agnode and agedge find.
Find(t, p, n) == {o \in objs : o.type = t /\ o.place = p /\ o.id \in Probe(t, n)}

\* The object they make.
Enter(t, p, id, n) ==
  objs' = objs \cup {[type |-> t, place |-> p, id |-> id, given |-> n]}

\* with an ordinary name
MakeNamed(t, p, n) ==
  /\ n \notin Local
  /\ Find(t, p, n) = {}
  /\ \E a \in CopyAt(n) : Agstrdup(n, a, FALSE) /\ Enter(t, p, a, n)
  /\ UNCHANGED <<ctr, imap, held>>

\* with a local name that the internal map has for another object of the type
MakeShared(t, p, n) ==
  /\ n \in Local
  /\ Find(t, p, n) = {}
  /\ \E id \in Lookup(t, n) : Enter(t, p, id, n)
  /\ UNCHANGED <<strings, ctr, imap, held>>

\* with a local name that is new to it
MakeLocal(t, p, n) ==
  /\ n \in Local
  /\ Lookup(t, n) = {}
  /\ ctr <= MaxCtr
  /\ ctr' = ctr + 2
  /\ \E a \in CopyAt(n) :
       /\ Agstrdup(n, a, FALSE)
       /\ imap' = imap \cup {[type |-> t, id |-> ctr, str |-> a]}
  /\ Enter(t, p, ctr, n)
  /\ UNCHANGED held

\* without a name
MakeAnonymous(t, p) ==
  /\ ctr <= MaxCtr
  /\ ctr' = ctr + 2
  /\ Enter(t, p, ctr, NULL)
  /\ UNCHANGED <<strings, imap, held>>

\* agfreeid: aginternalmapdelete, then idfree
Agfreeid(t, id) ==
  LET found == {e \in imap : e.type = t /\ e.id = id}
  IN  /\ imap' = imap \ found
      /\ IF id % 2 = 0 THEN Agstrfree(Once(id))
         ELSE IF found # {} THEN \E e \in found : Agstrfree(Once(e.str))
         ELSE UNCHANGED strings

\* agdelnode and agdeledge in the root
Delete(o) ==
  /\ o \in objs
  /\ o.type # "graph"
  /\ objs' = objs \ {o}
  /\ Agfreeid(o.type, o.id)
  /\ UNCHANGED <<ctr, held>>

\* (the id is freed twice)
BugAgcloseTwice(o) ==
  /\ o \in objs
  /\ o.type = "graph"
  /\ ClosesAny \/ imap = {}
  /\ objs' = objs \ {o}
  /\ imap' = {}
  /\ IF o.id % 2 = 0 THEN Agstrfree([a \in Addr |-> 2 * Once(o.id)[a]])
     ELSE UNCHANGED strings
  /\ UNCHANGED <<ctr, held>>

\* agclose of a subgraph: aginternalmapclose, on the map of the whole root,
\* leaves its entries and their strings behind; then agfreeid
Agclose(o) ==
  /\ o \in objs
  /\ o.type = "graph"
  /\ ClosesAny \/ imap = {}
  /\ objs' = objs \ {o}
  /\ imap' = {}
  /\ IF o.id % 2 = 0 THEN Agstrfree(Once(o.id)) ELSE UNCHANGED strings
  /\ UNCHANGED <<ctr, held>>

\* aginternalmapclearlocalnames, when a file has been read
ClearLocalNames ==
  /\ imap # {}
  /\ imap' = {}
  /\ Agstrfree([a \in Addr |-> Cardinality({e \in imap : e.str = a})])
  /\ objs' = {[o EXCEPT !.given = IF @ \in Local THEN NULL ELSE @] : o \in objs}
  /\ UNCHANGED <<ctr, held>>

-----------------------------------------------------------------------------
(* The client's own uses of the strings.                                   *)

ClientDup(c) ==
  /\ held[c].plain < MaxHeld
  /\ \E a \in CopyAt(c) : Agstrdup(c, a, FALSE)
  /\ held' = [held EXCEPT ![c].plain = @ + 1]
  /\ UNCHANGED <<ctr, imap, objs>>

ClientDupHtml(c) ==
  /\ held[c].html < MaxHeld
  /\ \E a \in CopyAt(c) : Agstrdup(c, a, TRUE)
  /\ held' = [held EXCEPT ![c].html = @ + 1]
  /\ UNCHANGED <<ctr, imap, objs>>

ClientFree(c, kind) ==
  /\ held[c][kind] > 0
  /\ \E a \in Agstrbind(c) : Agstrfree(Once(a))
  /\ held' = [held EXCEPT ![c][kind] = @ - 1]
  /\ UNCHANGED <<ctr, imap, objs>>

Init ==
  /\ s = [a \in Addr |-> NULL]
  /\ refcnt = [a \in Addr |-> 0]
  /\ html = [a \in Addr |-> FALSE]
  /\ ctr = 1
  /\ imap = {}
  /\ objs = {}
  /\ held = [c \in Content |-> [plain |-> 0, html |-> 0]]

Make ==
  \E t \in Type : \E p \in PlacesOf(t) :
    \/ MakeAnonymous(t, p)
    \/ \E n \in Name : MakeNamed(t, p, n) \/ MakeShared(t, p, n) \/ MakeLocal(t, p, n)

Unmake == ClearLocalNames \/ \E o \in objs : Delete(o) \/ Agclose(o)

Client ==
  \/ \E c \in Text : ClientDup(c)
  \/ \E c \in Markup : ClientDupHtml(c)
  \/ \E c \in Text \cup Markup, kind \in {"plain", "html"} : ClientFree(c, kind)

Next == Make \/ Unmake \/ Client

Spec == Init /\ [][Next]_vars

-----------------------------------------------------------------------------
(* Properties.                                                             *)

\* agnameof
Agnameof(o) ==
  LET local == {e \in imap : e.type = o.type /\ e.id = o.id}
  IN  IF local # {} THEN s[(CHOOSE e \in local : TRUE).str]
      ELSE IF o.id % 2 = 0 THEN s[o.id]
      ELSE IF o.type = "edge" THEN NULL
      ELSE <<"%", o.id>>

\* A string is there once, as long as an object, an entry of the internal map
\* or the client uses it, and its count is the number of these uses.
StringsCounted ==
  \A a \in Addr :
    LET uses == Cardinality({o \in objs : o.id = a}) + Cardinality({e \in imap : e.str = a})
    IN  IF s[a] = NULL THEN uses = 0 /\ refcnt[a] = 0
        ELSE /\ refcnt[a] = uses + held[s[a]].plain + held[s[a]].html
             /\ Agstrbind(s[a]) = {a}

Answers(o) == Agnameof(o) = o.given /\ Find(o.type, o.place, o.given) = {o}

\* An object answers to the name it was given, and whoever asks for it by this
\* name finds it and no other, whatever became of other objects.  (Not so the
\* key of an edge that is a local name: the code has one id for all edges with
\* that key, and forgets it with the first that is deleted.)
NamesKept ==
  \A o \in objs :
    o.given # NULL /\ ~(o.type = "edge" /\ o.given \in Local) => Answers(o)

\* Two objects in one place have different names.
NamesUnique ==
  \A o, x \in objs :
    o # x /\ o.type = x.type /\ o.place = x.place /\ Agnameof(o) # NULL
      => Agnameof(o) # Agnameof(x)

\* A string is gone when every use of it has been freed.
StringsFreed == \A a \in Addr : s[a] # NULL => refcnt[a] > 0

\* aghtmlstr says of a string what the client asked for.
HtmlHonoured ==
  \A a \in Addr : s[a] # NULL =>
    /\ held[s[a]].html > 0 => html[a]
    /\ held[s[a]].plain > 0 => ~html[a]
=============================================================================
