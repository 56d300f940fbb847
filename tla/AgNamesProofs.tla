--------------------------- MODULE AgNamesProofs ---------------------------
(* Proofs about AgNames, for a client that closes no subgraph while local   *)
(* names are in use (aginternalmapclose empties the map of the whole root). *)
EXTENDS AgNames, FiniteSetTheorems, TLAPS

-----------------------------------------------------------------------------
(* The inductive invariant.                                                *)

Holders(a) == {o \in objs : o.id = a}
Entries(a) == {e \in imap : e.str = a}
Uses(a) == Cardinality(Holders(a)) + Cardinality(Entries(a))
HeldOf(c) == held[c].plain + held[c].html

\* Invented ids are those of no other object, past or present.
Fresh ==
  /\ \A o \in objs : o.id \notin Addr => o.id < ctr
  /\ \A e \in imap : e.id \notin Addr /\ e.id < ctr

\* The id of an object is its name, or is linked to it by the internal map.
Named ==
  /\ \A o \in objs : o.id \in Addr => s[o.id] = o.given /\ o.given \notin Local \cup {NULL}
  /\ \A o \in objs : o.id \notin Addr => o.given \in Local \cup {NULL}
  /\ \A o \in objs, e \in imap : e.type = o.type /\ e.id = o.id => s[e.str] = o.given
  /\ \A o \in objs : o.given \in Local /\ o.type # "edge" =>
       \E e \in imap : e.type = o.type /\ e.id = o.id

\* The internal map links one name of a type to one id and back.
Linked ==
  /\ \A e \in imap : s[e.str] \in Local
  /\ \A e, f \in imap : e.id = f.id => e = f
  /\ \A e, f \in imap : e.type = f.type /\ e.str = f.str => e = f

Distinct ==
  /\ \A o, x \in objs : o.type = x.type /\ o.place = x.place /\ o.id = x.id => o = x
  /\ \A o \in objs : o.place \in PlacesOf(o.type)

Single == \A a, b \in Addr : s[a] = s[b] /\ s[a] # NULL => a = b

Counted ==
  /\ \A a \in Addr : s[a] = NULL => refcnt[a] = 0 /\ Uses(a) = 0
  /\ \A a \in Addr : s[a] # NULL => refcnt[a] = Uses(a) + HeldOf(s[a])
  /\ \A c \in Content : Agstrbind(c) = {} => HeldOf(c) = 0

Finite == IsFiniteSet(objs) /\ IsFiniteSet(imap)

Inv == TypeOK /\ Fresh /\ Named /\ Linked /\ Distinct /\ Single /\ Counted /\ Finite

-----------------------------------------------------------------------------
(* Ids and sets.                                                           *)

LEMMA Parity ==
  ASSUME TypeOK
  PROVE  /\ \A id \in Id : id \in Nat /\ (id \in Addr <=> id % 2 = 0)
         /\ ctr \notin Addr /\ ctr \in Nat /\ (ctr + 2) % 2 = 1
         /\ \A id \in Id : id # 0
         /\ ctr <= MaxCtr => ctr \in Id
<1>1. \A a \in Addr : a \in Nat /\ a > 0 /\ a % 2 = 0
  BY NamesAssumption DEF NamesAssumption
<1>2. MaxCtr \in Nat
  BY NamesAssumption DEF NamesAssumption
<1>3. \A i \in 1 .. MaxCtr + 2 : i \in Nat /\ i # 0
  BY <1>2
<1>4. ctr \in Nat /\ ctr % 2 = 1
  BY DEF TypeOK
<1>5. ctr \notin Addr /\ (ctr + 2) % 2 = 1 /\ ctr # 0
  BY <1>1, <1>4
<1>6. \A id \in Id : id \in Nat /\ (id \in Addr <=> id % 2 = 0) /\ id # 0
  BY <1>1, <1>3 DEF Id
<1>7. ctr <= MaxCtr => ctr \in Id
  BY <1>2, <1>4, <1>5 DEF Id
<1> QED BY <1>4, <1>5, <1>6, <1>7

LEMMA Counts ==
  ASSUME Finite, NEW a
  PROVE  /\ IsFiniteSet(Holders(a)) /\ IsFiniteSet(Entries(a))
         /\ Cardinality(Holders(a)) \in Nat /\ Cardinality(Entries(a)) \in Nat
         /\ Uses(a) \in Nat
<1>1. Holders(a) \in SUBSET objs /\ Entries(a) \in SUBSET imap
  BY DEF Holders, Entries
<1>2. IsFiniteSet(Holders(a)) /\ IsFiniteSet(Entries(a))
  BY <1>1, FS_Subset DEF Finite
<1> QED BY <1>2, FS_CardinalityType DEF Uses

\* No use, no user.
LEMMA Unused ==
  ASSUME Finite, NEW a, Uses(a) = 0
  PROVE  (\A o \in objs : o.id # a) /\ (\A e \in imap : e.str # a)
<1>1. Cardinality(Holders(a)) = 0 /\ Cardinality(Entries(a)) = 0
  BY Counts DEF Uses
<1>2. Holders(a) = {} /\ Entries(a) = {}
  BY <1>1, Counts, FS_EmptySet
<1> QED BY <1>2 DEF Holders, Entries

LEMMA Bound ==
  ASSUME Inv
  PROVE  /\ \A c \in Content : c # NULL
         /\ \A a \in Addr : s[a] \in Content \cup {NULL}
         /\ \A c \in Content : HeldOf(c) \in Nat /\ held[c].plain \in Nat /\ held[c].html \in Nat
         /\ \A a \in Addr : refcnt[a] \in Nat
         /\ \A a \in Addr : Uses(a) \in Nat
<1>1. \A c \in Content : c # NULL
  BY NamesAssumption DEF NamesAssumption, Content
<1>2. \A c \in Content : held[c].plain \in Nat /\ held[c].html \in Nat
  <2>1. MaxHeld \in Nat
    BY NamesAssumption DEF NamesAssumption
  <2> QED BY <2>1 DEF Inv, TypeOK
<1>3. \A a \in Addr : Uses(a) \in Nat
  BY Counts DEF Inv
<1> QED BY <1>1, <1>2, <1>3 DEF Inv, TypeOK, HeldOf

-----------------------------------------------------------------------------
(* The two operations on strings.                                          *)

LEMMA DupIs ==
  ASSUME Inv, NEW c \in Content, NEW a, NEW bit \in BOOLEAN, Agstrdup(c, a, bit)
  PROVE  /\ a \in Addr /\ s'[a] = c /\ refcnt'[a] = refcnt[a] + 1
         /\ \A b \in Addr : b # a => s'[b] = s[b] /\ refcnt'[b] = refcnt[b] /\ html'[b] = html[b]
         /\ s[a] = NULL \/ s[a] = c
         /\ s[a] = NULL => html'[a] = bit
         /\ s[a] = c => html'[a] = html[a]
         /\ \A b \in Addr : s[b] = c => b = a
         /\ refcnt[a] = Uses(a) + HeldOf(c)
         /\ s' \in [Addr -> Content \cup {NULL}] /\ refcnt' \in [Addr -> Nat]
         /\ html' \in [Addr -> BOOLEAN]
         /\ Single'
         /\ \A d \in Content : Agstrbind(d)' = {} => Agstrbind(d) = {} /\ d # c
<1>1. /\ a \in Addr
      /\ \/ s[a] = c
         \/ s[a] = NULL /\ \A b \in Addr : s[b] # c
      /\ s' = [s EXCEPT ![a] = c]
      /\ refcnt' = [refcnt EXCEPT ![a] = @ + 1]
      /\ html' = [html EXCEPT ![a] = IF s[a] = NULL THEN bit ELSE @]
  BY DEF Agstrdup, CopyAt, Agstrbind
<1>2. /\ s \in [Addr -> Content \cup {NULL}] /\ refcnt \in [Addr -> Nat]
      /\ html \in [Addr -> BOOLEAN]
  BY DEF Inv, TypeOK
<1>3. c # NULL
  BY Bound
<1>4. /\ s'[a] = c /\ refcnt'[a] = refcnt[a] + 1
      /\ \A b \in Addr : b # a => s'[b] = s[b] /\ refcnt'[b] = refcnt[b] /\ html'[b] = html[b]
      /\ s[a] = NULL => html'[a] = bit
      /\ s[a] = c => html'[a] = html[a]
  BY <1>1, <1>2, <1>3
<1>5. \A b \in Addr : s[b] = c => b = a
  BY <1>1, <1>3 DEF Inv, Single
<1>6. refcnt[a] = Uses(a) + HeldOf(c)
  <2>1. CASE s[a] = c
    BY <2>1, <1>1, <1>3 DEF Inv, Counted
  <2>2. CASE s[a] = NULL /\ \A b \in Addr : s[b] # c
    BY <2>2, <1>1 DEF Inv, Counted, Agstrbind
  <2> QED BY <1>1, <2>1, <2>2
<1>7. Single'
  BY <1>1, <1>4, <1>5 DEF Inv, Single
<1>8. \A d \in Content : Agstrbind(d)' = {} => Agstrbind(d) = {} /\ d # c
  <2> SUFFICES ASSUME NEW d \in Content, \A b \in Addr : s'[b] # d
               PROVE  d # c /\ \A b \in Addr : s[b] # d
    BY DEF Agstrbind
  <2>1. d # NULL
    BY Bound
  <2> QED BY <2>1, <1>1, <1>4
<1> QED BY <1>1, <1>2, <1>4, <1>5, <1>6, <1>7, <1>8

\* A string that is asked for once more and has one more user.
LEMMA CountedUp ==
  ASSUME Inv, NEW c \in Content, NEW a, NEW bit \in BOOLEAN, Agstrdup(c, a, bit),
         \A b \in Addr : b # a => Uses(b)' = Uses(b),
         \A d \in Content : d # c => HeldOf(d)' = HeldOf(d),
         Uses(a)' + HeldOf(c)' = Uses(a) + HeldOf(c) + 1
  PROVE  Counted'
<1>1. /\ a \in Addr /\ s'[a] = c /\ refcnt'[a] = refcnt[a] + 1
      /\ \A b \in Addr : b # a => s'[b] = s[b] /\ refcnt'[b] = refcnt[b]
      /\ \A b \in Addr : s[b] = c => b = a
      /\ refcnt[a] = Uses(a) + HeldOf(c)
  BY DupIs
<1>2. \A d \in Content : Agstrbind(d)' = {} => Agstrbind(d) = {} /\ d # c
  BY DupIs
<1>3. /\ c # NULL /\ \A b \in Addr : s[b] \in Content \cup {NULL}
      /\ Uses(a) \in Nat /\ HeldOf(c) \in Nat
  BY <1>1, Bound
<1>4. \A b \in Addr : s'[b] = NULL => refcnt'[b] = 0 /\ Uses(b)' = 0
  BY <1>1, <1>3 DEF Inv, Counted
<1>5. \A b \in Addr : s'[b] # NULL => refcnt'[b] = Uses(b)' + HeldOf(s[b])'
  <2> SUFFICES ASSUME NEW b \in Addr, s'[b] # NULL
               PROVE  refcnt'[b] = Uses(b)' + HeldOf(s[b])'
    OBVIOUS
  <2>1. CASE b = a
    <3>1. HeldOf(s[b])' = HeldOf(c)'
      BY <2>1, <1>1 DEF HeldOf
    <3> QED BY <2>1, <3>1, <1>1, <1>3
  <2>2. CASE b # a
    <3>1. s[b] \in Content /\ s[b] # c /\ s'[b] = s[b] /\ s[b] # NULL
      BY <2>2, <1>1, <1>3
    <3>2. refcnt[b] = Uses(b) + HeldOf(s[b])
      BY <3>1 DEF Inv, Counted
    <3>3. HeldOf(s[b])' = HeldOf(s[b])
      <4>1. \A d \in Content : d # c => held'[d].plain + held'[d].html = held[d].plain + held[d].html
        BY DEF HeldOf
      <4> QED BY <3>1, <4>1 DEF HeldOf
    <3> QED BY <2>2, <3>1, <3>2, <3>3, <1>1
  <2> QED BY <2>1, <2>2
<1>6. \A d \in Content : Agstrbind(d)' = {} => HeldOf(d)' = 0
  BY <1>2 DEF Inv, Counted
<1> QED BY <1>4, <1>5, <1>6 DEF Counted

\* Strings of which some uses are given up, each by one call of agstrfree.
LEMMA FreeIs ==
  ASSUME Inv, NEW gone \in [Addr -> Nat], Agstrfree(gone),
         \A b \in Addr : Uses(b)' \in Nat,
         \A c \in Content : HeldOf(c)' \in Nat /\ (HeldOf(c) = 0 => HeldOf(c)' = 0),
         \A b \in Addr : s[b] = NULL => gone[b] = 0 /\ Uses(b)' = 0,
         \A b \in Addr : \A c \in Content :
           s[b] = c => Uses(b)' + HeldOf(c)' + gone[b] = Uses(b) + HeldOf(c)
  PROVE  /\ Counted' /\ Single'
         /\ s' \in [Addr -> Content \cup {NULL}] /\ refcnt' \in [Addr -> Nat] /\ html' = html
         /\ \A b \in Addr : s'[b] = s[b] \/ (s'[b] = NULL /\ Uses(b)' = 0)
<1>1. /\ s \in [Addr -> Content \cup {NULL}] /\ refcnt \in [Addr -> Nat]
      /\ html' = html
  BY DEF Inv, TypeOK, Agstrfree
<1>2. /\ \A b \in Addr : refcnt'[b] = refcnt[b] - gone[b]
      /\ \A b \in Addr : \/ s'[b] = s[b]
                         \/ s'[b] = NULL /\ gone[b] > 0 /\ refcnt[b] = gone[b]
      /\ refcnt' = [a \in Addr |-> refcnt[a] - gone[a]]
      /\ s' \in [Addr -> Content \cup {NULL}]
  BY <1>1 DEF Agstrfree
<1>3. /\ \A c \in Content : c # NULL
      /\ \A b \in Addr : s[b] \in Content \cup {NULL} /\ refcnt[b] \in Nat /\ gone[b] \in Nat
      /\ \A b \in Addr : Uses(b) \in Nat
      /\ \A c \in Content : HeldOf(c) \in Nat
  BY Bound
<1>4. ASSUME NEW b \in Addr, s[b] # NULL
      PROVE  /\ refcnt'[b] = Uses(b)' + HeldOf(s[b])' \/ s'[b] = NULL
             /\ refcnt'[b] \in Nat
             /\ \A c \in Content : s[b] = c => refcnt'[b] = Uses(b)' + HeldOf(c)'
  <2>1. PICK c \in Content : s[b] = c
    BY <1>3, <1>4
  <2>2. refcnt[b] = Uses(b) + HeldOf(c)
    BY <1>4, <2>1 DEF Inv, Counted
  <2>3. Uses(b)' + HeldOf(c)' + gone[b] = Uses(b) + HeldOf(c)
    BY <2>1
  <2>4. Uses(b)' \in Nat /\ HeldOf(c)' \in Nat
    OBVIOUS
  <2>5. refcnt'[b] = Uses(b)' + HeldOf(c)'
    BY <2>2, <2>3, <2>4, <1>2, <1>3
  <2>6. s'[b] = s[b] => HeldOf(s[b])' = HeldOf(c)'
    BY <2>1 DEF HeldOf
  <2>7. \A d \in Content : s[b] = d => d = c
    BY <2>1
  <2>8. refcnt'[b] \in Nat
    BY <2>4, <2>5
  <2> QED BY <2>5, <2>6, <2>7, <2>8, <1>2
<1>5. ASSUME NEW b \in Addr, s[b] = NULL
      PROVE  s'[b] = NULL /\ refcnt'[b] = 0 /\ Uses(b)' = 0
  BY <1>2, <1>3, <1>5 DEF Inv, Counted
<1>6. ASSUME NEW b \in Addr, s[b] # NULL, s'[b] = NULL
      PROVE  refcnt'[b] = 0 /\ Uses(b)' = 0 /\ \A c \in Content : s[b] = c => HeldOf(c)' = 0
  <2>1. refcnt'[b] = 0
    BY <1>2, <1>3, <1>6
  <2>2. PICK c \in Content : s[b] = c
    BY <1>3, <1>6
  <2>3. refcnt'[b] = Uses(b)' + HeldOf(c)'
    BY <1>4, <1>6, <2>2
  <2>4. Uses(b)' \in Nat /\ HeldOf(c)' \in Nat
    OBVIOUS
  <2>5. Uses(b)' = 0 /\ HeldOf(c)' = 0
    BY <2>1, <2>3, <2>4
  <2>6. \A d \in Content : s[b] = d => d = c
    BY <2>2
  <2> QED BY <2>1, <2>5, <2>6
<1>7. Single'
  BY <1>2 DEF Inv, Single
<1>8. \A b \in Addr : refcnt'[b] \in Nat
  BY <1>4, <1>5
<1>9. refcnt' \in [Addr -> Nat]
  BY <1>2, <1>8
<1>10. \A b \in Addr : s'[b] = NULL => refcnt'[b] = 0 /\ Uses(b)' = 0
  BY <1>5, <1>6
<1>11. \A b \in Addr : s'[b] # NULL => refcnt'[b] = Uses(b)' + HeldOf(s[b])'
  BY <1>4, <1>5
<1>12. ASSUME NEW c \in Content, Agstrbind(c)' = {} PROVE HeldOf(c)' = 0
  <2>1. CASE Agstrbind(c) = {}
    BY <2>1 DEF Inv, Counted
  <2>2. CASE Agstrbind(c) # {}
    <3>1. PICK b \in Addr : s[b] = c
      BY <2>2 DEF Agstrbind
    <3>2. s'[b] # c
      BY <1>12 DEF Agstrbind
    <3> QED BY <3>1, <3>2, <1>2, <1>3, <1>6
  <2> QED BY <2>1, <2>2
<1>13. Counted'
  BY <1>10, <1>11, <1>12 DEF Counted
<1> QED BY <1>1, <1>2, <1>7, <1>9, <1>10, <1>13

-----------------------------------------------------------------------------
(* New objects.                                                            *)

\* What is in use keeps its contents when a string is asked for.
LEMMA DupKeeps ==
  ASSUME Inv, NEW c \in Content, NEW a, NEW bit \in BOOLEAN, Agstrdup(c, a, bit)
  PROVE  \A b \in Addr : s[b] # NULL => s'[b] = s[b]
<1>1. /\ s'[a] = c /\ (s[a] = NULL \/ s[a] = c)
      /\ \A b \in Addr : b # a => s'[b] = s[b]
  BY DupIs
<1> QED BY <1>1

LEMMA HeldSame ==
  ASSUME held' = held PROVE \A c \in Content : HeldOf(c)' = HeldOf(c)
BY DEF HeldOf

\* One more object.
LEMMA Entered ==
  ASSUME Finite, NEW o, o \notin objs, objs' = objs \cup {o}
  PROVE  /\ IsFiniteSet(objs')
         /\ \A b \in Addr : /\ b = o.id => Cardinality(Holders(b)') = Cardinality(Holders(b)) + 1
                            /\ b # o.id => Holders(b)' = Holders(b)
<1>1. IsFiniteSet(objs')
  BY FS_AddElement DEF Finite
<1>2. ASSUME NEW b \in Addr, b = o.id
      PROVE  Cardinality(Holders(b)') = Cardinality(Holders(b)) + 1
  <2>1. Holders(b)' = Holders(b) \cup {o} /\ o \notin Holders(b)
    BY <1>2 DEF Holders
  <2>2. IsFiniteSet(Holders(b))
    BY Counts
  <2> QED BY <2>1, <2>2, FS_AddElement
<1>3. \A b \in Addr : b # o.id => Holders(b)' = Holders(b)
  BY DEF Holders
<1> QED BY <1>1, <1>2, <1>3

LEMMA MakeNamedSafe ==
  ASSUME Inv, NEW t \in Type, NEW p \in PlacesOf(t), NEW n \in Name, MakeNamed(t, p, n)
  PROVE  Inv'
<1>1. PICK a : Agstrdup(n, a, FALSE) /\ Enter(t, p, a, n)
  BY DEF MakeNamed
<1> DEFINE o == [type |-> t, place |-> p, id |-> a, given |-> n]
<1>2. /\ n \notin Local /\ Find(t, p, n) = {} /\ objs' = objs \cup {o}
      /\ UNCHANGED <<ctr, imap, held>>
  BY <1>1 DEF MakeNamed, Enter
<1>3. n \in Content /\ n # NULL /\ p \in Place
  BY NamesAssumption DEF Content, NamesAssumption, PlacesOf
<1>4. /\ a \in Addr /\ s'[a] = n /\ Single'
      /\ s' \in [Addr -> Content \cup {NULL}] /\ refcnt' \in [Addr -> Nat]
      /\ html' \in [Addr -> BOOLEAN]
  BY <1>1, <1>3, DupIs
<1>5. \A b \in Addr : s[b] # NULL => s'[b] = s[b]
  BY <1>1, <1>3, DupKeeps
<1>6. \A x \in objs : ~(x.type = t /\ x.place = p /\ x.id = a)
  <2> SUFFICES ASSUME NEW x \in objs, x.type = t, x.place = p, x.id = a PROVE FALSE
    OBVIOUS
  <2>1. s[a] # NULL
    BY <1>4, NamesAssumption DEF Inv, Named, NamesAssumption
  <2>2. s[a] = n
    BY <1>4, <1>5, <2>1
  <2>3. x \in Find(t, p, n)
    BY <1>2, <1>4, <2>2 DEF Find, Probe, Agstrbind
  <2> QED BY <1>2, <2>3
<1>7. o \notin objs /\ o.id = a
  BY <1>6
<1>8. o \in Obj
  BY <1>3, <1>4 DEF Obj, Id
<1> HIDE DEF o
<1>9. /\ IsFiniteSet(objs')
      /\ \A b \in Addr : /\ b = a => Cardinality(Holders(b)') = Cardinality(Holders(b)) + 1
                         /\ b # a => Holders(b)' = Holders(b)
  BY <1>2, <1>7, Entered DEF Inv
<1>10. \A b \in Addr : Entries(b)' = Entries(b)
  BY <1>2 DEF Entries
<1>11. Counted'
  <2>1. \A b \in Addr : b # a => Uses(b)' = Uses(b)
    BY <1>9, <1>10 DEF Uses
  <2>2. Uses(a)' = Uses(a) + 1
    <3>1. Cardinality(Holders(a)) \in Nat /\ Cardinality(Entries(a)) \in Nat
      BY Counts DEF Inv
    <3> QED BY <1>4, <1>9, <1>10, <3>1 DEF Uses
  <2>3. \A c \in Content : HeldOf(c)' = HeldOf(c)
    BY <1>2, HeldSame
  <2>4. HeldOf(n) \in Nat /\ Uses(a) \in Nat
    BY <1>3, <1>4, Bound
  <2>5. Uses(a)' + HeldOf(n)' = Uses(a) + HeldOf(n) + 1
    BY <2>2, <2>3, <2>4, <1>3
  <2> QED BY <1>1, <1>3, <2>1, <2>3, <2>5, CountedUp
<1>12. TypeOK'
  BY <1>2, <1>4, <1>8 DEF Inv, TypeOK
<1>13. Fresh'
  BY <1>2, <1>4, <1>7 DEF Inv, Fresh
<1>14. Linked'
  <2>1. \A e \in imap : s'[e.str] = s[e.str]
    BY <1>5, NamesAssumption DEF Inv, Linked, TypeOK, Entry, NamesAssumption
  <2> QED BY <1>2, <2>1 DEF Inv, Linked
<1>15. Distinct'
  BY <1>2, <1>6 DEF Inv, Distinct, o
<1>16. Named'
  <2>1. \A x \in objs : x.id \in Addr => s'[x.id] = x.given
    BY <1>5 DEF Inv, Named
  <2>2. \A e \in imap : s'[e.str] = s[e.str] /\ e.id \notin Addr
    BY <1>5, NamesAssumption DEF Inv, Linked, Fresh, TypeOK, Entry, NamesAssumption
  <2>3. o.given = n /\ o.id = a /\ n \notin Local
    BY <1>2 DEF o
  <2> QED BY <1>2, <1>3, <1>4, <2>1, <2>2, <2>3 DEF Inv, Named
<1>17. Finite'
  BY <1>2, <1>9 DEF Inv, Finite
<1> QED BY <1>4, <1>11, <1>12, <1>13, <1>14, <1>15, <1>16, <1>17 DEF Inv

\* An object whose id is no string's address changes no count.
LEMMA CountedSame ==
  ASSUME Inv, UNCHANGED <<strings, held>>, \A b \in Addr : Uses(b)' = Uses(b)
  PROVE  Counted'
<1>1. /\ \A b \in Addr : s'[b] = s[b] /\ refcnt'[b] = refcnt[b]
      /\ \A c \in Content : Agstrbind(c)' = Agstrbind(c) /\ HeldOf(c)' = HeldOf(c)
      /\ \A b \in Addr : HeldOf(s[b])' = HeldOf(s[b])
  BY DEF strings, Agstrbind, HeldOf
<1>2. /\ \A b \in Addr : s[b] = NULL => refcnt[b] = 0 /\ Uses(b) = 0
      /\ \A b \in Addr : s[b] # NULL => refcnt[b] = Uses(b) + HeldOf(s[b])
      /\ \A c \in Content : Agstrbind(c) = {} => HeldOf(c) = 0
  BY DEF Inv, Counted
<1>3. \A b \in Addr : s'[b] = NULL => refcnt'[b] = 0 /\ Uses(b)' = 0
  BY <1>1, <1>2
<1>4. \A b \in Addr : s'[b] # NULL => refcnt'[b] = Uses(b)' + HeldOf(s[b])'
  BY <1>1, <1>2
<1>5. \A c \in Content : Agstrbind(c)' = {} => HeldOf(c)' = 0
  BY <1>1, <1>2
<1> QED BY <1>3, <1>4, <1>5 DEF Counted

LEMMA MakeSharedSafe ==
  ASSUME Inv, NEW t \in Type, NEW p \in PlacesOf(t), NEW n \in Name, MakeShared(t, p, n)
  PROVE  Inv'
<1>1. PICK id \in Lookup(t, n) : Enter(t, p, id, n)
  BY DEF MakeShared
<1> DEFINE o == [type |-> t, place |-> p, id |-> id, given |-> n]
<1>2. /\ n \in Local /\ Find(t, p, n) = {} /\ objs' = objs \cup {o}
      /\ UNCHANGED <<strings, ctr, imap, held>>
  BY <1>1 DEF MakeShared, Enter
<1>3. n # NULL /\ p \in Place
  BY NamesAssumption DEF NamesAssumption, PlacesOf
<1>4. PICK e \in imap : e.type = t /\ s[e.str] = n /\ e.id = id
  BY <1>1 DEF Lookup, Agstrbind
<1>5. id \in Id /\ id \notin Addr /\ id < ctr
  BY <1>4 DEF Inv, TypeOK, Entry, Fresh
<1>6. \A x \in objs : ~(x.type = t /\ x.place = p /\ x.id = id)
  BY <1>1, <1>2 DEF Find, Probe
<1>7. o \notin objs /\ o.id = id
  BY <1>6
<1>8. o \in Obj
  BY <1>3, <1>5 DEF Obj
<1>9. s' = s /\ refcnt' = refcnt /\ html' = html
  BY <1>2 DEF strings
<1> HIDE DEF o
<1>10. IsFiniteSet(objs') /\ \A b \in Addr : Holders(b)' = Holders(b)
  BY <1>2, <1>5, <1>7, Entered DEF Inv
<1>11. \A b \in Addr : Entries(b)' = Entries(b)
  BY <1>2 DEF Entries
<1>12. Counted'
  <2>1. \A b \in Addr : Uses(b)' = Uses(b)
    BY <1>10, <1>11 DEF Uses
  <2> QED BY <1>2, <2>1, CountedSame
<1>13. TypeOK'
  BY <1>2, <1>8, <1>9 DEF Inv, TypeOK
<1>14. Fresh'
  BY <1>2, <1>5, <1>7 DEF Inv, Fresh
<1>15. Linked' /\ Single'
  BY <1>2, <1>9 DEF Inv, Linked, Single
<1>16. Distinct'
  BY <1>2, <1>6 DEF Inv, Distinct, o
<1>17. Named'
  <2>1. o.given = n /\ o.id = id /\ o.type = t
    BY DEF o
  <2>2. \A f \in imap : f.type = t /\ f.id = id => s[f.str] = n
    BY <1>4 DEF Inv, Linked
  <2> QED BY <1>2, <1>4, <1>5, <1>9, <2>1, <2>2 DEF Inv, Named
<1>18. Finite'
  BY <1>2, <1>10 DEF Inv, Finite
<1> QED BY <1>12, <1>13, <1>14, <1>15, <1>16, <1>17, <1>18 DEF Inv

LEMMA MakeAnonymousSafe ==
  ASSUME Inv, NEW t \in Type, NEW p \in PlacesOf(t), MakeAnonymous(t, p)
  PROVE  Inv'
<1> DEFINE o == [type |-> t, place |-> p, id |-> ctr, given |-> NULL]
<1>1. /\ objs' = objs \cup {o} /\ ctr <= MaxCtr /\ ctr' = ctr + 2
      /\ UNCHANGED <<strings, imap, held>>
  BY DEF MakeAnonymous, Enter
<1>2. /\ p \in Place /\ NULL \notin Name
  BY NamesAssumption DEF NamesAssumption, PlacesOf
<1>3. ctr \in Id /\ ctr \notin Addr /\ ctr \in Nat /\ (ctr + 2) % 2 = 1
  BY <1>1, Parity DEF Inv
<1>4. \A x \in objs : x.id # ctr
  <2>1. \A x \in objs : x.id \notin Addr => x.id < ctr
    BY DEF Inv, Fresh
  <2>2. ~(ctr < ctr)
    BY <1>3
  <2> QED BY <2>1, <2>2, <1>3
<1>5. \A e \in imap : e.id # ctr
  <2>1. \A e \in imap : e.id < ctr
    BY DEF Inv, Fresh
  <2>2. ~(ctr < ctr)
    BY <1>3
  <2> QED BY <2>1, <2>2
<1>6. o \notin objs /\ o.id = ctr
  BY <1>4
<1>7. o \in Obj
  BY <1>2, <1>3 DEF Obj
<1>8. s' = s /\ refcnt' = refcnt /\ html' = html
  BY <1>1 DEF strings
<1> HIDE DEF o
<1>10. IsFiniteSet(objs') /\ \A b \in Addr : Holders(b)' = Holders(b)
  BY <1>1, <1>3, <1>6, Entered DEF Inv
<1>11. \A b \in Addr : Entries(b)' = Entries(b)
  BY <1>1 DEF Entries
<1>12. Counted'
  <2>1. \A b \in Addr : Uses(b)' = Uses(b)
    BY <1>10, <1>11 DEF Uses
  <2> QED BY <1>1, <2>1, CountedSame
<1>13. TypeOK'
  <2>1. ctr' \in Nat /\ ctr' % 2 = 1
    BY <1>1, <1>3
  <2> QED BY <1>1, <1>7, <1>8, <2>1 DEF Inv, TypeOK
<1>14. Fresh'
  <2>1. \A x \in objs : x.id \notin Addr => x.id \in Nat /\ x.id < ctr'
    <3>1. \A x \in objs : x.id \in Nat
      BY Parity DEF Inv, TypeOK, Obj
    <3> QED BY <3>1, <1>1, <1>3 DEF Inv, Fresh
  <2>2. \A e \in imap : e.id \notin Addr /\ e.id < ctr'
    <3>1. \A e \in imap : e.id \in Nat
      BY Parity DEF Inv, TypeOK, Entry
    <3> QED BY <3>1, <1>1, <1>3 DEF Inv, Fresh
  <2>3. o.id < ctr'
    BY <1>1, <1>3, <1>6
  <2> QED BY <1>1, <2>1, <2>2, <2>3 DEF Fresh
<1>15. Linked' /\ Single'
  BY <1>1, <1>8 DEF Inv, Linked, Single
<1>16. Distinct'
  <2>1. o.type = t /\ o.place = p
    BY DEF o
  <2> QED BY <1>1, <1>4, <1>6, <2>1 DEF Inv, Distinct
<1>17. Named'
  <2>1. o.given = NULL /\ o.id = ctr
    BY DEF o
  <2>2. NULL \notin Local
    BY <1>2, NamesAssumption DEF NamesAssumption
  <2> QED BY <1>1, <1>3, <1>5, <1>8, <2>1, <2>2 DEF Inv, Named
<1>18. Finite'
  BY <1>1, <1>10 DEF Inv, Finite
<1> QED BY <1>12, <1>13, <1>14, <1>15, <1>16, <1>17, <1>18 DEF Inv

\* One more entry of the internal map.
LEMMA Inserted ==
  ASSUME Finite, NEW e, e \notin imap, imap' = imap \cup {e}
  PROVE  /\ IsFiniteSet(imap')
         /\ \A b \in Addr : /\ b = e.str => Cardinality(Entries(b)') = Cardinality(Entries(b)) + 1
                            /\ b # e.str => Entries(b)' = Entries(b)
<1>1. IsFiniteSet(imap')
  BY FS_AddElement DEF Finite
<1>2. ASSUME NEW b \in Addr, b = e.str
      PROVE  Cardinality(Entries(b)') = Cardinality(Entries(b)) + 1
  <2>1. Entries(b)' = Entries(b) \cup {e} /\ e \notin Entries(b)
    BY <1>2 DEF Entries
  <2>2. IsFiniteSet(Entries(b))
    BY Counts
  <2> QED BY <2>1, <2>2, FS_AddElement
<1>3. \A b \in Addr : b # e.str => Entries(b)' = Entries(b)
  BY DEF Entries
<1> QED BY <1>1, <1>2, <1>3

LEMMA MakeLocalSafe ==
  ASSUME Inv, NEW t \in Type, NEW p \in PlacesOf(t), NEW n \in Name, MakeLocal(t, p, n)
  PROVE  Inv'
<1> DEFINE o == [type |-> t, place |-> p, id |-> ctr, given |-> n]
<1>1. PICK a : /\ Agstrdup(n, a, FALSE)
               /\ imap' = imap \cup {[type |-> t, id |-> ctr, str |-> a]}
  BY DEF MakeLocal
<1> DEFINE e == [type |-> t, id |-> ctr, str |-> a]
<1>2. /\ n \in Local /\ Lookup(t, n) = {} /\ ctr <= MaxCtr /\ ctr' = ctr + 2 /\ held' = held
      /\ objs' = objs \cup {o} /\ imap' = imap \cup {e}
  BY <1>1 DEF MakeLocal, Enter
<1>3. n \in Content /\ n # NULL /\ p \in Place
  BY NamesAssumption DEF Content, NamesAssumption, PlacesOf
<1>4. /\ a \in Addr /\ s'[a] = n /\ Single'
      /\ s' \in [Addr -> Content \cup {NULL}] /\ refcnt' \in [Addr -> Nat]
      /\ html' \in [Addr -> BOOLEAN]
  BY <1>1, <1>3, DupIs
<1>5. \A b \in Addr : s[b] # NULL => s'[b] = s[b]
  BY <1>1, <1>3, DupKeeps
<1>6. ctr \in Id /\ ctr \notin Addr /\ ctr \in Nat /\ (ctr + 2) % 2 = 1
  BY <1>2, Parity DEF Inv
<1>7. (\A x \in objs : x.id # ctr) /\ (\A f \in imap : f.id # ctr)
  <2>1. /\ \A x \in objs : x.id \notin Addr => x.id < ctr
        /\ \A f \in imap : f.id < ctr
    BY DEF Inv, Fresh
  <2>2. ~(ctr < ctr)
    BY <1>6
  <2> QED BY <2>1, <2>2, <1>6
<1>8. /\ o \notin objs /\ o.id = ctr /\ o.type = t /\ o.place = p /\ o.given = n
      /\ e \notin imap /\ e.id = ctr /\ e.type = t /\ e.str = a
  BY <1>7
<1>9. o \in Obj /\ e \in Entry
  BY <1>3, <1>4, <1>6 DEF Obj, Entry
<1> HIDE DEF o, e
<1>10. \A f \in imap : /\ f.str \in Addr /\ s[f.str] \in Local /\ s[f.str] # NULL
                       /\ s'[f.str] = s[f.str]
  BY <1>5, NamesAssumption DEF Inv, Linked, TypeOK, Entry, NamesAssumption
<1>11. \A f \in imap : ~(f.type = t /\ f.str = a)
  <2> SUFFICES ASSUME NEW f \in imap, f.type = t, f.str = a PROVE FALSE
    OBVIOUS
  <2>1. s[f.str] = n
    BY <1>4, <1>10
  <2>2. f.id \in Lookup(t, n)
    BY <2>1, <1>10 DEF Lookup, Agstrbind
  <2> QED BY <2>2, <1>2
<1>12. /\ IsFiniteSet(objs')
       /\ \A b \in Addr : Holders(b)' = Holders(b)
  BY <1>2, <1>6, <1>8, Entered DEF Inv
<1>13. /\ IsFiniteSet(imap')
       /\ \A b \in Addr : /\ b = a => Cardinality(Entries(b)') = Cardinality(Entries(b)) + 1
                          /\ b # a => Entries(b)' = Entries(b)
  BY <1>2, <1>8, Inserted DEF Inv
<1>14. Counted'
  <2>1. \A b \in Addr : b # a => Uses(b)' = Uses(b)
    BY <1>12, <1>13 DEF Uses
  <2>2. Uses(a)' = Uses(a) + 1
    <3>1. Cardinality(Holders(a)) \in Nat /\ Cardinality(Entries(a)) \in Nat
      BY Counts DEF Inv
    <3> QED BY <1>4, <1>12, <1>13, <3>1 DEF Uses
  <2>3. \A c \in Content : HeldOf(c)' = HeldOf(c)
    BY <1>2, HeldSame
  <2>4. HeldOf(n) \in Nat /\ Uses(a) \in Nat
    BY <1>3, <1>4, Bound
  <2>5. Uses(a)' + HeldOf(n)' = Uses(a) + HeldOf(n) + 1
    BY <2>2, <2>3, <2>4, <1>3
  <2> QED BY <1>1, <1>3, <2>1, <2>3, <2>5, CountedUp
<1>15. TypeOK'
  <2>1. ctr' \in Nat /\ ctr' % 2 = 1
    BY <1>2, <1>6
  <2> QED BY <1>2, <1>4, <1>9, <2>1 DEF Inv, TypeOK
<1>16. Fresh'
  <2>1. \A x \in objs : x.id \notin Addr => x.id \in Nat /\ x.id < ctr'
    <3>1. \A x \in objs : x.id \in Nat
      BY Parity DEF Inv, TypeOK, Obj
    <3> QED BY <3>1, <1>2, <1>6 DEF Inv, Fresh
  <2>2. \A f \in imap : f.id \notin Addr /\ f.id < ctr'
    <3>1. \A f \in imap : f.id \in Nat
      BY Parity DEF Inv, TypeOK, Entry
    <3> QED BY <3>1, <1>2, <1>6 DEF Inv, Fresh
  <2>3. o.id < ctr' /\ e.id < ctr' /\ e.id \notin Addr
    BY <1>2, <1>6, <1>8
  <2> QED BY <1>2, <2>1, <2>2, <2>3 DEF Fresh
<1>17. Linked'
  <2>1. \A f \in imap' : s'[f.str] \in Local
    BY <1>2, <1>4, <1>8, <1>10
  <2>2. \A f, g \in imap' : f.id = g.id => f = g
    BY <1>2, <1>7, <1>8 DEF Inv, Linked
  <2>3. \A f, g \in imap' : f.type = g.type /\ f.str = g.str => f = g
    BY <1>2, <1>8, <1>11 DEF Inv, Linked
  <2> QED BY <2>1, <2>2, <2>3 DEF Linked
<1>18. Distinct'
  BY <1>2, <1>7, <1>8 DEF Inv, Distinct
<1>19. Named'
  <2>1. \A x \in objs : x.id \in Addr => s'[x.id] = x.given
    BY <1>5 DEF Inv, Named
  <2>2. \A f \in imap : f.id # o.id
    BY <1>7, <1>8
  <2>3. \A x \in objs : x.id # e.id
    BY <1>7, <1>8
  <2>4. \A x \in objs' : x.id \in Addr => s'[x.id] = x.given /\ x.given \notin Local \cup {NULL}
    BY <1>2, <1>6, <1>8, <2>1 DEF Inv, Named
  <2>5. \A x \in objs' : x.id \notin Addr => x.given \in Local \cup {NULL}
    BY <1>2, <1>8 DEF Inv, Named
  <2>6. \A x \in objs', f \in imap' : f.type = x.type /\ f.id = x.id => s'[f.str] = x.given
    BY <1>2, <1>4, <1>8, <1>10, <2>2, <2>3 DEF Inv, Named
  <2>7. \A x \in objs' : x.given \in Local /\ x.type # "edge" =>
          \E f \in imap' : f.type = x.type /\ f.id = x.id
    BY <1>2, <1>8 DEF Inv, Named
  <2> QED BY <2>4, <2>5, <2>6, <2>7 DEF Named
<1>20. Finite'
  BY <1>12, <1>13 DEF Finite
<1> QED BY <1>4, <1>14, <1>15, <1>16, <1>17, <1>18, <1>19, <1>20 DEF Inv

-----------------------------------------------------------------------------
(* Objects and uses that go.                                               *)

LEMMA InUse ==
  Finite => /\ \A o \in objs : Uses(o.id) # 0
            /\ \A e \in imap : Uses(e.str) # 0
BY Unused

LEMMA OnceIs ==
  ASSUME NEW a
  PROVE  /\ Once(a) \in [Addr -> Nat]
         /\ \A b \in Addr : b # a => Once(a)[b] = 0
         /\ a \in Addr => Once(a)[a] = 1
BY DEF Once

LEMMA NothingFreed ==
  ASSUME Inv, UNCHANGED strings PROVE Agstrfree([b \in Addr |-> 0])
BY DEF Inv, TypeOK, strings, Agstrfree

LEMMA ShrinkSafe ==
  ASSUME Inv, NEW gone \in [Addr -> Nat], Agstrfree(gone),
         objs' \subseteq objs, imap' \subseteq imap, ctr' = ctr,
         held' \in [Content -> [plain : 0 .. MaxHeld, html : 0 .. MaxHeld]],
         \A c \in Content : HeldOf(c) = 0 => HeldOf(c)' = 0,
         \A b \in Addr : s[b] = NULL => gone[b] = 0,
         \A b \in Addr : \A c \in Content :
           s[b] = c => Uses(b)' + HeldOf(c)' + gone[b] = Uses(b) + HeldOf(c),
         \A x \in objs' : x.given \in Local /\ x.type # "edge" =>
           \E e \in imap' : e.type = x.type /\ e.id = x.id
  PROVE  Inv'
<1>1. Finite'
  BY FS_Subset DEF Inv, Finite
<1>2. \A b \in Addr : Uses(b)' \in Nat
  <2>1. ASSUME NEW b \in Addr
        PROVE  Cardinality(Holders(b)') \in Nat /\ Cardinality(Entries(b)') \in Nat
    <3>1. Holders(b)' \in SUBSET objs' /\ Entries(b)' \in SUBSET imap'
      BY DEF Holders, Entries
    <3>2. IsFiniteSet(Holders(b)') /\ IsFiniteSet(Entries(b)')
      BY <1>1, <3>1, FS_Subset DEF Finite
    <3> QED BY <3>2, FS_CardinalityType
  <2> QED BY <2>1 DEF Uses
<1>3. \A c \in Content : HeldOf(c)' \in Nat
  <2>1. MaxHeld \in Nat
    BY NamesAssumption DEF NamesAssumption
  <2>2. \A c \in Content : held'[c].plain \in Nat /\ held'[c].html \in Nat
    BY <2>1
  <2> QED BY <2>2 DEF HeldOf
<1>4. \A b \in Addr : s[b] = NULL => Uses(b)' = 0
  <2> SUFFICES ASSUME NEW b \in Addr, s[b] = NULL PROVE Uses(b)' = 0
    OBVIOUS
  <2>1. Uses(b) = 0
    BY DEF Inv, Counted
  <2>2. (\A x \in objs : x.id # b) /\ (\A e \in imap : e.str # b)
    BY <2>1, Unused DEF Inv
  <2>3. Holders(b)' = {} /\ Entries(b)' = {}
    BY <2>2 DEF Holders, Entries
  <2> QED BY <2>3, FS_EmptySet DEF Uses
<1>5. /\ Counted' /\ Single'
      /\ s' \in [Addr -> Content \cup {NULL}] /\ refcnt' \in [Addr -> Nat] /\ html' = html
      /\ \A b \in Addr : s'[b] = s[b] \/ (s'[b] = NULL /\ Uses(b)' = 0)
  BY <1>2, <1>3, <1>4, FreeIs
<1>6. TypeOK'
  BY <1>5 DEF Inv, TypeOK
<1>7. /\ \A o \in objs' : o.id \in Addr => s'[o.id] = s[o.id]
      /\ \A e \in imap' : s'[e.str] = s[e.str]
  <2>1. (Finite => /\ \A o \in objs : Uses(o.id) # 0
                   /\ \A e \in imap : Uses(e.str) # 0)'
    BY InUse, PTL
  <2>2. \A e \in imap' : e.str \in Addr
    BY DEF Inv, TypeOK, Entry
  <2>3. ASSUME NEW o \in objs', o.id \in Addr PROVE s'[o.id] = s[o.id]
    <3>1. Uses(o.id)' # 0
      BY <1>1, <2>1
    <3> QED BY <2>3, <3>1, <1>5
  <2>4. ASSUME NEW e \in imap' PROVE s'[e.str] = s[e.str]
    <3>1. Uses(e.str)' # 0
      BY <1>1, <2>1
    <3> QED BY <2>2, <3>1, <1>5
  <2> QED BY <2>3, <2>4
<1>8. Fresh' /\ Distinct'
  BY DEF Inv, Fresh, Distinct
<1>9. Linked'
  BY <1>7 DEF Inv, Linked
<1>10. Named'
  <2>1. \A x \in objs' : x.id \in Addr => s'[x.id] = x.given /\ x.given \notin Local \cup {NULL}
    BY <1>7 DEF Inv, Named
  <2>2. \A x \in objs' : x.id \notin Addr => x.given \in Local \cup {NULL}
    BY DEF Inv, Named
  <2>3. \A x \in objs', f \in imap' : f.type = x.type /\ f.id = x.id => s'[f.str] = x.given
    BY <1>7 DEF Inv, Named
  <2> QED BY <2>1, <2>2, <2>3 DEF Named
<1> QED BY <1>1, <1>5, <1>6, <1>8, <1>9, <1>10 DEF Inv
LEMMA Removed ==
  ASSUME Finite, NEW o \in objs, objs' = objs \ {o}
  PROVE  \A b \in Addr :
           /\ b = o.id => Cardinality(Holders(b)') + 1 = Cardinality(Holders(b))
           /\ b # o.id => Holders(b)' = Holders(b)
<1>1. ASSUME NEW b \in Addr, b = o.id
      PROVE  Cardinality(Holders(b)') + 1 = Cardinality(Holders(b))
  <2>1. Holders(b)' = Holders(b) \ {o} /\ o \in Holders(b)
    BY <1>1 DEF Holders
  <2>2. IsFiniteSet(Holders(b)) /\ Cardinality(Holders(b)) \in Nat
    BY Counts
  <2>3. Cardinality(Holders(b)') = Cardinality(Holders(b)) - 1
    BY <2>1, <2>2, FS_RemoveElement
  <2> QED BY <2>2, <2>3
<1>2. \A b \in Addr : b # o.id => Holders(b)' = Holders(b)
  BY DEF Holders
<1> QED BY <1>1, <1>2

LEMMA Cut ==
  ASSUME Finite, NEW e \in imap, imap' = imap \ {e}
  PROVE  \A b \in Addr :
           /\ b = e.str => Cardinality(Entries(b)') + 1 = Cardinality(Entries(b))
           /\ b # e.str => Entries(b)' = Entries(b)
<1>1. ASSUME NEW b \in Addr, b = e.str
      PROVE  Cardinality(Entries(b)') + 1 = Cardinality(Entries(b))
  <2>1. Entries(b)' = Entries(b) \ {e} /\ e \in Entries(b)
    BY <1>1 DEF Entries
  <2>2. IsFiniteSet(Entries(b)) /\ Cardinality(Entries(b)) \in Nat
    BY Counts
  <2>3. Cardinality(Entries(b)') = Cardinality(Entries(b)) - 1
    BY <2>1, <2>2, FS_RemoveElement
  <2> QED BY <2>2, <2>3
<1>2. \A b \in Addr : b # e.str => Entries(b)' = Entries(b)
  BY DEF Entries
<1> QED BY <1>1, <1>2

\* One object goes, and gives its id back.
LEMMA ObjectGone ==
  ASSUME Inv, NEW o \in objs, objs' = objs \ {o}, imap' = imap, ctr' = ctr, held' = held,
         IF o.id \in Addr THEN Agstrfree(Once(o.id)) ELSE UNCHANGED strings
  PROVE  Inv'
<1>1. /\ held' \in [Content -> [plain : 0 .. MaxHeld, html : 0 .. MaxHeld]]
      /\ \A c \in Content : HeldOf(c)' = HeldOf(c) /\ HeldOf(c) \in Nat
  <2>1. \A c \in Content : HeldOf(c)' = HeldOf(c)
    BY HeldSame
  <2> QED BY <2>1, Bound DEF Inv, TypeOK
<1>2. /\ objs' \subseteq objs /\ imap' \subseteq imap
      /\ \A x \in objs' : x.given \in Local /\ x.type # "edge" =>
           \E e \in imap' : e.type = x.type /\ e.id = x.id
  BY DEF Inv, Named
<1>3. \A b \in Addr : Entries(b)' = Entries(b)
  BY DEF Entries
<1>4. \A b \in Addr : Cardinality(Holders(b)) \in Nat /\ Cardinality(Entries(b)) \in Nat
  BY Counts DEF Inv
<1>5. \A b \in Addr :
        /\ b = o.id => Cardinality(Holders(b)') + 1 = Cardinality(Holders(b))
        /\ b # o.id => Holders(b)' = Holders(b)
  BY Removed DEF Inv
<1>6. \A b \in Addr : b # o.id => Uses(b)' = Uses(b) /\ Uses(b) \in Nat
  BY <1>3, <1>4, <1>5 DEF Uses
<1>7. CASE o.id \in Addr
  <2> DEFINE gone == Once(o.id)
  <2>1. /\ gone \in [Addr -> Nat] /\ gone[o.id] = 1
        /\ \A b \in Addr : b # o.id => gone[b] = 0
    BY <1>7, OnceIs
  <2>2. s[o.id] # NULL
    BY <1>7 DEF Inv, Named
  <2>3. \A b \in Addr : s[b] = NULL => gone[b] = 0
    BY <2>1, <2>2
  <2>4. Agstrfree(gone)
    BY <1>7
  <2> HIDE DEF gone
  <2>5. ASSUME NEW b \in Addr, NEW c \in Content, s[b] = c
        PROVE  Uses(b)' + HeldOf(c)' + gone[b] = Uses(b) + HeldOf(c)
    <3>1. CASE b = o.id
      <4>1. Cardinality(Holders(b)') + 1 = Cardinality(Holders(b))
        BY <1>5, <3>1
      <4>2. /\ Uses(b) = Cardinality(Holders(b)) + Cardinality(Entries(b))
            /\ Uses(b)' = Cardinality(Holders(b)') + Cardinality(Entries(b))
        BY <1>3 DEF Uses
      <4>3. Cardinality(Holders(b)') = Cardinality(Holders(b)) - 1
        <5>1. IsFiniteSet(Holders(b)')
          <6>1. Holders(b)' \in SUBSET objs
            BY DEF Holders
          <6> QED BY <6>1, FS_Subset DEF Inv, Finite
        <5>2. Cardinality(Holders(b)') \in Nat
          BY <5>1, FS_CardinalityType
        <5> QED BY <4>1, <5>2, <1>4
      <4> QED BY <4>2, <4>3, <1>1, <1>4, <2>1, <3>1
    <3>2. CASE b # o.id
      BY <3>2, <2>1, <1>1, <1>6
    <3> QED BY <3>1, <3>2
  <2> QED BY <1>1, <1>2, <2>1, <2>3, <2>4, <2>5, ShrinkSafe
<1>8. CASE o.id \notin Addr
  <2> DEFINE gone == [b \in Addr |-> 0]
  <2>1. Agstrfree(gone)
    BY <1>8, NothingFreed
  <2>2. gone \in [Addr -> Nat] /\ \A b \in Addr : gone[b] = 0
    OBVIOUS
  <2> HIDE DEF gone
  <2>3. ASSUME NEW b \in Addr, NEW c \in Content, s[b] = c
        PROVE  Uses(b)' + HeldOf(c)' + gone[b] = Uses(b) + HeldOf(c)
    BY <1>1, <1>6, <1>8, <2>2
  <2> QED BY <1>1, <1>2, <2>1, <2>2, <2>3, ShrinkSafe
<1> QED BY <1>7, <1>8
\* One object goes with its entry in the internal map.
LEMMA LocalGone ==
  ASSUME Inv, NEW o \in objs, o.type # "graph", o.id \notin Addr,
         NEW e \in imap, e.type = o.type, e.id = o.id,
         objs' = objs \ {o}, imap' = imap \ {e}, ctr' = ctr, held' = held,
         Agstrfree(Once(e.str))
  PROVE  Inv'
<1> DEFINE gone == Once(e.str)
<1>1. /\ held' \in [Content -> [plain : 0 .. MaxHeld, html : 0 .. MaxHeld]]
      /\ \A c \in Content : HeldOf(c)' = HeldOf(c) /\ HeldOf(c) \in Nat
  <2>1. \A c \in Content : HeldOf(c)' = HeldOf(c)
    BY HeldSame
  <2> QED BY <2>1, Bound DEF Inv, TypeOK
<1>2. /\ e.str \in Addr /\ s[e.str] # NULL
      /\ gone \in [Addr -> Nat] /\ gone[e.str] = 1
      /\ \A b \in Addr : b # e.str => gone[b] = 0
  <2>1. e.str \in Addr /\ s[e.str] # NULL
    BY NamesAssumption DEF Inv, Linked, TypeOK, Entry, NamesAssumption
  <2> QED BY <2>1, OnceIs
<1>3. Agstrfree(gone)
  OBVIOUS
<1> HIDE DEF gone
<1>4. \A b \in Addr : s[b] = NULL => gone[b] = 0
  BY <1>2
<1>5. \A b \in Addr : /\ Holders(b)' = Holders(b)
                      /\ b = e.str => Cardinality(Entries(b)') + 1 = Cardinality(Entries(b))
                      /\ b # e.str => Entries(b)' = Entries(b)
  BY Removed, Cut DEF Inv
<1>6. \A b \in Addr : /\ Cardinality(Holders(b)) \in Nat /\ Cardinality(Entries(b)) \in Nat
                      /\ Cardinality(Entries(b)') \in Nat
  <2>1. ASSUME NEW b \in Addr PROVE Cardinality(Entries(b)') \in Nat
    <3>1. Entries(b)' \in SUBSET imap
      BY DEF Entries
    <3>2. IsFiniteSet(Entries(b)')
      BY <3>1, FS_Subset DEF Inv, Finite
    <3> QED BY <3>2, FS_CardinalityType
  <2> QED BY <2>1, Counts DEF Inv
<1>7. ASSUME NEW b \in Addr, NEW c \in Content, s[b] = c
      PROVE  Uses(b)' + HeldOf(c)' + gone[b] = Uses(b) + HeldOf(c)
  <2>1. CASE b = e.str
    <3>1. /\ Uses(b) = Cardinality(Holders(b)) + Cardinality(Entries(b))
          /\ Uses(b)' = Cardinality(Holders(b)) + Cardinality(Entries(b)')
      BY <1>5 DEF Uses
    <3>2. Cardinality(Entries(b)') + 1 = Cardinality(Entries(b))
      BY <2>1, <1>5
    <3> QED BY <3>1, <3>2, <2>1, <1>1, <1>2, <1>6
  <2>2. CASE b # e.str
    <3>1. Uses(b)' = Uses(b) /\ Uses(b) \in Nat
      BY <2>2, <1>5, <1>6 DEF Uses
    <3> QED BY <2>2, <3>1, <1>1, <1>2
  <2> QED BY <2>1, <2>2
<1>8. ASSUME NEW x \in objs', x.given \in Local /\ x.type # "edge"
      PROVE  \E f \in imap' : f.type = x.type /\ f.id = x.id
  <2>1. PICK f \in imap : f.type = x.type /\ f.id = x.id
    BY <1>8 DEF Inv, Named
  <2>2. f # e
    <3> SUFFICES ASSUME f = e PROVE FALSE
      OBVIOUS
    <3>1. x \in objs /\ x # o /\ x.type = o.type /\ x.id = o.id
      BY <2>1
    <3>2. o.type \in Type
      BY DEF Inv, TypeOK, Obj
    <3>3. o.type = "node"
      BY <1>8, <3>1, <3>2, NamesAssumption DEF NamesAssumption
    <3>4. x.place = Main /\ o.place = Main
      BY <3>1, <3>3 DEF Inv, Distinct, PlacesOf
    <3> QED BY <3>1, <3>4 DEF Inv, Distinct
  <2> QED BY <2>1, <2>2
<1>9. objs' \subseteq objs /\ imap' \subseteq imap
  OBVIOUS
<1> QED BY <1>1, <1>2, <1>3, <1>4, <1>7, <1>8, <1>9, ShrinkSafe

LEMMA DeleteSafe ==
  ASSUME Inv, NEW o \in objs, Delete(o) PROVE Inv'
<1> DEFINE found == {e \in imap : e.type = o.type /\ e.id = o.id}
<1>1. /\ o.type # "graph" /\ objs' = objs \ {o} /\ ctr' = ctr /\ held' = held
      /\ imap' = imap \ found
      /\ o.id % 2 = 0 => Agstrfree(Once(o.id))
      /\ o.id % 2 # 0 /\ found # {} => \E e \in found : Agstrfree(Once(e.str))
      /\ o.id % 2 # 0 /\ found = {} => UNCHANGED strings
  BY DEF Delete, Agfreeid
<1>2. o.id \in Addr <=> o.id % 2 = 0
  <2>1. o.id \in Id
    BY DEF Inv, TypeOK, Obj
  <2> QED BY <2>1, Parity DEF Inv
<1>3. CASE o.id \in Addr
  <2>1. found = {}
    BY <1>3 DEF Inv, Fresh
  <2>2. imap' = imap
    BY <1>1, <2>1
  <2> QED BY <1>1, <1>2, <1>3, <2>2, ObjectGone
<1>4. CASE o.id \notin Addr /\ found = {}
  <2>1. imap' = imap
    BY <1>1, <1>4
  <2> QED BY <1>1, <1>2, <1>4, <2>1, ObjectGone
<1>5. CASE o.id \notin Addr /\ found # {}
  <2>1. PICK e \in found : Agstrfree(Once(e.str))
    BY <1>1, <1>2, <1>5
  <2>2. found = {e}
    BY <2>1 DEF Inv, Linked
  <2>3. e \in imap /\ e.type = o.type /\ e.id = o.id /\ imap' = imap \ {e}
    BY <1>1, <2>1, <2>2
  <2> QED BY <1>1, <1>5, <2>1, <2>3, LocalGone
<1> QED BY <1>3, <1>4, <1>5

LEMMA AgcloseSafe ==
  ASSUME Inv, ~ClosesAny, NEW o \in objs, Agclose(o) PROVE Inv'
<1>1. /\ imap' = imap /\ objs' = objs \ {o} /\ ctr' = ctr /\ held' = held
      /\ o.id % 2 = 0 => Agstrfree(Once(o.id))
      /\ o.id % 2 # 0 => UNCHANGED strings
  BY DEF Agclose
<1>2. o.id \in Addr <=> o.id % 2 = 0
  <2>1. o.id \in Id
    BY DEF Inv, TypeOK, Obj
  <2> QED BY <2>1, Parity DEF Inv
<1> QED BY <1>1, <1>2, ObjectGone
\* The objects after ClearLocalNames.
LEMMA Renamed ==
  ASSUME Inv, ClearLocalNames
  PROVE  /\ \A x \in objs' : \E o \in objs :
              /\ x \in Obj /\ x.type = o.type /\ x.place = o.place /\ x.id = o.id
              /\ o.id \in Addr => x = o
              /\ o.id \notin Addr => x.given = NULL
         /\ \A o \in objs : o.id \in Addr => o \in objs'
         /\ IsFiniteSet(objs')
<1> DEFINE Ren(o) == [o EXCEPT !.given = IF @ \in Local THEN NULL ELSE @]
<1>1. objs' = {Ren(o) : o \in objs}
  BY DEF ClearLocalNames
<1>2. ASSUME NEW o \in objs
      PROVE  /\ Ren(o) \in Obj /\ Ren(o).type = o.type /\ Ren(o).place = o.place
             /\ Ren(o).id = o.id
             /\ o.id \in Addr => Ren(o) = o
             /\ o.id \notin Addr => Ren(o).given = NULL
  <2>1. o \in Obj /\ o.given \in Name \cup {NULL}
    BY DEF Inv, TypeOK, Obj
  <2>2. Ren(o) \in Obj /\ Ren(o).type = o.type /\ Ren(o).place = o.place /\ Ren(o).id = o.id
    BY <2>1 DEF Obj
  <2>3. Ren(o).given = IF o.given \in Local THEN NULL ELSE o.given
    BY <2>1 DEF Obj
  <2>4. o.given \notin Local => Ren(o) = o
    BY <2>1 DEF Obj
  <2>5. o.id \in Addr => o.given \notin Local
    BY DEF Inv, Named
  <2>6. o.id \notin Addr => o.given \in Local \cup {NULL}
    BY DEF Inv, Named
  <2> QED BY <2>2, <2>3, <2>4, <2>5, <2>6
<1> HIDE DEF Ren
<1>3. IsFiniteSet(objs')
  <2> DEFINE f == [o \in objs |-> Ren(o)]
  <2>1. f \in Surjection(objs, objs')
    BY <1>1 DEF Surjection
  <2>2. IsFiniteSet(objs)
    BY DEF Inv, Finite
  <2> QED BY <2>1, <2>2, FS_Surjection
<1> QED BY <1>1, <1>2, <1>3

LEMMA ClearLocalNamesSafe ==
  ASSUME Inv, ClearLocalNames PROVE Inv'
<1> DEFINE gone == [a \in Addr |-> Cardinality({e \in imap : e.str = a})]
<1>1. imap' = {} /\ Agstrfree(gone) /\ ctr' = ctr /\ held' = held
  BY DEF ClearLocalNames
<1>2. \A b \in Addr : gone[b] = Cardinality(Entries(b)) /\ gone[b] \in Nat
  BY Counts DEF Inv, Entries
<1>3. gone \in [Addr -> Nat]
  BY <1>2
<1> HIDE DEF gone
<1>4. \A b \in Addr : Holders(b)' = Holders(b)
  BY Renamed DEF Holders
<1>5. \A b \in Addr : Entries(b)' = {}
  BY <1>1 DEF Entries
<1>6. \A b \in Addr : /\ Uses(b)' = Cardinality(Holders(b)) /\ Uses(b)' \in Nat
                      /\ Uses(b)' + gone[b] = Uses(b)
                      /\ Uses(b) = 0 => Uses(b)' = 0 /\ gone[b] = 0
  <2>1. \A b \in Addr : Cardinality(Holders(b)) \in Nat /\ Cardinality(Entries(b)) \in Nat
    BY Counts DEF Inv
  <2>2. \A b \in Addr : Cardinality(Entries(b)') = 0
    BY <1>5, FS_EmptySet
  <2>3. \A b \in Addr : /\ Uses(b)' = Cardinality(Holders(b)) + 0
                        /\ Uses(b) = Cardinality(Holders(b)) + Cardinality(Entries(b))
    BY <1>4, <2>2 DEF Uses
  <2> QED BY <1>2, <2>1, <2>3
<1>7. \A c \in Content : HeldOf(c)' = HeldOf(c) /\ HeldOf(c) \in Nat
  <2>1. \A c \in Content : HeldOf(c)' = HeldOf(c)
    BY <1>1, HeldSame
  <2> QED BY <2>1, Bound
<1>8. /\ Counted' /\ Single'
      /\ s' \in [Addr -> Content \cup {NULL}] /\ refcnt' \in [Addr -> Nat] /\ html' = html
      /\ \A b \in Addr : s'[b] = s[b] \/ (s'[b] = NULL /\ Uses(b)' = 0)
  <2>1. \A b \in Addr : s[b] = NULL => gone[b] = 0 /\ Uses(b)' = 0
    BY <1>6 DEF Inv, Counted
  <2>2. \A b \in Addr : \A c \in Content :
          s[b] = c => Uses(b)' + HeldOf(c)' + gone[b] = Uses(b) + HeldOf(c)
    BY <1>2, <1>6, <1>7
  <2> QED BY <1>1, <1>3, <1>6, <1>7, <2>1, <2>2, FreeIs
<1>9. \A x \in objs' : \E o \in objs :
        /\ x \in Obj /\ x.type = o.type /\ x.place = o.place /\ x.id = o.id
        /\ o.id \in Addr => x = o
        /\ o.id \notin Addr => x.given = NULL
  BY Renamed
<1>10. TypeOK'
  BY <1>1, <1>8, <1>9 DEF Inv, TypeOK
<1>11. Finite'
  BY <1>1, Renamed, FS_EmptySet DEF Finite
<1>12. Fresh'
  BY <1>1, <1>9 DEF Inv, Fresh
<1>13. Linked'
  BY <1>1 DEF Linked
<1>14. Distinct'
  <2>1. ASSUME NEW x \in objs', NEW y \in objs', x.type = y.type, x.place = y.place, x.id = y.id
        PROVE  x = y
    <3>1. PICK o \in objs :
            /\ x \in Obj /\ x.type = o.type /\ x.place = o.place /\ x.id = o.id
            /\ o.id \in Addr => x = o
            /\ o.id \notin Addr => x.given = NULL
      BY <1>9
    <3>2. PICK p \in objs :
            /\ y \in Obj /\ y.type = p.type /\ y.place = p.place /\ y.id = p.id
            /\ p.id \in Addr => y = p
            /\ p.id \notin Addr => y.given = NULL
      BY <1>9
    <3>3. o = p
      BY <2>1, <3>1, <3>2 DEF Inv, Distinct
    <3>4. CASE o.id \in Addr
      BY <3>1, <3>2, <3>3, <3>4
    <3>5. CASE o.id \notin Addr
      <4>1. x.given = y.given
        BY <3>1, <3>2, <3>3, <3>5
      <4>2. /\ x = [type |-> x.type, place |-> x.place, id |-> x.id, given |-> x.given]
            /\ y = [type |-> y.type, place |-> y.place, id |-> y.id, given |-> y.given]
        BY <3>1, <3>2 DEF Obj
      <4> QED BY <2>1, <4>1, <4>2
    <3> QED BY <3>4, <3>5
  <2>2. \A x \in objs' : x.place \in PlacesOf(x.type)
    BY <1>9 DEF Inv, Distinct
  <2> QED BY <2>1, <2>2 DEF Distinct
<1>15. Named'
  <2>1. NULL \notin Local
    BY NamesAssumption DEF NamesAssumption
  <2>2. (Finite => /\ \A o \in objs : Uses(o.id) # 0
                   /\ \A e \in imap : Uses(e.str) # 0)'
    BY InUse, PTL
  <2>3. ASSUME NEW x \in objs'
        PROVE  /\ x.id \in Addr => s'[x.id] = x.given /\ x.given \notin Local \cup {NULL}
               /\ x.id \notin Addr => x.given = NULL
    <3>1. PICK o \in objs : /\ x.id = o.id
                            /\ o.id \in Addr => x = o
                            /\ o.id \notin Addr => x.given = NULL
      BY <1>9
    <3>2. CASE o.id \in Addr
      <4>1. x = o /\ s[o.id] = o.given /\ o.given \notin Local \cup {NULL}
        BY <3>1, <3>2 DEF Inv, Named
      <4>3. Uses(x.id)' # 0
        BY <2>2, <1>11
      <4>4. s'[x.id] = s[x.id]
        BY <1>8, <3>1, <3>2, <4>3
      <4> QED BY <4>1, <4>4, <3>2
    <3>3. CASE o.id \notin Addr
      BY <3>1, <3>3
    <3> QED BY <3>2, <3>3
  <2> QED BY <1>1, <2>1, <2>3 DEF Named
<1> QED BY <1>8, <1>10, <1>11, <1>12, <1>13, <1>14, <1>15 DEF Inv
-----------------------------------------------------------------------------
(* The client.                                                             *)

LEMMA ClientAsks ==
  ASSUME Inv, NEW c \in Content, NEW a, NEW bit \in BOOLEAN, Agstrdup(c, a, bit),
         held' \in [Content -> [plain : 0 .. MaxHeld, html : 0 .. MaxHeld]],
         HeldOf(c)' = HeldOf(c) + 1,
         \A d \in Content : d # c => HeldOf(d)' = HeldOf(d),
         UNCHANGED <<ctr, imap, objs>>
  PROVE  Inv'
<1>1. /\ a \in Addr /\ Single' /\ s' \in [Addr -> Content \cup {NULL}]
      /\ refcnt' \in [Addr -> Nat] /\ html' \in [Addr -> BOOLEAN]
  BY DupIs
<1>2. \A b \in Addr : s[b] # NULL => s'[b] = s[b]
  BY DupKeeps
<1>3. \A b \in Addr : Uses(b)' = Uses(b)
  BY DEF Uses, Holders, Entries
<1>4. Counted'
  <2>1. HeldOf(c) \in Nat /\ Uses(a) \in Nat
    BY <1>1, Bound
  <2>2. Uses(a)' + HeldOf(c)' = Uses(a) + HeldOf(c) + 1
    BY <1>1, <1>3, <2>1
  <2> QED BY <1>3, <2>2, CountedUp
<1>5. TypeOK' /\ Fresh' /\ Distinct' /\ Finite'
  BY <1>1 DEF Inv, TypeOK, Fresh, Distinct, Finite
<1>6. NULL \notin Local
  BY NamesAssumption DEF NamesAssumption
<1>7. \A e \in imap : s'[e.str] = s[e.str]
  BY <1>2, <1>6 DEF Inv, Linked, TypeOK, Entry
<1>8. Linked'
  BY <1>7 DEF Inv, Linked
<1>9. Named'
  <2>1. \A x \in objs : x.id \in Addr => s'[x.id] = x.given /\ x.given \notin Local \cup {NULL}
    BY <1>2 DEF Inv, Named
  <2>2. \A x \in objs, e \in imap : e.type = x.type /\ e.id = x.id => s'[e.str] = x.given
    BY <1>7 DEF Inv, Named
  <2> QED BY <2>1, <2>2 DEF Inv, Named
<1> QED BY <1>1, <1>4, <1>5, <1>8, <1>9 DEF Inv

LEMMA ClientDupSafe ==
  ASSUME Inv, NEW c \in Text, ClientDup(c) PROVE Inv'
<1>1. PICK a : Agstrdup(c, a, FALSE)
  BY DEF ClientDup
<1>2. /\ held[c].plain < MaxHeld /\ held' = [held EXCEPT ![c].plain = @ + 1]
      /\ UNCHANGED <<ctr, imap, objs>> /\ c \in Content
  BY DEF ClientDup, Content
<1>3. /\ held \in [Content -> [plain : 0 .. MaxHeld, html : 0 .. MaxHeld]]
      /\ MaxHeld \in Nat
  BY NamesAssumption DEF Inv, TypeOK, NamesAssumption
<1>4. /\ held' \in [Content -> [plain : 0 .. MaxHeld, html : 0 .. MaxHeld]]
      /\ held'[c].plain = held[c].plain + 1 /\ held'[c].html = held[c].html
      /\ \A d \in Content : d # c => held'[d] = held[d]
  BY <1>2, <1>3
<1>5. /\ HeldOf(c)' = HeldOf(c) + 1
      /\ \A d \in Content : d # c => HeldOf(d)' = HeldOf(d)
  <2>1. held[c].plain \in Nat /\ held[c].html \in Nat
    BY <1>2, Bound
  <2> QED BY <2>1, <1>2, <1>4 DEF HeldOf
<1> QED BY <1>1, <1>2, <1>4, <1>5, ClientAsks

LEMMA ClientDupHtmlSafe ==
  ASSUME Inv, NEW c \in Markup, ClientDupHtml(c) PROVE Inv'
<1>1. PICK a : Agstrdup(c, a, TRUE)
  BY DEF ClientDupHtml
<1>2. /\ held[c].html < MaxHeld /\ held' = [held EXCEPT ![c].html = @ + 1]
      /\ UNCHANGED <<ctr, imap, objs>> /\ c \in Content
  BY DEF ClientDupHtml, Content
<1>3. /\ held \in [Content -> [plain : 0 .. MaxHeld, html : 0 .. MaxHeld]]
      /\ MaxHeld \in Nat
  BY NamesAssumption DEF Inv, TypeOK, NamesAssumption
<1>4. /\ held' \in [Content -> [plain : 0 .. MaxHeld, html : 0 .. MaxHeld]]
      /\ held'[c].html = held[c].html + 1 /\ held'[c].plain = held[c].plain
      /\ \A d \in Content : d # c => held'[d] = held[d]
  BY <1>2, <1>3
<1>5. /\ HeldOf(c)' = HeldOf(c) + 1
      /\ \A d \in Content : d # c => HeldOf(d)' = HeldOf(d)
  <2>1. held[c].plain \in Nat /\ held[c].html \in Nat
    BY <1>2, Bound
  <2> QED BY <2>1, <1>2, <1>4 DEF HeldOf
<1> QED BY <1>1, <1>2, <1>4, <1>5, ClientAsks

LEMMA ClientFreeSafe ==
  ASSUME Inv, NEW c \in Text \cup Markup, NEW kind \in {"plain", "html"}, ClientFree(c, kind)
  PROVE  Inv'
<1>1. PICK a \in Agstrbind(c) : Agstrfree(Once(a))
  BY DEF ClientFree
<1>2. /\ held[c][kind] > 0 /\ held' = [held EXCEPT ![c][kind] = @ - 1]
      /\ ctr' = ctr /\ imap' = imap /\ objs' = objs /\ c \in Content
  BY DEF ClientFree, Content
<1>3. /\ held \in [Content -> [plain : 0 .. MaxHeld, html : 0 .. MaxHeld]]
      /\ MaxHeld \in Nat
  BY NamesAssumption DEF Inv, TypeOK, NamesAssumption
<1>4. /\ held' \in [Content -> [plain : 0 .. MaxHeld, html : 0 .. MaxHeld]]
      /\ kind = "plain" => held'[c].plain = held[c].plain - 1 /\ held'[c].html = held[c].html
      /\ kind = "html" => held'[c].html = held[c].html - 1 /\ held'[c].plain = held[c].plain
      /\ \A d \in Content : d # c => held'[d] = held[d]
  <2>1. CASE kind = "plain"
    BY <1>2, <1>3, <2>1
  <2>2. CASE kind = "html"
    BY <1>2, <1>3, <2>2
  <2> QED BY <2>1, <2>2
<1>5. /\ HeldOf(c) \in Nat /\ HeldOf(c) # 0 /\ HeldOf(c)' \in Nat
      /\ HeldOf(c)' + 1 = HeldOf(c)
      /\ \A d \in Content : d # c => HeldOf(d)' = HeldOf(d) /\ HeldOf(d) \in Nat
  <2>1. \A d \in Content : held[d].plain \in Nat /\ held[d].html \in Nat
    BY Bound
  <2>2. \A d \in Content : d # c => HeldOf(d)' = HeldOf(d) /\ HeldOf(d) \in Nat
    BY <2>1, <1>4 DEF HeldOf
  <2>3. CASE kind = "plain"
    BY <2>1, <2>2, <2>3, <1>2, <1>4 DEF HeldOf
  <2>4. CASE kind = "html"
    BY <2>1, <2>2, <2>4, <1>2, <1>4 DEF HeldOf
  <2> QED BY <2>3, <2>4
<1>6. a \in Addr /\ s[a] = c /\ c # NULL
  BY <1>1, <1>2, Bound DEF Agstrbind
<1> DEFINE gone == Once(a)
<1>7. /\ gone \in [Addr -> Nat] /\ gone[a] = 1 /\ Agstrfree(gone)
      /\ \A b \in Addr : b # a => gone[b] = 0
  BY <1>1, <1>6, OnceIs
<1> HIDE DEF gone
<1>8. \A b \in Addr : Uses(b)' = Uses(b) /\ Uses(b) \in Nat
  <2>1. \A b \in Addr : Uses(b)' = Uses(b)
    BY <1>2 DEF Uses, Holders, Entries
  <2> QED BY <2>1, Bound
<1>9. ASSUME NEW b \in Addr, NEW d \in Content, s[b] = d
      PROVE  Uses(b)' + HeldOf(d)' + gone[b] = Uses(b) + HeldOf(d)
  <2>1. b = a <=> d = c
    BY <1>6, <1>9 DEF Inv, Single
  <2>2. CASE b = a
    BY <2>1, <2>2, <1>5, <1>7, <1>8
  <2>3. CASE b # a
    BY <2>1, <2>3, <1>5, <1>7, <1>8
  <2> QED BY <2>2, <2>3
<1>10. \A b \in Addr : s[b] = NULL => gone[b] = 0
  BY <1>6, <1>7
<1>11. \A d \in Content : HeldOf(d) = 0 => HeldOf(d)' = 0
  BY <1>5
<1>12. \A x \in objs' : x.given \in Local /\ x.type # "edge" =>
           \E e \in imap' : e.type = x.type /\ e.id = x.id
  BY <1>2 DEF Inv, Named
<1>13. objs' \subseteq objs /\ imap' \subseteq imap
  BY <1>2
<1> QED BY <1>2, <1>4, <1>7, <1>9, <1>10, <1>11, <1>12, <1>13, ShrinkSafe

-----------------------------------------------------------------------------
(* Every step.                                                             *)

LEMMA InitInv == Init => Inv
<1> SUFFICES ASSUME Init PROVE Inv
  OBVIOUS
<1>1. /\ MaxHeld \in Nat /\ \A c \in Content : c # NULL
  BY NamesAssumption DEF NamesAssumption, Content
<1>2. /\ \A a \in Addr : s[a] = NULL /\ refcnt[a] = 0
      /\ \A c \in Content : held[c] = [plain |-> 0, html |-> 0]
      /\ ctr = 1 /\ imap = {} /\ objs = {}
  BY DEF Init
<1>3. TypeOK
  <2>1. 0 \in 0 .. MaxHeld
    BY <1>1
  <2>2. 1 % 2 = 1
    OBVIOUS
  <2> QED BY <2>1, <2>2, <1>1 DEF Init, TypeOK
<1>4. Finite
  BY <1>2, FS_EmptySet DEF Finite
<1>5. Counted
  <2>1. ASSUME NEW a \in Addr PROVE Uses(a) = 0
    <3>1. Holders(a) = {} /\ Entries(a) = {}
      BY <1>2 DEF Holders, Entries
    <3> QED BY <3>1, FS_EmptySet DEF Uses
  <2>2. \A c \in Content : HeldOf(c) = 0
    BY <1>2 DEF HeldOf
  <2> QED BY <2>1, <2>2, <1>2 DEF Counted
<1> QED BY <1>2, <1>3, <1>4, <1>5 DEF Inv, Fresh, Named, Linked, Distinct, Single

LEMMA NextInv ==
  ASSUME ~ClosesAny, Inv, [Next]_vars PROVE Inv'
<1>1. ASSUME NEW t \in Type, NEW p \in PlacesOf(t), MakeAnonymous(t, p) PROVE Inv'
  BY <1>1, MakeAnonymousSafe
<1>2. ASSUME NEW t \in Type, NEW p \in PlacesOf(t), NEW n \in Name, MakeNamed(t, p, n)
      PROVE  Inv'
  BY <1>2, MakeNamedSafe
<1>3. ASSUME NEW t \in Type, NEW p \in PlacesOf(t), NEW n \in Name, MakeShared(t, p, n)
      PROVE  Inv'
  BY <1>3, MakeSharedSafe
<1>4. ASSUME NEW t \in Type, NEW p \in PlacesOf(t), NEW n \in Name, MakeLocal(t, p, n)
      PROVE  Inv'
  BY <1>4, MakeLocalSafe
<1>5. CASE ClearLocalNames
  BY <1>5, ClearLocalNamesSafe
<1>6. ASSUME NEW o \in objs, Delete(o) PROVE Inv'
  BY <1>6, DeleteSafe
<1>7. ASSUME NEW o \in objs, Agclose(o) PROVE Inv'
  BY <1>7, AgcloseSafe
<1>8. ASSUME NEW c \in Text, ClientDup(c) PROVE Inv'
  BY <1>8, ClientDupSafe
<1>9. ASSUME NEW c \in Markup, ClientDupHtml(c) PROVE Inv'
  BY <1>9, ClientDupHtmlSafe
<1>10. ASSUME NEW c \in Text \cup Markup, NEW kind \in {"plain", "html"}, ClientFree(c, kind)
       PROVE  Inv'
  BY <1>10, ClientFreeSafe
<1>11. CASE UNCHANGED vars
  BY <1>11 DEF vars, strings, Inv, TypeOK, Fresh, Named, Linked, Distinct, Single, Counted,
     Finite, Uses, Holders, Entries, HeldOf, Agstrbind
<1>12. CASE Make
  BY <1>1, <1>2, <1>3, <1>4, <1>12 DEF Make
<1>13. CASE Unmake
  BY <1>5, <1>6, <1>7, <1>13 DEF Unmake
<1>14. CASE Client
  BY <1>8, <1>9, <1>10, <1>14 DEF Client
<1> QED BY <1>11, <1>12, <1>13, <1>14 DEF Next

LEMMA Always ==
  ASSUME ~ClosesAny PROVE Spec => []Inv
BY InitInv, NextInv, PTL DEF Spec
-----------------------------------------------------------------------------
(* What follows.                                                           *)

\* Strings are counted, whatever names come and go: a string is there once, and
\* its count is the number of objects, entries of the internal map and uses of
\* the client that agstrdup counted and agstrfree has not (refstr.c, imap.c,
\* id.c), as long as no subgraph is closed while local names are in use.
THEOREM StringsStayCounted ==
  ASSUME ~ClosesAny PROVE Spec => []StringsCounted
<1>1. Inv => StringsCounted
  <2> SUFFICES ASSUME Inv, NEW a \in Addr
               PROVE  /\ s[a] = NULL => Uses(a) = 0 /\ refcnt[a] = 0
                      /\ s[a] # NULL =>
                           /\ refcnt[a] = Uses(a) + held[s[a]].plain + held[s[a]].html
                           /\ Agstrbind(s[a]) = {a}
    BY DEF StringsCounted, Uses, Holders, Entries
  <2>1. CASE s[a] = NULL
    BY <2>1 DEF Inv, Counted
  <2>2. CASE s[a] # NULL
    <3>1. s[a] \in Content
      BY <2>2, Bound
    <3>2. refcnt[a] = Uses(a) + HeldOf(s[a])
      BY <2>2 DEF Inv, Counted
    <3>3. /\ Uses(a) \in Nat /\ held[s[a]].plain \in Nat /\ held[s[a]].html \in Nat
      BY <3>1, Bound
    <3>4. HeldOf(s[a]) = held[s[a]].plain + held[s[a]].html
      BY DEF HeldOf
    <3>5. refcnt[a] = Uses(a) + held[s[a]].plain + held[s[a]].html
      BY <3>2, <3>3, <3>4
    <3>6. Agstrbind(s[a]) = {a}
      BY <2>2 DEF Agstrbind, Inv, Single
    <3> QED BY <2>2, <3>5, <3>6
  <2> QED BY <2>1, <2>2
<1> QED BY <1>1, Always, PTL

\* What agnameof answers.
LEMMA NameOf ==
  ASSUME Inv, NEW o \in objs
  PROVE  \/ /\ o.id \in Addr /\ Agnameof(o) = s[o.id] /\ s[o.id] = o.given
            /\ o.given \in Name \ Local
         \/ /\ o.id \notin Addr
            /\ \E e \in imap : /\ e.type = o.type /\ e.id = o.id
                               /\ Agnameof(o) = s[e.str] /\ s[e.str] = o.given
                               /\ s[e.str] \in Local
         \/ /\ o.id \notin Addr /\ Agnameof(o) \in {NULL, <<"%", o.id>>}
            /\ \A e \in imap : ~(e.type = o.type /\ e.id = o.id)
<1> DEFINE local == {e \in imap : e.type = o.type /\ e.id = o.id}
<1>1. o.id \in Addr <=> o.id % 2 = 0
  <2>1. o.id \in Id
    BY DEF Inv, TypeOK, Obj
  <2> QED BY <2>1, Parity DEF Inv
<1>2. CASE local # {}
  <2> DEFINE e == CHOOSE e \in local : TRUE
  <2>1. e \in local
    BY <1>2
  <2>2. Agnameof(o) = s[e.str]
    BY <1>2 DEF Agnameof
  <2> HIDE DEF e
  <2>3. /\ e \in imap /\ e.type = o.type /\ e.id = o.id /\ s[e.str] \in Local
        /\ s[e.str] = o.given /\ o.id \notin Addr
    BY <2>1 DEF Inv, Linked, Named, Fresh
  <2> QED BY <2>2, <2>3
<1>3. CASE local = {} /\ o.id \in Addr
  <2>1. Agnameof(o) = s[o.id]
    BY <1>1, <1>3 DEF Agnameof
  <2>2. s[o.id] = o.given /\ o.given \in Name \ Local
    BY <1>3 DEF Inv, Named, TypeOK, Obj
  <2> QED BY <1>3, <2>1, <2>2
<1>4. CASE local = {} /\ o.id \notin Addr
  <2>1. Agnameof(o) \in {NULL, <<"%", o.id>>}
    BY <1>1, <1>4 DEF Agnameof
  <2> QED BY <1>4, <2>1
<1> QED BY <1>2, <1>3, <1>4

\* Local keys of edges excepted, agnameof gives back the name an object was made
\* with, and who asks agsubg, agnode or agedge for this name finds this object,
\* whatever was made, deleted or forgotten in between, as long as no subgraph is
\* closed while local names are in use.  (A local key is one id for all edges that
\* have it, and agfreeid, id.c:125, forgets it with the first that is deleted.)
THEOREM NamesAreKept ==
  ASSUME ~ClosesAny PROVE Spec => []NamesKept
<1>1. Inv => NamesKept
  <2> SUFFICES ASSUME Inv, NEW o \in objs, o.given # NULL,
                      ~(o.type = "edge" /\ o.given \in Local)
               PROVE  Answers(o)
    BY DEF NamesKept
  <2>1. ASSUME Probe(o.type, o.given) = {o.id}
        PROVE  Find(o.type, o.place, o.given) = {o}
    BY <2>1 DEF Find, Inv, Distinct
  <2>2. NULL \notin Local
    BY NamesAssumption DEF NamesAssumption
  <2>3. CASE o.id \in Addr
    <3>1. Agnameof(o) = o.given /\ s[o.id] = o.given /\ o.given \notin Local
      BY <2>3, NameOf
    <3>2. Probe(o.type, o.given) = {o.id}
      BY <2>3, <3>1 DEF Probe, Agstrbind, Inv, Single
    <3> QED BY <2>1, <3>1, <3>2 DEF Answers
  <2>4. CASE o.id \notin Addr
    <3>1. o.given \in Local
      BY <2>4 DEF Inv, Named
    <3>2. \E e \in imap : e.type = o.type /\ e.id = o.id
      BY <3>1 DEF Inv, Named
    <3>3. PICK e \in imap : /\ e.type = o.type /\ e.id = o.id
                            /\ Agnameof(o) = s[e.str] /\ s[e.str] = o.given
      BY <2>4, <3>2, NameOf
    <3>4. \A f \in imap : f.str \in Addr
      BY DEF Inv, TypeOK, Entry
    <3>5. \A f \in imap : f.type = o.type /\ s[f.str] = o.given => f = e
      BY <2>2, <3>1, <3>3, <3>4 DEF Inv, Linked, Single
    <3>6. Lookup(o.type, o.given) = {o.id}
      BY <3>3, <3>4, <3>5 DEF Lookup, Agstrbind
    <3>7. Probe(o.type, o.given) = {o.id}
      BY <3>1, <3>6 DEF Probe
    <3> QED BY <2>1, <3>3, <3>7 DEF Answers
  <2> QED BY <2>3, <2>4
<1> QED BY <1>1, Always, PTL

\* No two objects in one place answer to one name, anonymous ones included, if
\* no client gives an object the name that agnameof prints for an anonymous one
\* and no subgraph is closed while local names are in use.
THEOREM NamesStayUnique ==
  ASSUME ~ClosesAny, \A i \in Id : <<"%", i>> \notin Name
  PROVE  Spec => []NamesUnique
<1>1. Inv => NamesUnique
  <2> SUFFICES ASSUME Inv, NEW o \in objs, NEW x \in objs, o # x, o.type = x.type,
                      o.place = x.place, Agnameof(o) # NULL, Agnameof(o) = Agnameof(x)
               PROVE  FALSE
    BY DEF NamesUnique
  <2>1. o.id # x.id
    BY DEF Inv, Distinct
  <2>2. /\ o.id \in Id /\ x.id \in Id
        /\ <<"%", o.id>> \notin Name /\ <<"%", x.id>> \notin Name
        /\ Local \subseteq Name /\ NULL \notin Name
    BY NamesAssumption DEF Inv, TypeOK, Obj, NamesAssumption
  <2>3. <<"%", o.id>> # <<"%", x.id>>
    BY <2>1
  <2>4. \A e \in imap : e.str \in Addr
    BY DEF Inv, TypeOK, Entry
  <2>5. CASE o.id \in Addr
    <3>1. Agnameof(o) = s[o.id] /\ Agnameof(o) \in Name \ Local
      BY <2>5, NameOf
    <3>2. CASE x.id \in Addr
      <4>1. s[x.id] = s[o.id]
        BY <3>1, <3>2, NameOf
      <4> QED BY <2>1, <2>5, <3>1, <3>2, <4>1 DEF Inv, Single
    <3>3. CASE x.id \notin Addr
      <4>1. Agnameof(x) \in Local \cup {NULL, <<"%", x.id>>}
        BY <3>3, NameOf
      <4> QED BY <2>2, <3>1, <4>1
    <3> QED BY <3>2, <3>3
  <2>6. CASE o.id \notin Addr /\ Agnameof(o) \in Local
    <3>1. PICK e \in imap : e.type = o.type /\ e.id = o.id /\ Agnameof(o) = s[e.str]
      BY <2>2, <2>6, NameOf
    <3>2. x.id \notin Addr
      <4>1. x.id \in Addr => Agnameof(x) \notin Local
        BY NameOf
      <4> QED BY <2>6, <4>1
    <3>3. PICK f \in imap : f.type = x.type /\ f.id = x.id /\ Agnameof(x) = s[f.str]
      BY <2>2, <2>6, <3>2, NameOf
    <3>4. e.str = f.str
      BY <2>4, <3>1, <3>3 DEF Inv, Single
    <3>5. e = f
      BY <3>1, <3>3, <3>4 DEF Inv, Linked
    <3> QED BY <2>1, <3>1, <3>3, <3>5
  <2>7. CASE o.id \notin Addr /\ Agnameof(o) \notin Local
    <3>1. Agnameof(o) = <<"%", o.id>>
      BY <2>7, NameOf
    <3>2. Agnameof(x) \in Name \cup {NULL, <<"%", x.id>>}
      BY <2>2, NameOf
    <3> QED BY <2>2, <2>3, <3>1, <3>2
  <2> QED BY <2>5, <2>6, <2>7
<1> QED BY <1>1, Always, PTL
=============================================================================
