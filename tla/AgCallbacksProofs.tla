------------------------- MODULE AgCallbacksProofs -------------------------
(* Theorems about callbacks: AgCallbacks, for any sets of objects, ids and *)
(* attributes, and AgDiscStack, for any sets of entries and disciplines    *)
(* and any client.                                                         *)
EXTENDS AgCallbacks, AgDiscStack, ChainsProofs, SequenceTheorems, TLAPS

\* The clients for which callbacks can be held safely: they have one graph, wait
\* with using an id or an address again until its deletion has been delivered,
\* change edges through the out-edge half, and in a callback only create and
\* change objects.
CarefulClient ==
  /\ Graph = {Root}
  /\ ~Reuses
  /\ ~UsesInEdges
  /\ InCallback \subseteq {"create", "update"}

-----------------------------------------------------------------------------
(* Types.                                                                  *)

LEMMA StageTypes ==
  /\ Len(ReleaseStages) = 6
  /\ \A i \in 1 .. 6 : ReleaseStages[i][1] \in Event /\ ReleaseStages[i][2] \in Kind
BY DEF ReleaseStages, Event, Kind

LEMMA InsertType ==
  ASSUME NEW dict \in SUBSET Pcb, NEW o \in Obj, NEW key \in Id,
         NEW syms \in SUBSET Sym
  PROVE  Insert(dict, o, key, syms) \in SUBSET Pcb
BY DEF Insert, Pcb

LEMMA PurgeType ==
  ASSUME NEW dict \in SUBSET Pcb, NEW o, NEW key
  PROVE  Purge(dict, o, key) \in SUBSET dict
BY DEF Purge, Lookup

LEMMA HeardType ==
  ASSUME told \in [Obj -> Seq(Event)], NEW o \in Obj, NEW ev \in Event
  PROVE  Heard(o, ev) \in [Obj -> Seq(Event)]
<1>1. Append(told[o], ev) \in Seq(Event)
  OBVIOUS
<1> QED BY <1>1 DEF Heard

LEMMA RecordModType ==
  ASSUME NEW p \in [Event -> SUBSET Pcb], NEW o \in Obj, NEW s \in Sym,
         idOf[o] \in Id
  PROVE  RecordMod(p, o, s) \in [Event -> SUBSET Pcb]
<1>1. Insert(p["mod"], o, idOf[o], {s}) \in SUBSET Pcb
  BY InsertType DEF Event
<1> QED BY <1>1 DEF RecordMod, Event

LEMMA RecordDelType ==
  ASSUME NEW p \in [Event -> SUBSET Pcb], NEW o \in Obj, idOf[o] \in Id
  PROVE  RecordDel(p, o) \in [Event -> SUBSET Pcb]
<1>1. Insert(p["del"], o, idOf[o], {}) \in SUBSET Pcb
  BY InsertType DEF Event
<1>2. /\ Purge(p["ins"], o, idOf[o]) \in SUBSET Pcb
      /\ Purge(p["mod"], o, idOf[o]) \in SUBSET Pcb
  BY PurgeType DEF Event
<1> QED BY <1>1, <1>2 DEF RecordDel, Event

\* An object that is allocated has an id.
AliveHaveIds == \A o \in alive : idOf[o] \in Id

LEMMA CreateType ==
  ASSUME TypeOK, AliveHaveIds, NEW g \in Graph, NEW o \in Obj, NEW id \in Id,
         Create(g, o, id)
  PROVE  TypeOK' /\ AliveHaveIds'
<1>1. /\ alive' \subseteq Obj
      /\ idOf' \in [Obj -> Id \cup {NULL}]
      /\ owed' \in [Obj -> SUBSET Sym]
      /\ enabled' \in BOOLEAN
      /\ flush' \in Progress \cup {NULL}
  BY DEF Create, TypeOK
<1>2. AliveHaveIds'
  BY DEF Create, TypeOK, AliveHaveIds
<1>3. /\ <<>> \in Seq(Event) /\ <<"ins">> \in Seq(Event)
      /\ "ins" \in Event
  BY DEF Event
<1>4. told' \in [Obj -> Seq(Event)]
  BY <1>3 DEF Create, TypeOK
<1>5. Insert(pend[g]["ins"], o, id, {}) \in SUBSET Pcb
  BY <1>3, InsertType DEF TypeOK
<1>6. pend' \in [Graph -> [Event -> SUBSET Pcb]]
  <2>1. enabled => pend' = pend
    BY DEF Create
  <2>2. ~enabled => pend' = [pend EXCEPT ![g] =
                       [pend[g] EXCEPT !["ins"] = Insert(pend[g]["ins"], o, id, {})]]
    BY DEF Create
  <2>3. [pend[g] EXCEPT !["ins"] = Insert(pend[g]["ins"], o, id, {})]
          \in [Event -> SUBSET Pcb]
    BY <1>5 DEF TypeOK
  <2> QED BY <2>1, <2>2, <2>3 DEF TypeOK
<1>7. aborted' \in BOOLEAN /\ rash' \in BOOLEAN
  BY DEF Create, TypeOK
<1> QED BY <1>1, <1>2, <1>4, <1>6, <1>7 DEF TypeOK

LEMMA UpdateType ==
  ASSUME TypeOK, AliveHaveIds, NEW o \in Obj, NEW s \in Sym, NEW half,
         Update(o, s, half)
  PROVE  TypeOK' /\ AliveHaveIds'
<1>1. "mod" \in Event /\ o \in alive /\ idOf[o] \in Id
  BY DEF Event, Update, AliveHaveIds
<1>2. told' \in [Obj -> Seq(Event)]
  BY <1>1, HeardType DEF Update, TypeOK
<1>3. pend' \in [Graph -> [Event -> SUBSET Pcb]]
  <2>1. RecordMod(pend[Root], o, s) \in [Event -> SUBSET Pcb]
    BY <1>1, CallbackAssumption, RecordModType DEF TypeOK, CallbackAssumption
  <2> QED BY <2>1 DEF Update, TypeOK
<1>4. owed' \in [Obj -> SUBSET Sym]
  BY DEF Update, TypeOK
<1>5. aborted' \in BOOLEAN /\ rash' \in BOOLEAN
  BY Zenon DEF Update, TypeOK
<1> QED BY <1>2, <1>3, <1>4, <1>5 DEF Update, TypeOK, AliveHaveIds

LEMMA DeleteType ==
  ASSUME TypeOK, AliveHaveIds, NEW o \in Obj, Delete(o)
  PROVE  TypeOK' /\ AliveHaveIds'
<1>1. "del" \in Event /\ o \in alive /\ idOf[o] \in Id
  BY DEF Event, Delete, AliveHaveIds
<1>2. told' \in [Obj -> Seq(Event)]
  BY <1>1, HeardType DEF Delete, TypeOK
<1>3. pend' \in [Graph -> [Event -> SUBSET Pcb]]
  <2>1. RecordDel(pend[Root], o) \in [Event -> SUBSET Pcb]
    BY <1>1, CallbackAssumption, RecordDelType DEF TypeOK, CallbackAssumption
  <2> QED BY <2>1 DEF Delete, TypeOK
<1>4. owed' \in [Obj -> SUBSET Sym]
  BY DEF Delete, TypeOK
<1> QED BY <1>2, <1>3, <1>4 DEF Delete, TypeOK, AliveHaveIds

LEMMA ReleaseTypes ==
  ASSUME TypeOK, AliveHaveIds
  PROVE  /\ Hold => TypeOK' /\ AliveHaveIds'
         /\ \A g \in Graph : Release(g) => TypeOK' /\ AliveHaveIds'
         /\ Library => TypeOK' /\ AliveHaveIds'
<1>1. Hold => TypeOK' /\ AliveHaveIds'
  BY DEF Hold, TypeOK, AliveHaveIds
<1>2. ASSUME NEW g \in Graph, Release(g) PROVE TypeOK' /\ AliveHaveIds'
  <2>1. flush' \in Progress
    BY <1>2, StageTypes DEF Release, Progress
  <2> QED BY <1>2, <2>1 DEF Release, TypeOK, AliveHaveIds
<1>3. ASSUME flush # NULL
      PROVE  /\ flush \in Progress /\ flush.g \in Graph /\ flush.stage \in 1 .. 6
             /\ flush.cur \in Pcb \cup {NULL} /\ Ev \in Event
  BY <1>3, StageTypes DEF TypeOK, Progress, Ev
<1>4. ASSUME Return PROVE TypeOK' /\ AliveHaveIds'
  <2>1. flush # NULL
    BY <1>4 DEF Return
  <2>2. Purge(pend[flush.g][Ev], flush.cur.obj, flush.cur.key) \in SUBSET Pcb
    BY <1>3, <2>1, PurgeType DEF TypeOK
  <2>3. pend' \in [Graph -> [Event -> SUBSET Pcb]]
    BY <1>3, <1>4, <2>1, <2>2 DEF Return, TypeOK
  <2>4. flush' \in Progress
    BY <1>3, <1>4, <2>1 DEF Return, Progress
  <2> QED BY <1>4, <2>3, <2>4 DEF Return, TypeOK, AliveHaveIds
<1>5. ASSUME NextStage PROVE TypeOK' /\ AliveHaveIds'
  <2>1. flush' \in Progress \cup {NULL}
    BY <1>3, <1>5, StageTypes DEF NextStage, Progress
  <2> QED BY <1>5, <2>1 DEF NextStage, TypeOK, AliveHaveIds
<1>6. ASSUME NEW p \in Dict, Deliver(p) PROVE TypeOK' /\ AliveHaveIds'
  <2>1. flush # NULL
    BY <1>6 DEF Deliver
  <2>2. p \in Pcb /\ p.obj \in Obj /\ p.syms \in SUBSET Sym
    BY <1>3, <2>1 DEF Dict, TypeOK, Pcb
  <2>3. flush' \in Progress
    BY <1>3, <1>6, <2>1, <2>2 DEF Deliver, Progress
  <2>4. told' \in [Obj -> Seq(Event)]
    BY <1>3, <1>6, <2>1, <2>2, HeardType DEF Deliver, TypeOK
  <2>5. owed' \in [Obj -> SUBSET Sym]
    BY <1>6, <2>2 DEF Deliver, TypeOK
  <2> QED BY <1>6, <2>3, <2>4, <2>5 DEF Deliver, TypeOK, AliveHaveIds
<1> QED BY <1>1, <1>2, <1>4, <1>5, <1>6 DEF Library

LEMMA InitTypes == Init => TypeOK /\ AliveHaveIds
<1> SUFFICES ASSUME Init PROVE TypeOK /\ AliveHaveIds
  OBVIOUS
<1>1. <<>> \in Seq(Event)
  OBVIOUS
<1>2. told \in [Obj -> Seq(Event)]
  BY <1>1, Zenon DEF Init
<1>3. pend \in [Graph -> [Event -> SUBSET Pcb]]
  BY DEF Init
<1> QED BY <1>2, <1>3 DEF Init, TypeOK, AliveHaveIds

\* Every variable keeps its type, whatever the client and the methods do.
THEOREM TypeCorrect == Spec => []TypeOK
<1>1. Init => TypeOK /\ AliveHaveIds
  BY InitTypes
<1>2. TypeOK /\ AliveHaveIds /\ [Next]_vars => TypeOK' /\ AliveHaveIds'
  <2> SUFFICES ASSUME TypeOK, AliveHaveIds, [Next]_vars
               PROVE  TypeOK' /\ AliveHaveIds'
    OBVIOUS
  <2>1. CASE UNCHANGED vars
    BY <2>1 DEF vars, TypeOK, AliveHaveIds
  <2>2. CASE Client
    BY <2>2, CreateType, UpdateType, DeleteType, ReleaseTypes DEF Client
  <2>3. CASE Library
    BY <2>3, ReleaseTypes
  <2> QED BY <2>1, <2>2, <2>3 DEF Next
<1> QED BY <1>1, <1>2, PTL DEF Spec

-----------------------------------------------------------------------------
(* What is held.                                                           *)

\* An id belongs to one object of a kind.
IdsUnique ==
  \A x, y \in alive : KindOf(x) = KindOf(y) /\ idOf[x] = idOf[y] => x = y

\* A creation or an update is held for an object that exists, under its id.
HeldLive ==
  \A ev \in {"ins", "mod"} : \A p \in pend[Root][ev] :
    p.obj \in alive /\ idOf[p.obj] = p.key

\* A deletion is held for an object that is gone, and its id is not in use.
HeldDead ==
  \A p \in pend[Root]["del"] :
    /\ p.obj \notin alive
    /\ \A x \in alive : KindOf(x) = KindOf(p.obj) => idOf[x] # p.key

\* what is held of the i-th kind in the order of a release
Part(i) == {p \in pend[Root][ReleaseStages[i][1]] : KindOf(p.obj) = ReleaseStages[i][2]}

\* A release holds on to the record it delivers, and has emptied the
\* dictionaries it has passed.
Releasing ==
  flush # NULL =>
    /\ enabled
    /\ flush.cur # NULL => flush.cur \in Dict
    /\ \A i \in 1 .. 6 : i < flush.stage => Part(i) = {}

\* While callbacks are enabled nothing is held.
Drained == enabled /\ flush = NULL => \A ev \in Event : pend[Root][ev] = {}

HeldInv ==
  /\ TypeOK
  /\ AliveHaveIds
  /\ IdsUnique
  /\ HeldLive
  /\ HeldDead
  /\ Releasing
  /\ Drained
  /\ ~aborted

-----------------------------------------------------------------------------
(* What is owed to the client.                                             *)

\* record_sym keeps one attribute of an update: a client that has only one is owed
\* nothing that no record names.
OneAttribute == \A s, t \in Sym : s = t

LastIs(seq, ev) == seq # <<>> /\ seq[Len(seq)] = ev

\* A change the client has not heard of is held, or its object's creation is.
OwedHeld ==
  OneAttribute => \A o \in Obj : owed[o] # {} =>
    \E ev \in {"ins", "mod"} : \E p \in pend[Root][ev] : p.obj = o

\* An object the client has not heard of has its creation held.
BornHeld ==
  \A o \in alive :
    /\ ~LastIs(told[o], "del")
    /\ told[o] = <<>> => \E p \in pend[Root]["ins"] : p.obj = o

\* An object that is gone and that the client believes in has its deletion held.
GoneHeld ==
  \A o \in Obj \ alive :
    told[o] # <<>> /\ ~LastIs(told[o], "del") =>
      \E p \in pend[Root]["del"] : p.obj = o

\* A record of an update names every attribute.
ModComplete == OneAttribute => \A p \in pend[Root]["mod"] : p.syms = Sym

\* One deletion is held under an id.
DelKeys ==
  \A p, q \in pend[Root]["del"] :
    KindOf(p.obj) = KindOf(q.obj) /\ p.key = q.key => p.obj = q.obj

\* The client has heard of the event whose methods are being called.
CurTold ==
  flush # NULL /\ flush.cur # NULL =>
    /\ Ev = "ins" => told[flush.cur.obj] # <<>>
    /\ OneAttribute /\ Ev # "del" => owed[flush.cur.obj] = {}
    /\ Ev = "del" => LastIs(told[flush.cur.obj], "del")

TellInv ==
  OwedHeld /\ BornHeld /\ GoneHeld /\ ModComplete /\ DelKeys /\ CurTold

-----------------------------------------------------------------------------
LEMMA StagesCover ==
  \A ev \in Event, kind \in Kind :
    \E i \in 1 .. 6 : ReleaseStages[i][1] = ev /\ ReleaseStages[i][2] = kind
BY DEF ReleaseStages, Event, Kind

\* The six parts are all there is.
LEMMA PartsCover ==
  ASSUME TypeOK, Graph = {Root}, \A i \in 1 .. 6 : Part(i) = {}
  PROVE  \A ev \in Event : pend[Root][ev] = {}
<1> SUFFICES ASSUME NEW ev \in Event, NEW p \in pend[Root][ev] PROVE FALSE
  BY DEF TypeOK
<1>1. KindOf(p.obj) \in Kind
  BY DEF KindOf, Kind
<1>2. PICK i \in 1 .. 6 : ReleaseStages[i][1] = ev /\ ReleaseStages[i][2] = KindOf(p.obj)
  BY <1>1, StagesCover
<1>3. p \in Part(i)
  BY <1>2 DEF Part
<1> QED BY <1>3

LEMMA HeldFields ==
  ASSUME TypeOK, Graph = {Root}, NEW ev \in Event, NEW p \in pend[Root][ev]
  PROVE  /\ p \in Pcb
         /\ p.obj \in Obj /\ p.key \in Id /\ p.syms \in SUBSET Sym
BY DEF TypeOK, Pcb

LEMMA HeldCreate ==
  ASSUME CarefulClient, HeldInv, NEW o \in Obj, NEW id \in Id, Create(Root, o, id)
  PROVE  HeldInv'
<1>1. /\ Graph = {Root} /\ Root \in Graph /\ ~Reuses
      /\ o \notin alive /\ alive' = alive \cup {o}
      /\ idOf' = [idOf EXCEPT ![o] = id]
      /\ idOf \in [Obj -> Id \cup {NULL}]
      /\ alive \subseteq Obj
      /\ enabled' = enabled /\ flush' = flush
      /\ \A x \in alive : KindOf(x) = KindOf(o) => idOf[x] # id
      /\ \A p \in pend[Root]["del"] :
           p.obj # o /\ (KindOf(p.obj) = KindOf(o) => p.key # id)
  BY DEF CarefulClient, HeldInv, TypeOK, Create
<1>2. TypeOK' /\ AliveHaveIds'
  BY <1>1, CreateType DEF HeldInv
<1>3. IdsUnique'
  BY <1>1 DEF HeldInv, IdsUnique
<1>4. HeldDead /\ HeldLive /\ Releasing /\ Drained /\ ~aborted /\ TypeOK
  BY DEF HeldInv
<1>5. CASE enabled
  <2>1. pend' = pend /\ aborted' = aborted
    BY <1>5 DEF Create
  <2>2. HeldLive'
    BY <1>1, <1>4, <2>1 DEF HeldLive
  <2>3. HeldDead'
    BY <1>1, <1>4, <2>1 DEF HeldDead
  <2>4. Releasing' /\ Drained'
    BY <1>1, <1>4, <2>1 DEF Releasing, Drained, Dict, Ev, Part
  <2> QED BY <1>2, <1>3, <1>4, <2>1, <2>2, <2>3, <2>4 DEF HeldInv
<1>6. CASE ~enabled
  <2>1. /\ aborted' = ~AssertNew(Root, o, id)
        /\ pend' = [pend EXCEPT ![Root]["ins"] = Insert(@, o, id, {})]
    BY <1>6 DEF Create
  <2>2. Lookup(pend[Root]["mod"], KindOf(o), id) = {}
    BY <1>1, <1>4 DEF Lookup, HeldLive
  <2>3. Lookup(pend[Root]["del"], KindOf(o), id) = {}
    BY <1>1 DEF Lookup
  <2>4. ~aborted'
    BY <2>1, <2>2, <2>3 DEF AssertNew
  <2>5. /\ pend'[Root]["mod"] = pend[Root]["mod"]
        /\ pend'[Root]["del"] = pend[Root]["del"]
        /\ pend'[Root]["ins"] = Insert(pend[Root]["ins"], o, id, {})
    BY <1>1, <1>4, <2>1 DEF TypeOK, Event
  <2>6. \A p \in Insert(pend[Root]["ins"], o, id, {}) :
          p \in pend[Root]["ins"] \/ (p.obj = o /\ p.key = id)
    BY DEF Insert
  <2>7. HeldLive'
    BY <1>1, <1>4, <2>5, <2>6 DEF HeldLive
  <2>8. HeldDead'
    BY <1>1, <1>4, <2>5 DEF HeldDead
  <2>9. Releasing' /\ Drained'
    BY <1>1, <1>4, <1>6 DEF Releasing, Drained
  <2> QED BY <1>2, <1>3, <2>4, <2>7, <2>8, <2>9 DEF HeldInv
<1> QED BY <1>5, <1>6

LEMMA HeldUpdate ==
  ASSUME CarefulClient, HeldInv, NEW o \in Obj, NEW s \in Sym,
         Update(o, s, "out")
  PROVE  HeldInv'
<1>1. /\ Graph = {Root} /\ Root \in Graph
      /\ o \in alive /\ alive' = alive /\ idOf' = idOf
      /\ enabled' = enabled /\ flush' = flush
      /\ pend \in [Graph -> [Event -> SUBSET Pcb]]
  BY DEF CarefulClient, HeldInv, TypeOK, Update
<1>2. TypeOK' /\ AliveHaveIds'
  BY UpdateType DEF HeldInv
<1>3. IdsUnique'
  BY <1>1 DEF HeldInv, IdsUnique
<1>4. HeldDead /\ HeldLive /\ Releasing /\ Drained /\ ~aborted
  BY DEF HeldInv
<1>5. ~aborted'
  BY <1>4, Zenon DEF Update
<1>6. CASE enabled
  <2>1. pend' = pend
    BY <1>6 DEF Update
  <2> QED BY <1>1, <1>2, <1>3, <1>4, <1>5, <2>1
          DEF HeldInv, HeldLive, HeldDead, Releasing, Drained, Dict, Ev, Part
<1>7. CASE ~enabled
  <2>1. pend'[Root] = RecordMod(pend[Root], o, s)
    BY <1>1, <1>7 DEF Update
  <2>2. /\ pend'[Root]["ins"] = pend[Root]["ins"]
        /\ pend'[Root]["del"] = pend[Root]["del"]
        /\ \A p \in pend'[Root]["mod"] :
             p \in pend[Root]["mod"] \/ (p.obj = o /\ p.key = idOf[o])
    BY <1>1, <2>1 DEF RecordMod, Insert, Event
  <2>3. HeldLive' /\ HeldDead'
    BY <1>1, <1>4, <2>2 DEF HeldLive, HeldDead
  <2>4. Releasing' /\ Drained'
    BY <1>1, <1>4, <1>7 DEF Releasing, Drained
  <2> QED BY <1>2, <1>3, <1>5, <2>3, <2>4 DEF HeldInv
<1> QED BY <1>6, <1>7

LEMMA HeldDelete ==
  ASSUME CarefulClient, HeldInv, NEW o \in Obj, Delete(o)
  PROVE  HeldInv'
<1>1. /\ Graph = {Root} /\ Root \in Graph
      /\ o \in alive /\ alive' = alive \ {o} /\ idOf' = idOf
      /\ enabled' = enabled /\ flush' = flush /\ aborted' = aborted
      /\ pend \in [Graph -> [Event -> SUBSET Pcb]]
      /\ flush = NULL
  BY DEF CarefulClient, HeldInv, TypeOK, Delete, ClientRuns
<1>2. TypeOK' /\ AliveHaveIds'
  BY DeleteType DEF HeldInv
<1>3. HeldDead /\ HeldLive /\ Releasing /\ Drained /\ ~aborted /\ IdsUnique
  BY DEF HeldInv
<1>4. IdsUnique' /\ Releasing'
  BY <1>1, <1>3 DEF IdsUnique, Releasing
<1>5. CASE enabled
  <2>1. pend' = pend
    BY <1>5 DEF Delete
  <2>2. Drained'
    BY <1>1, <1>3, <2>1 DEF Drained
  <2>3. \A ev \in Event : pend'[Root][ev] = {}
    BY <1>1, <1>3, <1>5, <2>1 DEF Drained
  <2>4. HeldLive' /\ HeldDead'
    BY <2>3 DEF HeldLive, HeldDead, Event
  <2> QED BY <1>1, <1>2, <1>3, <1>4, <2>2, <2>4 DEF HeldInv
<1>6. CASE ~enabled
  <2>1. pend'[Root] = RecordDel(pend[Root], o)
    BY <1>1, <1>6 DEF Delete
  <2>2. /\ \A ev \in {"ins", "mod"} : \A p \in pend'[Root][ev] :
             p \in pend[Root][ev] /\ ~(KindOf(p.obj) = KindOf(o) /\ p.key = idOf[o])
        /\ \A p \in pend'[Root]["del"] :
             p \in pend[Root]["del"] \/ (p.obj = o /\ p.key = idOf[o])
    BY <1>1, <2>1 DEF RecordDel, Purge, Insert, Lookup, Event
  <2>3. HeldLive'
    BY <1>1, <1>3, <2>2 DEF HeldLive
  <2>4. HeldDead'
    BY <1>1, <1>3, <2>2 DEF HeldDead, IdsUnique
  <2>5. Drained'
    BY <1>1, <1>6 DEF Drained
  <2> QED BY <1>1, <1>2, <1>3, <1>4, <2>3, <2>4, <2>5 DEF HeldInv
<1> QED BY <1>5, <1>6

LEMMA HeldHold ==
  ASSUME CarefulClient, HeldInv, Hold
  PROVE  HeldInv'
<1>1. /\ flush = NULL /\ flush' = flush /\ alive' = alive /\ idOf' = idOf
      /\ pend' = pend /\ aborted' = aborted /\ enabled' = FALSE
  BY DEF CarefulClient, Hold, ClientRuns
<1>2. TypeOK' /\ AliveHaveIds'
  BY ReleaseTypes DEF HeldInv
<1> QED BY <1>1, <1>2
        DEF HeldInv, IdsUnique, HeldLive, HeldDead, Releasing, Drained

LEMMA HeldRelease ==
  ASSUME CarefulClient, HeldInv, Release(Root)
  PROVE  HeldInv'
<1>1. /\ alive' = alive /\ idOf' = idOf /\ pend' = pend /\ aborted' = aborted
      /\ enabled' = TRUE /\ flush' = [g |-> Root, stage |-> 1, cur |-> NULL]
  BY DEF Release
<1>2. TypeOK' /\ AliveHaveIds'
  BY ReleaseTypes, CallbackAssumption DEF HeldInv, CallbackAssumption
<1>3. flush' # NULL
  BY <1>1, StageTypes, CallbackAssumption, NullAssumption
     DEF Progress, CallbackAssumption
<1>4. Releasing' /\ Drained'
  BY <1>1, <1>3 DEF Releasing, Drained
<1> QED BY <1>1, <1>2, <1>4
        DEF HeldInv, IdsUnique, HeldLive, HeldDead

\* What a release that is under way has in hand.
LEMMA InRelease ==
  ASSUME Graph = {Root}, TypeOK, flush # NULL
  PROVE  /\ flush \in Progress /\ flush.g = Root
         /\ flush.stage \in 1 .. 6 /\ flush.cur \in Pcb \cup {NULL}
         /\ Ev \in Event /\ Dict = Part(flush.stage)
<1>1. flush \in Progress /\ flush.g = Root /\ flush.stage \in 1 .. 6
      /\ flush.cur \in Pcb \cup {NULL}
  BY StageTypes DEF TypeOK, Progress
<1> QED BY <1>1, StageTypes DEF Dict, Ev, Part

\* A release under way is not the null value.
LEMMA ProgressNotNull == ASSUME NEW going \in Progress PROVE going # NULL
BY NullAssumption

LEMMA HeldDeliver ==
  ASSUME CarefulClient, HeldInv, NEW p \in Dict, Deliver(p)
  PROVE  HeldInv'
<1>1. /\ flush # NULL /\ flush' = [flush EXCEPT !.cur = p]
      /\ alive' = alive /\ idOf' = idOf /\ pend' = pend /\ aborted' = aborted
      /\ enabled' = enabled
  BY DEF Deliver
<1>2. TypeOK' /\ AliveHaveIds'
  BY <1>1, ReleaseTypes DEF HeldInv, Library
<1>3. flush \in Progress /\ flush.g = Root /\ flush.stage \in 1 .. 6
      /\ Releasing /\ Drained
  BY <1>1, InRelease DEF HeldInv, CarefulClient
<1>4. /\ flush'.g = flush.g /\ flush'.stage = flush.stage /\ flush'.cur = p
  BY <1>1, <1>3 DEF Progress
<1>5. Dict' = Dict
  BY <1>1, <1>4 DEF Dict, Ev
<1>6. flush' # NULL
  <2>1. p \in Pcb
    BY <1>3, <1>1, InRelease DEF HeldInv, TypeOK, CarefulClient, Dict
  <2>2. flush' \in Progress
    BY <1>1, <1>3, <2>1 DEF Progress
  <2> QED BY <2>2, ProgressNotNull
<1>7. Releasing' /\ Drained'
  BY <1>1, <1>3, <1>4, <1>5, <1>6 DEF Releasing, Drained, Part
<1> QED BY <1>1, <1>2, <1>7
        DEF HeldInv, IdsUnique, HeldLive, HeldDead

LEMMA HeldReturn ==
  ASSUME CarefulClient, HeldInv, Return
  PROVE  HeldInv'
<1>1. /\ flush # NULL /\ flush.cur # NULL /\ flush' = [flush EXCEPT !.cur = NULL]
      /\ alive' = alive /\ idOf' = idOf /\ aborted' = aborted
      /\ enabled' = enabled
      /\ pend' = [pend EXCEPT ![flush.g][Ev] =
                     Purge(@, flush.cur.obj, flush.cur.key)]
  BY DEF Return
<1>2. TypeOK' /\ AliveHaveIds'
  BY ReleaseTypes DEF HeldInv, Library
<1>3. flush \in Progress /\ flush.g = Root /\ flush.stage \in 1 .. 6
      /\ Ev \in Event /\ Releasing /\ Drained
  BY <1>1, InRelease DEF HeldInv, CarefulClient
<1>4. \A ev \in Event : pend'[Root][ev] \subseteq pend[Root][ev]
  BY <1>1, <1>3 DEF HeldInv, TypeOK, CarefulClient, Purge
<1>5. /\ flush'.stage = flush.stage /\ flush'.cur = NULL /\ flush' \in Progress
  BY <1>1, <1>3 DEF Progress
<1>6. flush' # NULL
  BY <1>5, ProgressNotNull
<1>7. \A i \in 1 .. 6 : i < flush.stage => Part(i)' = {}
  BY <1>1, <1>3, <1>4, StageTypes DEF Releasing, Part
<1>8. Releasing' /\ Drained'
  BY <1>1, <1>3, <1>5, <1>6, <1>7 DEF Releasing, Drained
<1>9. HeldLive' /\ HeldDead'
  BY <1>1, <1>4 DEF HeldInv, HeldLive, HeldDead, Event
<1> QED BY <1>1, <1>2, <1>8, <1>9 DEF HeldInv, IdsUnique

LEMMA HeldNextStage ==
  ASSUME CarefulClient, HeldInv, NextStage
  PROVE  HeldInv'
<1>1. /\ flush # NULL /\ flush.cur = NULL /\ Dict = {}
      /\ alive' = alive /\ idOf' = idOf /\ aborted' = aborted /\ pend' = pend
  BY DEF NextStage
<1>2. TypeOK' /\ AliveHaveIds'
  BY ReleaseTypes DEF HeldInv, Library
<1>3. flush \in Progress /\ flush.stage \in 1 .. 6 /\ Releasing /\ Drained
      /\ Dict = Part(flush.stage) /\ TypeOK /\ Graph = {Root}
  BY <1>1, InRelease DEF HeldInv, CarefulClient
<1>4. \A i \in 1 .. 6 : i <= flush.stage => Part(i) = {}
  BY <1>1, <1>3 DEF Releasing
<1>5. CASE flush.stage < Len(ReleaseStages)
  <2>1. flush' = [flush EXCEPT !.stage = @ + 1] /\ enabled' = enabled
    BY <1>5 DEF NextStage
  <2>2. flush'.stage = flush.stage + 1 /\ flush'.cur = NULL
    BY <1>1, <1>3, <2>1 DEF Progress
  <2>3. flush' # NULL
    <3>1. flush' \in Progress
      BY <1>3, <1>5, <2>1, StageTypes DEF Progress
    <3> QED BY <3>1, ProgressNotNull
  <2>4. Releasing' /\ Drained'
    BY <1>1, <1>3, <1>4, <2>1, <2>2, <2>3 DEF Releasing, Drained, Part
  <2> QED BY <1>1, <1>2, <2>4 DEF HeldInv, IdsUnique, HeldLive, HeldDead
<1>6. CASE ~(flush.stage < Len(ReleaseStages))
  <2>1. flush' = NULL /\ enabled' = TRUE
    BY <1>6 DEF NextStage
  <2>2. \A i \in 1 .. 6 : Part(i) = {}
    BY <1>3, <1>4, <1>6, StageTypes
  <2>3. Releasing' /\ Drained'
    BY <1>1, <1>3, <2>1, <2>2, PartsCover DEF Releasing, Drained
  <2> QED BY <1>1, <1>2, <2>3 DEF HeldInv, IdsUnique, HeldLive, HeldDead
<1> QED BY <1>5, <1>6

LEMMA HeldInductive ==
  ASSUME CarefulClient
  PROVE  /\ Init => HeldInv
         /\ HeldInv /\ [Next]_vars => HeldInv'
<1>1. ASSUME Init PROVE HeldInv
  <2>1. TypeOK /\ AliveHaveIds
    BY <1>1, InitTypes
  <2>2. Root \in Graph
    BY CallbackAssumption DEF CallbackAssumption
  <2> QED BY <1>1, <2>1, <2>2 DEF Init, HeldInv, IdsUnique, HeldLive, HeldDead,
            Releasing, Drained, Event
<1>2. ASSUME HeldInv, [Next]_vars PROVE HeldInv'
  <2>1. CASE UNCHANGED vars
    BY <1>2, <2>1 DEF vars, HeldInv, TypeOK, AliveHaveIds, IdsUnique, HeldLive,
            HeldDead, Releasing, Drained, Dict, Ev, Part
  <2>2. CASE Client
    <3>1. Halves = {"out"} /\ Graph = {Root}
      BY DEF CarefulClient, Halves
    <3> QED BY <1>2, <2>2, <3>1, HeldCreate, HeldUpdate, HeldDelete, HeldHold,
               HeldRelease DEF Client
  <2>3. CASE Library
    BY <1>2, <2>3, HeldDeliver, HeldReturn, HeldNextStage DEF Library
  <2> QED BY <1>2, <2>1, <2>2, <2>3 DEF Next
<1> QED BY <1>1, <1>2

\* For a careful client, however many objects, ids and attributes there are: a
\* creation or an update that was held is delivered for an object that exists
\* and still has the id it was held under (pend.c, cb and agrecord_callback).
THEOREM HeldForLiveObjects ==
  ASSUME CarefulClient
  PROVE  Spec => []LiveUntilDeleted
<1>1. HeldInv => LiveUntilDeleted
  <2> SUFFICES ASSUME HeldInv, flush # NULL, flush.cur # NULL, Ev # "del"
               PROVE  flush.cur.obj \in alive /\ idOf[flush.cur.obj] = flush.cur.key
    BY DEF LiveUntilDeleted
  <2>1. flush.g = Root /\ Ev \in Event
    BY InRelease DEF HeldInv, CarefulClient
  <2>2. Ev \in {"ins", "mod"} /\ flush.cur \in pend[Root][Ev]
    BY <2>1 DEF HeldInv, Releasing, Dict, Event
  <2> QED BY <2>2 DEF HeldInv, HeldLive
<1> QED BY <1>1, HeldInductive, PTL DEF Spec

\* For a careful client the assertions on a creation hold, and no null pointer is
\* followed (agrecord_callback).
THEOREM NeverAborts ==
  ASSUME CarefulClient
  PROVE  Spec => []NoAbort
<1>1. HeldInv => NoAbort
  BY DEF HeldInv, NoAbort
<1> QED BY <1>1, HeldInductive, PTL DEF Spec

-----------------------------------------------------------------------------
(* What the client has been told.                                          *)

LEMMA HeardLast ==
  ASSUME told \in [Obj -> Seq(Event)], NEW o \in Obj, NEW ev \in Event
  PROVE  /\ LastIs(Heard(o, ev)[o], ev) /\ Heard(o, ev)[o] # <<>>
         /\ \A x \in Obj \ {o} : Heard(o, ev)[x] = told[x]
<1>1. told[o] \in Seq(Event)
  OBVIOUS
<1>2. LastIs(Append(told[o], ev), ev)
  BY <1>1 DEF LastIs
<1>3. CASE told[o] # <<>> /\ told[o][Len(told[o])] = ev
  BY <1>3 DEF Heard, LastIs
<1>4. CASE ~(told[o] # <<>> /\ told[o][Len(told[o])] = ev)
  BY <1>2, <1>4 DEF Heard, LastIs
<1> QED BY <1>3, <1>4

LEMMA OtherLast ==
  ASSUME NEW ev \in Event, NEW seq, LastIs(seq, ev), ev # "del"
  PROVE  ~LastIs(seq, "del") /\ seq # <<>>
BY DEF LastIs

LEMMA TellCreate ==
  ASSUME CarefulClient, HeldInv, TellInv, NEW o \in Obj, NEW id \in Id,
         Create(Root, o, id)
  PROVE  TellInv'
<1>1. /\ Graph = {Root} /\ TypeOK /\ HeldLive /\ HeldDead /\ Releasing
      /\ OwedHeld /\ BornHeld /\ GoneHeld /\ ModComplete /\ DelKeys /\ CurTold
  BY DEF HeldInv, TellInv, CarefulClient
<1>2. /\ alive \subseteq Obj /\ o \notin alive /\ alive' = alive \cup {o} /\ flush' = flush
      /\ owed' = [owed EXCEPT ![o] = {}]
      /\ told \in [Obj -> Seq(Event)] /\ owed \in [Obj -> SUBSET Sym]
      /\ \A x \in alive : KindOf(x) = KindOf(o) => idOf[x] # id
      /\ \A p \in pend[Root]["del"] : p.obj # o
  BY <1>1 DEF Create, TypeOK, CarefulClient
<1>3. CASE enabled
  <2>1. pend' = pend /\ told' = [told EXCEPT ![o] = <<"ins">>]
    BY <1>3 DEF Create
  <2>2. /\ told'[o] # <<>> /\ ~LastIs(told'[o], "del")
        /\ \A x \in Obj \ {o} : told'[x] = told[x]
    BY <1>2, <2>1 DEF LastIs
  <2>3. OwedHeld'
    BY <1>1, <1>2, <2>1 DEF OwedHeld
  <2>4. BornHeld' /\ GoneHeld'
    BY <1>1, <1>2, <2>1, <2>2 DEF BornHeld, GoneHeld
  <2>5. ModComplete' /\ DelKeys'
    BY <1>1, <2>1 DEF ModComplete, DelKeys
  <2>6. CurTold'
    <3> SUFFICES ASSUME flush # NULL, flush.cur # NULL
                 PROVE  /\ Ev = "ins" => told'[flush.cur.obj] # <<>>
                        /\ OneAttribute /\ Ev # "del" => owed'[flush.cur.obj] = {}
                        /\ Ev = "del" => LastIs(told'[flush.cur.obj], "del")
      BY <1>2 DEF CurTold, Ev
    <3>1. flush.g = Root /\ flush.cur \in pend[Root][Ev] /\ flush.cur.obj \in Obj
      BY <1>1, InRelease, HeldFields DEF Releasing, Dict
    <3> QED BY <1>1, <1>2, <2>1, <2>2, <3>1 DEF CurTold
  <2> QED BY <2>3, <2>4, <2>5, <2>6 DEF TellInv
<1>4. CASE ~enabled
  <2>1. /\ told' = [told EXCEPT ![o] = <<>>]
        /\ pend' = [pend EXCEPT ![Root]["ins"] = Insert(@, o, id, {})]
    BY <1>4 DEF Create
  <2>2. Lookup(pend[Root]["ins"], KindOf(o), id) = {}
    BY <1>1, <1>2 DEF Lookup, HeldLive
  <2>3. /\ pend'[Root]["mod"] = pend[Root]["mod"]
        /\ pend'[Root]["del"] = pend[Root]["del"]
        /\ pend'[Root]["ins"] = pend[Root]["ins"] \cup
                                 {[obj |-> o, key |-> id, syms |-> {}]}
    BY <1>1, <2>1, <2>2 DEF TypeOK, Event, Insert
  <2>4. /\ ~LastIs(told'[o], "del")
        /\ \A x \in Obj \ {o} : told'[x] = told[x]
    BY <1>2, <2>1 DEF LastIs
  <2>5. OwedHeld'
    BY <1>1, <1>2, <2>3 DEF OwedHeld
  <2>6. BornHeld'
    <3> DEFINE r == [obj |-> o, key |-> id, syms |-> {}]
    <3>1. pend[Root]["ins"] \subseteq pend'[Root]["ins"] /\ r \in pend'[Root]["ins"]
      BY <2>3
    <3>2. r.obj = o
      OBVIOUS
    <3> HIDE DEF r
    <3> QED BY <1>1, <1>2, <2>4, <3>1, <3>2 DEF BornHeld
  <2>7. GoneHeld' /\ ModComplete' /\ DelKeys'
    BY <1>1, <1>2, <2>3, <2>4 DEF GoneHeld, ModComplete, DelKeys
  <2>8. CurTold'
    BY <1>1, <1>2, <1>4 DEF CurTold, Releasing
  <2> QED BY <2>5, <2>6, <2>7, <2>8 DEF TellInv
<1> QED BY <1>3, <1>4

LEMMA TellUpdate ==
  ASSUME CarefulClient, HeldInv, TellInv, NEW o \in Obj,
         NEW s \in Sym, Update(o, s, "out")
  PROVE  TellInv'
<1>1. /\ Graph = {Root} /\ TypeOK /\ HeldLive /\ HeldDead /\ Releasing
      /\ IdsUnique /\ AliveHaveIds
      /\ OwedHeld /\ BornHeld /\ GoneHeld /\ ModComplete /\ DelKeys /\ CurTold
  BY DEF HeldInv, TellInv, CarefulClient
<1>2. /\ o \in alive /\ alive' = alive /\ flush' = flush /\ alive \subseteq Obj
      /\ told \in [Obj -> Seq(Event)] /\ owed \in [Obj -> SUBSET Sym]
  BY <1>1 DEF Update, TypeOK
<1>3. CASE enabled
  <2>1. pend' = pend /\ told' = Heard(o, "mod") /\ owed' = owed
    BY <1>3 DEF Update
  <2>2. /\ LastIs(told'[o], "mod") /\ told'[o] # <<>> /\ ~LastIs(told'[o], "del")
        /\ \A x \in Obj \ {o} : told'[x] = told[x]
    BY <1>2, <2>1, HeardLast, OtherLast DEF Event
  <2>3. OwedHeld' /\ BornHeld' /\ GoneHeld' /\ ModComplete' /\ DelKeys'
    BY <1>1, <1>2, <2>1, <2>2
       DEF OwedHeld, BornHeld, GoneHeld, ModComplete, DelKeys
  <2>4. CurTold'
    <3> SUFFICES ASSUME flush # NULL, flush.cur # NULL
                 PROVE  /\ Ev = "ins" => told'[flush.cur.obj] # <<>>
                        /\ OneAttribute /\ Ev # "del" => owed'[flush.cur.obj] = {}
                        /\ Ev = "del" => LastIs(told'[flush.cur.obj], "del")
      BY <1>2 DEF CurTold, Ev
    <3>1. flush.g = Root /\ flush.cur \in pend[Root][Ev] /\ flush.cur.obj \in Obj
      BY <1>1, InRelease, HeldFields DEF Releasing, Dict
    <3>2. Ev = "del" => flush.cur.obj # o
      BY <1>1, <1>2, <3>1 DEF HeldDead
    <3> QED BY <1>1, <2>1, <2>2, <3>1, <3>2 DEF CurTold
  <2> QED BY <2>3, <2>4 DEF TellInv
<1>4. CASE ~enabled
  <2>1. /\ told' = told
        /\ owed' = [owed EXCEPT ![o] = @ \cup {s}]
        /\ pend'[Root] = RecordMod(pend[Root], o, s)
    BY <1>1, <1>4 DEF Update, TypeOK
  <2>2. Lookup(pend[Root]["del"], KindOf(o), idOf[o]) = {}
    BY <1>1, <1>2 DEF Lookup, HeldDead
  <2>3. \A ev \in {"ins", "mod"} :
          \A p \in Lookup(pend[Root][ev], KindOf(o), idOf[o]) : p.obj = o
    BY <1>1, <1>2 DEF Lookup, HeldLive, IdsUnique
  <2>4. /\ pend'[Root]["ins"] = pend[Root]["ins"]
        /\ pend'[Root]["del"] = pend[Root]["del"]
        /\ pend[Root]["mod"] \subseteq pend'[Root]["mod"]
        /\ \A p \in pend'[Root]["mod"] :
             p \in pend[Root]["mod"] \/ p.syms = {s}
    BY <1>1, <2>1 DEF RecordMod, Insert, TypeOK, Event
  <2>5. \E ev \in {"ins", "mod"} : \E p \in pend'[Root][ev] : p.obj = o
    <3>1. CASE Lookup(pend[Root]["ins"], KindOf(o), idOf[o]) # {}
      <4>1. PICK p \in Lookup(pend[Root]["ins"], KindOf(o), idOf[o]) : TRUE
        BY <3>1
      <4> QED BY <2>3, <2>4, <4>1 DEF Lookup
    <3>2. CASE Lookup(pend[Root]["mod"], KindOf(o), idOf[o]) # {}
      <4>1. PICK p \in Lookup(pend[Root]["mod"], KindOf(o), idOf[o]) : TRUE
        BY <3>2
      <4> QED BY <2>3, <2>4, <4>1 DEF Lookup
    <3>3. CASE /\ Lookup(pend[Root]["ins"], KindOf(o), idOf[o]) = {}
               /\ Lookup(pend[Root]["mod"], KindOf(o), idOf[o]) = {}
      <4>1. [obj |-> o, key |-> idOf[o], syms |-> {s}] \in pend'[Root]["mod"]
        BY <1>1, <2>1, <2>2, <3>3 DEF RecordMod, Insert, TypeOK, Event
      <4> QED BY <4>1
    <3> QED BY <3>1, <3>2, <3>3
  <2>6. OwedHeld'
    BY <1>1, <1>2, <2>1, <2>4, <2>5 DEF OwedHeld
  <2>7. BornHeld' /\ GoneHeld' /\ DelKeys'
    BY <1>1, <1>2, <2>1, <2>4 DEF BornHeld, GoneHeld, DelKeys
  <2>8. ModComplete'
    BY <1>1, <2>4 DEF ModComplete, OneAttribute
  <2>9. CurTold'
    BY <1>1, <1>2, <1>4 DEF CurTold, Releasing
  <2> QED BY <2>6, <2>7, <2>8, <2>9 DEF TellInv
<1> QED BY <1>3, <1>4

LEMMA TellDelete ==
  ASSUME CarefulClient, HeldInv, TellInv, NEW o \in Obj, Delete(o)
  PROVE  TellInv'
<1>1. /\ Graph = {Root} /\ TypeOK /\ HeldLive /\ HeldDead /\ Drained
      /\ IdsUnique
      /\ OwedHeld /\ BornHeld /\ GoneHeld /\ ModComplete /\ DelKeys
  BY DEF HeldInv, TellInv, CarefulClient
<1>2. /\ o \in alive /\ alive' = alive \ {o} /\ flush' = flush /\ flush = NULL
      /\ owed' = [owed EXCEPT ![o] = {}] /\ alive \subseteq Obj
      /\ told \in [Obj -> Seq(Event)] /\ owed \in [Obj -> SUBSET Sym]
  BY <1>1 DEF Delete, TypeOK, CarefulClient, ClientRuns
<1>3. CurTold'
  BY <1>2 DEF CurTold
<1>4. CASE enabled
  <2>1. pend' = pend /\ told' = Heard(o, "del")
    BY <1>4 DEF Delete
  <2>2. LastIs(told'[o], "del") /\ \A x \in Obj \ {o} : told'[x] = told[x]
    BY <1>2, <2>1, HeardLast DEF Event
  <2>3. OwedHeld'
    BY <1>1, <1>2, <2>1 DEF OwedHeld
  <2>4. BornHeld' /\ GoneHeld'
    BY <1>1, <1>2, <2>1, <2>2 DEF BornHeld, GoneHeld
  <2>5. ModComplete' /\ DelKeys'
    BY <1>1, <2>1 DEF ModComplete, DelKeys
  <2> QED BY <1>3, <2>3, <2>4, <2>5 DEF TellInv
<1>5. CASE ~enabled
  <2>1. told' = told /\ pend'[Root] = RecordDel(pend[Root], o)
    BY <1>1, <1>5 DEF Delete, TypeOK
  <2>2. Lookup(pend[Root]["del"], KindOf(o), idOf[o]) = {}
    BY <1>1, <1>2 DEF Lookup, HeldDead
  <2>3. /\ \A ev \in {"ins", "mod"} :
             /\ pend'[Root][ev] \subseteq pend[Root][ev]
             /\ \A p \in pend[Root][ev] :
                  ~(KindOf(p.obj) = KindOf(o) /\ p.key = idOf[o])
                    => p \in pend'[Root][ev]
        /\ pend'[Root]["del"] = pend[Root]["del"] \cup
                                 {[obj |-> o, key |-> idOf[o], syms |-> {}]}
    BY <1>1, <2>1, <2>2 DEF RecordDel, Purge, Insert, Lookup, TypeOK, Event
  <2>4. \A ev \in {"ins", "mod"} : \A p \in pend[Root][ev] :
          p.obj # o => p \in pend'[Root][ev]
    BY <1>1, <1>2, <2>3 DEF HeldLive, IdsUnique
  <2>5. OwedHeld'
    BY <1>1, <1>2, <2>4 DEF OwedHeld
  <2>6. BornHeld'
    BY <1>1, <1>2, <2>1, <2>4 DEF BornHeld
  <2>7. GoneHeld'
    <3> DEFINE r == [obj |-> o, key |-> idOf[o], syms |-> {}]
    <3>1. pend[Root]["del"] \subseteq pend'[Root]["del"] /\ r \in pend'[Root]["del"]
      BY <2>3
    <3>2. r.obj = o
      OBVIOUS
    <3> HIDE DEF r
    <3> QED BY <1>1, <1>2, <2>1, <3>1, <3>2 DEF GoneHeld
  <2>8. ModComplete'
    BY <1>1, <2>3 DEF ModComplete
  <2>9. DelKeys'
    BY <1>1, <1>2, <2>3 DEF DelKeys, HeldDead
  <2> QED BY <1>3, <2>5, <2>6, <2>7, <2>8, <2>9 DEF TellInv
<1> QED BY <1>4, <1>5

LEMMA TellDeliver ==
  ASSUME CarefulClient, HeldInv, TellInv, NEW p \in Dict, Deliver(p)
  PROVE  TellInv'
<1>1. /\ Graph = {Root} /\ TypeOK /\ HeldLive /\ HeldDead
      /\ OwedHeld /\ BornHeld /\ GoneHeld /\ ModComplete /\ DelKeys
  BY DEF HeldInv, TellInv, CarefulClient
<1>2. /\ flush # NULL /\ flush' = [flush EXCEPT !.cur = p]
      /\ alive' = alive /\ pend' = pend /\ alive \subseteq Obj
      /\ told' = Heard(p.obj, Ev)
      /\ owed' = [owed EXCEPT ![p.obj] = IF Ev = "ins" THEN {} ELSE @ \ p.syms]
      /\ told \in [Obj -> Seq(Event)] /\ owed \in [Obj -> SUBSET Sym]
  BY <1>1 DEF Deliver, TypeOK
<1>3. /\ flush \in Progress /\ flush.g = Root /\ Ev \in Event
      /\ p \in pend[Root][Ev] /\ p.obj \in Obj
  BY <1>1, <1>2, InRelease, HeldFields DEF Dict
<1>4. /\ LastIs(told'[p.obj], Ev) /\ told'[p.obj] # <<>>
      /\ \A x \in Obj \ {p.obj} : told'[x] = told[x]
  BY <1>2, <1>3, HeardLast
<1>5. /\ \A x \in Obj : owed'[x] \subseteq owed[x]
      /\ OneAttribute /\ Ev # "del" => owed'[p.obj] = {}
  BY <1>1, <1>2, <1>3 DEF ModComplete, Event
<1>6. OwedHeld'
  BY <1>1, <1>2, <1>5 DEF OwedHeld
<1>7. BornHeld'
  <2>1. p.obj \in alive => ~LastIs(told'[p.obj], "del")
    BY <1>1, <1>3, <1>4, OtherLast DEF HeldDead
  <2> QED BY <1>1, <1>2, <1>4, <2>1 DEF BornHeld
<1>8. GoneHeld'
  <2>1. p.obj \notin alive => Ev = "del"
    BY <1>1, <1>3 DEF HeldLive, Event
  <2> QED BY <1>1, <1>2, <1>4, <2>1 DEF GoneHeld
<1>9. ModComplete' /\ DelKeys'
  BY <1>1, <1>2 DEF ModComplete, DelKeys
<1>10. CurTold'
  <2>1. flush'.cur = p /\ flush'.stage = flush.stage
    BY <1>2, <1>3 DEF Progress
  <2>2. Ev' = Ev
    BY <2>1 DEF Ev
  <2> QED BY <1>4, <1>5, <2>1, <2>2 DEF CurTold
<1> QED BY <1>6, <1>7, <1>8, <1>9, <1>10 DEF TellInv

LEMMA TellReturn ==
  ASSUME CarefulClient, HeldInv, TellInv, Return
  PROVE  TellInv'
<1> DEFINE c == flush.cur
<1>1. /\ Graph = {Root} /\ TypeOK /\ HeldLive /\ IdsUnique /\ Releasing
      /\ OwedHeld /\ BornHeld /\ GoneHeld /\ ModComplete /\ DelKeys /\ CurTold
  BY DEF HeldInv, TellInv, CarefulClient
<1>2. /\ flush # NULL /\ c # NULL /\ flush' = [flush EXCEPT !.cur = NULL]
      /\ alive' = alive /\ told' = told /\ owed' = owed
      /\ pend' = [pend EXCEPT ![flush.g][Ev] = Purge(@, c.obj, c.key)]
  BY DEF Return
<1>3. /\ flush \in Progress /\ flush.g = Root /\ Ev \in Event
      /\ c \in pend[Root][Ev] /\ c.obj \in Obj
  BY <1>1, <1>2, InRelease, HeldFields DEF Releasing, Dict
<1>4. /\ \A ev \in Event : ev # Ev => pend'[Root][ev] = pend[Root][ev]
      /\ pend'[Root][Ev] = Purge(pend[Root][Ev], c.obj, c.key)
  BY <1>1, <1>2, <1>3 DEF TypeOK
<1>5. \A q \in Lookup(pend[Root][Ev], KindOf(c.obj), c.key) : q.obj = c.obj
  <2>1. CASE Ev = "del"
    BY <1>1, <1>3, <2>1 DEF Lookup, DelKeys
  <2>2. CASE Ev \in {"ins", "mod"}
    BY <1>1, <1>3, <2>2 DEF Lookup, HeldLive, IdsUnique
  <2> QED BY <1>3, <2>1, <2>2 DEF Event
<1>6. \A ev \in Event :
        /\ pend'[Root][ev] \subseteq pend[Root][ev]
        /\ \A q \in pend[Root][ev] :
             ev # Ev \/ q.obj # c.obj => q \in pend'[Root][ev]
  BY <1>4, <1>5 DEF Purge
<1>7. /\ Ev = "ins" => told[c.obj] # <<>>
      /\ OneAttribute /\ Ev # "del" => owed[c.obj] = {}
      /\ Ev = "del" => LastIs(told[c.obj], "del")
  BY <1>1, <1>2 DEF CurTold
<1>8. OwedHeld'
  <2> SUFFICES ASSUME OneAttribute, NEW o \in Obj, owed[o] # {}
               PROVE  \E ev \in {"ins", "mod"} : \E q \in pend'[Root][ev] : q.obj = o
    BY <1>2 DEF OwedHeld
  <2>1. PICK ev \in {"ins", "mod"} : \E q \in pend[Root][ev] : q.obj = o
    BY <1>1 DEF OwedHeld
  <2>2. PICK q \in pend[Root][ev] : q.obj = o
    BY <2>1
  <2>3. ev # Ev \/ q.obj # c.obj
    BY <1>7, <2>2
  <2>4. q \in pend'[Root][ev]
    BY <1>6, <2>2, <2>3 DEF Event
  <2> QED BY <2>2, <2>4
<1>9. BornHeld'
  <2> SUFFICES ASSUME NEW o \in alive, told[o] = <<>>
               PROVE  \E q \in pend'[Root]["ins"] : q.obj = o
    BY <1>1, <1>2 DEF BornHeld
  <2>1. PICK q \in pend[Root]["ins"] : q.obj = o
    BY <1>1 DEF BornHeld
  <2>2. Ev # "ins" \/ q.obj # c.obj
    BY <1>7, <2>1
  <2> QED BY <1>6, <2>1, <2>2 DEF Event
<1>10. GoneHeld'
  <2> SUFFICES ASSUME NEW o \in Obj \ alive, told[o] # <<>>,
                      ~LastIs(told[o], "del")
               PROVE  \E q \in pend'[Root]["del"] : q.obj = o
    BY <1>2 DEF GoneHeld
  <2>1. PICK q \in pend[Root]["del"] : q.obj = o
    BY <1>1 DEF GoneHeld
  <2>2. Ev # "del" \/ q.obj # c.obj
    BY <1>7, <2>1
  <2> QED BY <1>6, <2>1, <2>2 DEF Event
<1>11. ModComplete' /\ DelKeys'
  BY <1>1, <1>6 DEF ModComplete, DelKeys, Event
<1>12. CurTold'
  BY <1>2, <1>3 DEF CurTold, Progress
<1> QED BY <1>8, <1>9, <1>10, <1>11, <1>12 DEF TellInv

\* The steps that move no record and tell the client nothing.
LEMMA TellOthers ==
  ASSUME CarefulClient, HeldInv, TellInv, Hold \/ Release(Root) \/ NextStage
  PROVE  TellInv'
<1>1. /\ alive' = alive /\ pend' = pend /\ told' = told /\ owed' = owed
      /\ OwedHeld /\ BornHeld /\ GoneHeld /\ ModComplete /\ DelKeys /\ CurTold
  BY DEF Hold, Release, NextStage, TellInv
<1>2. CurTold'
  <2>1. CASE Hold
    BY <2>1 DEF Hold, ClientRuns, CarefulClient, CurTold
  <2>2. CASE Release(Root)
    BY <2>2 DEF Release, CurTold
  <2>3. CASE NextStage
    <3>1. flush \in Progress /\ flush.cur = NULL
      BY <2>3, InRelease DEF NextStage, HeldInv, CarefulClient
    <3>2. flush' = NULL \/ flush'.cur = NULL
      BY <2>3, <3>1 DEF NextStage, Progress
    <3> QED BY <3>2 DEF CurTold
  <2> QED BY <2>1, <2>2, <2>3
<1> QED BY <1>1, <1>2
        DEF TellInv, OwedHeld, BornHeld, GoneHeld, ModComplete, DelKeys

LEMMA TellInductive ==
  ASSUME CarefulClient
  PROVE  /\ Init => TellInv
         /\ HeldInv /\ TellInv /\ [Next]_vars => TellInv'
<1>1. ASSUME Init PROVE TellInv
  <2>1. /\ \A ev \in Event : pend[Root][ev] = {}
        /\ alive = {} /\ flush = NULL
        /\ \A o \in Obj : owed[o] = {} /\ told[o] = <<>>
    BY <1>1, CallbackAssumption DEF Init, CallbackAssumption
  <2> QED BY <2>1 DEF TellInv, OwedHeld, BornHeld, GoneHeld, ModComplete,
             DelKeys, CurTold, Event
<1>2. ASSUME HeldInv, TellInv, [Next]_vars PROVE TellInv'
  <2>1. CASE UNCHANGED vars
    BY <1>2, <2>1 DEF vars, TellInv, OwedHeld, BornHeld, GoneHeld, ModComplete,
            DelKeys, CurTold, Ev
  <2>2. CASE Client
    <3>1. Halves = {"out"} /\ Graph = {Root}
      BY DEF CarefulClient, Halves
    <3> QED BY <1>2, <2>2, <3>1, TellCreate, TellUpdate, TellDelete, TellOthers
            DEF Client
  <2>3. CASE Library
    BY <1>2, <2>3, TellDeliver, TellReturn, TellOthers DEF Library
  <2> QED BY <1>2, <2>1, <2>2, <2>3 DEF Next
<1> QED BY <1>1, <1>2

\* For a careful client that uses one attribute, however many objects and ids
\* there are, callbacks that were held are never lost: whenever callbacks are
\* enabled and no release is under way, the client has been told of every object,
\* change and deletion (agcallbacks, agrecord_callback and agrelease_callbacks).
THEOREM NothingLost ==
  ASSUME CarefulClient, OneAttribute
  PROVE  Spec => []AllTold
<1>1. HeldInv /\ TellInv => AllTold
  <2> SUFFICES ASSUME HeldInv, TellInv, enabled, flush = NULL, NEW o \in Obj
               PROVE  /\ owed[o] = {}
                      /\ o \in alive => told[o] # <<>> /\ ~LastIs(told[o], "del")
                      /\ o \notin alive /\ told[o] # <<>> => LastIs(told[o], "del")
    BY DEF AllTold, LastIs
  <2>1. \A ev \in Event : pend[Root][ev] = {}
    BY DEF HeldInv, Drained
  <2> QED BY <2>1 DEF TellInv, OwedHeld, BornHeld, GoneHeld, Event
<1> QED BY <1>1, HeldInductive, TellInductive, PTL DEF Spec

-----------------------------------------------------------------------------
(* The order in which the client hears.                                    *)

\* An edge that exists has its nodes.
LiveEnds == \A e \in alive \cap Edges : Ends[e] \subseteq alive

\* the client is being told that o was created
BeingTold(o) == flush # NULL /\ flush.cur # NULL /\ Ev = "ins" /\ flush.cur.obj = o

\* As long as a creation is held, the client has heard nothing of the object.
NotYetTold ==
  \A p \in pend[Root]["ins"] : told[p.obj] = <<>> \/ BeingTold(p.obj)

OrderInv == LiveEnds /\ (~rash => NotYetTold /\ HeardAsHappened)

\* What is empty when a record is delivered.
LEMMA Emptied ==
  ASSUME CarefulClient, HeldInv, flush # NULL, NEW p \in Dict
  PROVE  /\ Ev \in Event /\ p \in pend[Root][Ev] /\ p.obj \in Obj
         /\ Ev = "ins" /\ p.obj \in Edges => \A q \in pend[Root]["ins"] : q.obj \in Edges
         /\ Ev # "ins" => pend[Root]["ins"] = {}
         /\ Ev = "del" /\ p.obj \notin Edges => \A q \in pend[Root]["del"] : q.obj \notin Edges
<1>1. /\ flush.g = Root /\ flush.stage \in 1 .. 6 /\ Ev \in Event
      /\ \A i \in 1 .. 6 : i < flush.stage => Part(i) = {}
  BY InRelease DEF HeldInv, Releasing, CarefulClient
<1>2. p \in pend[Root][Ev] /\ KindOf(p.obj) = ReleaseStages[flush.stage][2]
  BY <1>1 DEF Dict
<1>3. p.obj \in Obj
  BY <1>1, <1>2, HeldFields DEF HeldInv, CarefulClient
<1>4. /\ ReleaseStages[1] = <<"ins", "node">> /\ ReleaseStages[2] = <<"ins", "edge">>
      /\ ReleaseStages[3] = <<"mod", "node">> /\ ReleaseStages[4] = <<"mod", "edge">>
      /\ ReleaseStages[5] = <<"del", "edge">> /\ ReleaseStages[6] = <<"del", "node">>
  BY DEF ReleaseStages
<1>5. /\ flush.stage > 1 => \A q \in pend[Root]["ins"] : KindOf(q.obj) # "node"
      /\ flush.stage > 2 => \A q \in pend[Root]["ins"] : KindOf(q.obj) # "edge"
      /\ flush.stage > 5 => \A q \in pend[Root]["del"] : KindOf(q.obj) # "edge"
  BY <1>1, <1>4 DEF Part
<1>6. /\ Ev = "ins" /\ p.obj \in Edges => flush.stage > 1
      /\ Ev # "ins" => flush.stage > 2
      /\ Ev = "del" /\ p.obj \notin Edges => flush.stage > 5
  <2>1. flush.stage \in {1, 2, 3, 4, 5, 6}
    BY <1>1
  <2> QED BY <1>2, <1>4, <2>1 DEF Ev, KindOf
<1>7. \A q \in pend[Root]["ins"] : KindOf(q.obj) = "node" \/ KindOf(q.obj) = "edge"
  BY DEF KindOf
<1>8. Ev # "ins" => pend[Root]["ins"] = {}
  <2>1. ASSUME flush.stage > 2 PROVE \A q \in pend[Root]["ins"] : FALSE
    <3>1. flush.stage > 1
      BY <1>1, <2>1
    <3> QED BY <1>5, <1>7, <2>1, <3>1
  <2> QED BY <1>6, <2>1
<1>9. \A q : (KindOf(q.obj) # "node" => q.obj \in Edges) /\ (KindOf(q.obj) # "edge" => q.obj \notin Edges)
  BY DEF KindOf
<1> QED BY <1>1, <1>2, <1>3, <1>5, <1>6, <1>8, <1>9

\* What a sequence of one or two events is when another follows.
LEMMA Appended ==
  /\ \A a, b : Append(<<a>>, b) = <<a, b>>
  /\ \A a, b, c : Append(<<a, b>>, c) = <<a, b, c>>
<1>1. ASSUME NEW a, NEW b PROVE Append(<<a>>, b) = <<a, b>>
  <2> DEFINE S == {a, b}
             s == Append(<<a>>, b)
             t == <<a, b>>
  <2>1. <<a>> \in Seq(S) /\ Len(<<a>>) = 1 /\ <<a>>[1] = a
    OBVIOUS
  <2>2. s \in Seq(S) /\ Len(s) = 2 /\ s[1] = a /\ s[2] = b
    BY <2>1, AppendProperties
  <2>3. t \in Seq(S) /\ Len(t) = 2 /\ t[1] = a /\ t[2] = b
    OBVIOUS
  <2>4. \A i \in 1 .. 2 : i = 1 \/ i = 2
    OBVIOUS
  <2> HIDE DEF s, t, S
  <2>5. s = t
    BY <2>2, <2>3, <2>4, SeqEqual
  <2> QED BY <2>5 DEF s, t
<1>2. ASSUME NEW a, NEW b, NEW c PROVE Append(<<a, b>>, c) = <<a, b, c>>
  <2> DEFINE S == {a, b, c}
             s == Append(<<a, b>>, c)
             t == <<a, b, c>>
  <2>1. <<a, b>> \in Seq(S) /\ Len(<<a, b>>) = 2 /\ <<a, b>>[1] = a /\ <<a, b>>[2] = b
    OBVIOUS
  <2>2. s \in Seq(S) /\ Len(s) = 3 /\ s[1] = a /\ s[2] = b /\ s[3] = c
    BY <2>1, AppendProperties
  <2>3. t \in Seq(S) /\ Len(t) = 3 /\ t[1] = a /\ t[2] = b /\ t[3] = c
    OBVIOUS
  <2>4. \A i \in 1 .. 3 : i = 1 \/ i = 2 \/ i = 3
    OBVIOUS
  <2> HIDE DEF s, t, S
  <2>5. s = t
    BY <2>2, <2>3, <2>4, SeqEqual
  <2> QED BY <2>5 DEF s, t
<1> QED BY <1>1, <1>2

\* The last of a sequence written out.
LEMMA Endings ==
  /\ <<"del">> # <<>> /\ <<"del">>[Len(<<"del">>)] = "del"
  /\ <<"ins", "del">> # <<>> /\ <<"ins", "del">>[Len(<<"ins", "del">>)] = "del"
  /\ <<"ins", "mod", "del">> # <<>>
  /\ <<"ins", "mod", "del">>[Len(<<"ins", "mod", "del">>)] = "del"
<1>1. Len(<<"del">>) = 1 /\ <<"del">>[1] = "del"
  OBVIOUS
<1>2. Len(<<"ins", "del">>) = 2 /\ <<"ins", "del">>[2] = "del"
  OBVIOUS
<1>3. Len(<<"ins", "mod", "del">>) = 3 /\ <<"ins", "mod", "del">>[3] = "del"
  OBVIOUS
<1>4. Len(<<>>) = 0
  OBVIOUS
<1> QED BY <1>1, <1>2, <1>3, <1>4

\* The stories that another event continues.
LEMMA Continued ==
  ASSUME told \in [Obj -> Seq(Event)], NEW o \in Obj, told[o] \in Stories
  PROVE  /\ told[o] = <<>> => Heard(o, "ins")[o] \in Stories
         /\ told[o] # <<>> /\ ~LastIs(told[o], "del") => Heard(o, "mod")[o] \in Stories
         /\ Heard(o, "del")[o] \in Stories
<1>1. \A ev \in Event :
        /\ LastIs(told[o], ev) => Heard(o, ev)[o] = told[o]
        /\ ~LastIs(told[o], ev) => Heard(o, ev)[o] = Append(told[o], ev)
  BY DEF Heard, LastIs
<1>2. "ins" \in Event /\ "mod" \in Event /\ "del" \in Event
  BY DEF Event
<1>3. CASE told[o] = <<>>
  <2>1. Append(told[o], "ins") = <<"ins">> /\ Append(told[o], "del") = <<"del">>
    BY <1>3
  <2>2. ~LastIs(told[o], "ins") /\ ~LastIs(told[o], "del")
    BY <1>3 DEF LastIs
  <2> QED BY <1>1, <1>2, <1>3, <2>1, <2>2 DEF Stories
<1>4. CASE told[o] = <<"ins">>
  <2>1. Append(told[o], "mod") = <<"ins", "mod">> /\ Append(told[o], "del") = <<"ins", "del">>
    BY <1>4, Appended
  <2>2. ~LastIs(told[o], "mod") /\ ~LastIs(told[o], "del") /\ told[o] # <<>>
    BY <1>4 DEF LastIs
  <2> QED BY <1>1, <1>2, <2>1, <2>2 DEF Stories
<1>5. CASE told[o] = <<"ins", "mod">>
  <2>1. Append(told[o], "del") = <<"ins", "mod", "del">>
    BY <1>5, Appended
  <2>2. LastIs(told[o], "mod") /\ ~LastIs(told[o], "del") /\ told[o] # <<>>
    BY <1>5 DEF LastIs
  <2> QED BY <1>1, <1>2, <2>1, <2>2 DEF Stories
<1>6. CASE told[o] \in {<<"ins", "mod", "del">>, <<"ins", "del">>, <<"del">>}
  <2>1. LastIs(told[o], "del") /\ told[o] # <<>>
    <3>1. \A s \in {<<"ins", "mod", "del">>, <<"ins", "del">>, <<"del">>} :
            s # <<>> /\ s[Len(s)] = "del"
      BY Endings
    <3> QED BY <1>6, <3>1 DEF LastIs
  <2> QED BY <1>1, <1>2, <2>1
<1> QED BY <1>3, <1>4, <1>5, <1>6 DEF Stories

\* What the client believes in stays closed when it hears of o.
LEMMA StoryGoesOn ==
  ASSUME HeardAsHappened, NEW o \in Obj, told'[o] \in Stories,
         \A x \in Obj \ {o} : told'[x] = told[x],
         o \in Believed' /\ o \in Edges => o \in Believed \/ Ends[o] \subseteq Believed,
         o \notin Believed' =>
           o \notin Believed \/ \A e \in Edges \cap Believed : e # o => o \notin Ends[e]
  PROVE  HeardAsHappened'
<1>1. \A x \in Obj \ {o} : x \in Believed' <=> x \in Believed
  BY DEF Believed
<1>2. \A e \in Edges : e \in Obj /\ Ends[e] \subseteq Obj \ Edges
  BY CallbackAssumption DEF CallbackAssumption
<1>3. \A x \in Obj : told'[x] \in Stories
  BY DEF HeardAsHappened
<1>4. ASSUME NEW e \in Edges, e \in Believed', NEW x \in Ends[e] PROVE x \in Believed'
  <2>1. x \in Obj /\ x \notin Edges /\ x # e /\ e \in Obj
    BY <1>2
  <2>2. CASE e = o
    <3>1. Ends[e] \subseteq Believed
      BY <1>4, <2>2 DEF HeardAsHappened
    <3> QED BY <1>1, <2>1, <2>2, <3>1
  <2>3. CASE e # o
    <3>1. e \in Believed /\ x \in Believed
      BY <1>1, <1>4, <2>1, <2>3 DEF HeardAsHappened
    <3>2. x = o => x \in Believed'
      BY <2>3, <3>1
    <3> QED BY <1>1, <2>1, <3>1, <3>2
  <2> QED BY <2>2, <2>3
<1> QED BY <1>3, <1>4 DEF HeardAsHappened

\* What the client believes of objects that exist and of those that are gone.
LEMMA Beliefs ==
  ASSUME HeldInv, TellInv
  PROVE  /\ told \in [Obj -> Seq(Event)] /\ alive \subseteq Obj
         /\ \A o \in Obj : o \in Believed <=> told[o] # <<>> /\ ~LastIs(told[o], "del")
         /\ \A o \in alive : told[o] # <<>> => o \in Believed
         /\ \A o \in alive : told[o] = <<>> => \E p \in pend[Root]["ins"] : p.obj = o
         /\ \A o \in Obj \ alive : o \in Believed => \E p \in pend[Root]["del"] : p.obj = o
<1>1. told \in [Obj -> Seq(Event)] /\ alive \subseteq Obj
  BY DEF HeldInv, TypeOK
<1>2. \A o \in Obj : o \in Believed <=> told[o] # <<>> /\ ~LastIs(told[o], "del")
  BY DEF Believed, LastIs
<1> QED BY <1>1, <1>2 DEF TellInv, BornHeld, GoneHeld

\* While callbacks are enabled a method knows of the objects it uses, unless it is
\* rash, and the program knows of all.
LEMMA Known ==
  ASSUME HeldInv, TellInv, enabled, NEW o \in alive, ~UsesUntold(o)
  PROVE  told[o] # <<>> /\ o \in Believed
<1>1. told[o] # <<>>
  <2>1. CASE flush = NULL
    <3>1. pend[Root]["ins"] = {}
      BY <2>1 DEF HeldInv, Drained, Event
    <3> QED BY <3>1, Beliefs
  <2>2. CASE flush # NULL
    BY <2>2 DEF UsesUntold
  <2> QED BY <2>1, <2>2
<1> QED BY <1>1, Beliefs

LEMMA OrderCreate ==
  ASSUME CarefulClient, HeldInv, TellInv, OrderInv, NEW o \in Obj, NEW id \in Id,
         Create(Root, o, id)
  PROVE  OrderInv'
<1>1. /\ o \notin alive /\ alive' = alive \cup {o} /\ flush' = flush
      /\ o \in Edges => Ends[o] \subseteq alive
      /\ rash' = (rash \/ (o \in Edges /\ \E x \in Ends[o] : UsesUntold(x)))
      /\ \A p \in pend[Root]["del"] : p.obj # o
      /\ Graph = {Root} /\ TypeOK /\ HeldLive
  BY DEF Create, CarefulClient, HeldInv
<1>2. LiveEnds'
  BY <1>1 DEF OrderInv, LiveEnds
<1>3. ASSUME ~rash' PROVE NotYetTold' /\ HeardAsHappened'
  <2>1. NotYetTold /\ HeardAsHappened /\ ~rash
    BY <1>1, <1>3 DEF OrderInv
  <2>2. /\ \A x \in Obj \ {o} : told'[x] = told[x]
        /\ told'[o] = IF enabled THEN <<"ins">> ELSE <<>>
    BY Beliefs DEF Create
  <2>3. \A p \in pend[Root]["ins"] : p.obj \in Obj \ {o}
    BY <1>1, HeldFields DEF HeldLive, Event
  <2>4. told'[o] \in Stories
    BY <2>2 DEF Stories
  <2>5. CASE enabled
    <3>1. pend' = pend
      BY <2>5 DEF Create
    <3>2. NotYetTold'
      BY <1>1, <2>1, <2>2, <2>3, <3>1 DEF NotYetTold, BeingTold, Ev
    <3>3. o \in Edges => Ends[o] \subseteq Believed
      BY <1>1, <1>3, <2>5, Known
    <3>4. o \in Believed'
      <4>1. told'[o] = <<"ins">>
        BY <2>2, <2>5
      <4>2. <<"ins">> # <<>> /\ <<"ins">>[Len(<<"ins">>)] # "del"
        OBVIOUS
      <4> QED BY <4>1, <4>2 DEF Believed
    <3> QED BY <2>1, <2>2, <2>4, <3>2, <3>3, <3>4, StoryGoesOn
  <2>6. CASE ~enabled
    <3>1. flush = NULL
      BY <2>6 DEF HeldInv, Releasing
    <3>2. pend'[Root]["ins"] = Insert(pend[Root]["ins"], o, id, {})
      BY <1>1, <2>6 DEF Create, TypeOK, Event
    <3>3. \A p \in pend'[Root]["ins"] : p \in pend[Root]["ins"] \/ p.obj = o
      BY <3>2 DEF Insert
    <3>4. NotYetTold'
      BY <2>1, <2>2, <2>3, <2>6, <3>1, <3>3 DEF NotYetTold, BeingTold
    <3>5. o \notin Believed /\ o \notin Believed'
      <4>1. o \notin Believed
        BY <1>1, Beliefs
      <4>2. told'[o] = <<>>
        BY <2>2, <2>6
      <4> QED BY <4>1, <4>2 DEF Believed
    <3> QED BY <2>1, <2>2, <2>4, <3>4, <3>5, StoryGoesOn
  <2> QED BY <2>5, <2>6
<1> QED BY <1>2, <1>3 DEF OrderInv

LEMMA OrderUpdate ==
  ASSUME CarefulClient, HeldInv, TellInv, OrderInv, NEW o \in Obj, NEW s \in Sym,
         Update(o, s, "out")
  PROVE  OrderInv'
<1>1. /\ o \in alive /\ alive' = alive /\ flush' = flush
      /\ rash' = (rash \/ UsesUntold(o))
      /\ Graph = {Root} /\ TypeOK
  BY DEF Update, CarefulClient, HeldInv
<1>2. LiveEnds'
  BY <1>1 DEF OrderInv, LiveEnds
<1>3. ASSUME ~rash' PROVE NotYetTold' /\ HeardAsHappened'
  <2>1. NotYetTold /\ HeardAsHappened /\ ~rash /\ ~UsesUntold(o)
    BY <1>1, <1>3 DEF OrderInv
  <2>2. CASE enabled
    <3>1. pend' = pend /\ told' = Heard(o, "mod")
      BY <2>2 DEF Update
    <3>2. told[o] # <<>> /\ o \in Believed
      BY <1>1, <2>1, <2>2, Known
    <3>3. ~LastIs(told[o], "del") /\ told \in [Obj -> Seq(Event)]
      BY <3>2, Beliefs
    <3>4. /\ LastIs(told'[o], "mod") /\ told'[o] # <<>>
          /\ \A x \in Obj \ {o} : told'[x] = told[x]
      BY <3>1, <3>3, HeardLast DEF Event
    <3>5. o \in Believed'
      BY <3>4 DEF Believed, LastIs
    <3>6. told'[o] \in Stories
      BY <2>1, <3>1, <3>2, <3>3, Continued DEF HeardAsHappened
    <3>7. NotYetTold'
      <4>1. \A p \in pend[Root]["ins"] : p.obj \in Obj
        BY <1>1, HeldFields DEF Event
      <4> QED BY <1>1, <2>1, <3>1, <3>2, <3>4, <4>1 DEF NotYetTold, BeingTold, Ev
    <3> QED BY <2>1, <3>2, <3>4, <3>5, <3>6, <3>7, StoryGoesOn
  <2>3. CASE ~enabled
    <3>1. told' = told /\ flush = NULL
      BY <2>3 DEF Update, HeldInv, Releasing
    <3>2. pend'[Root]["ins"] = pend[Root]["ins"]
      <4>1. pend'[Root] = RecordMod(pend[Root], o, s)
        BY <1>1, <2>3 DEF Update, TypeOK
      <4> QED BY <1>1, <4>1 DEF RecordMod, TypeOK, Event
    <3> QED BY <1>1, <2>1, <3>1, <3>2
            DEF NotYetTold, BeingTold, HeardAsHappened, Believed
  <2> QED BY <2>2, <2>3
<1> QED BY <1>2, <1>3 DEF OrderInv

LEMMA OrderDelete ==
  ASSUME CarefulClient, HeldInv, TellInv, OrderInv, NEW o \in Obj, Delete(o)
  PROVE  OrderInv'
<1>1. /\ o \in alive /\ alive' = alive \ {o} /\ flush' = flush /\ flush = NULL
      /\ \A e \in alive \cap Edges : o \notin Ends[e]
      /\ rash' = rash /\ Graph = {Root} /\ TypeOK
  BY DEF Delete, ClientRuns, CarefulClient, HeldInv
<1>2. LiveEnds'
  BY <1>1 DEF OrderInv, LiveEnds
<1>3. ASSUME ~rash' PROVE NotYetTold' /\ HeardAsHappened'
  <2>1. NotYetTold /\ HeardAsHappened
    BY <1>1, <1>3 DEF OrderInv
  <2>2. CASE enabled
    <3>1. pend' = pend /\ told' = Heard(o, "del")
      BY <2>2 DEF Delete
    <3>2. pend[Root]["ins"] = {} /\ pend[Root]["del"] = {}
      BY <1>1, <2>2 DEF HeldInv, Drained, Event
    <3>3. /\ LastIs(told'[o], "del") /\ told'[o] # <<>>
          /\ \A x \in Obj \ {o} : told'[x] = told[x]
      BY <3>1, Beliefs, HeardLast DEF Event
    <3>4. o \notin Believed'
      BY <3>3 DEF Believed, LastIs
    <3>5. told'[o] \in Stories
      BY <2>1, <3>1, Beliefs, Continued DEF HeardAsHappened
    <3>6. \A e \in Edges \cap Believed : o \notin Ends[e]
      <4>1. \A e \in Edges \cap Believed : e \in alive
        BY <3>2, Beliefs DEF Believed
      <4> QED BY <1>1, <4>1
    <3>7. NotYetTold'
      BY <3>1, <3>2 DEF NotYetTold
    <3> QED BY <2>1, <3>3, <3>4, <3>5, <3>6, <3>7, StoryGoesOn
  <2>3. CASE ~enabled
    <3>1. told' = told /\ pend'[Root]["ins"] \subseteq pend[Root]["ins"]
      <4>1. told' = told /\ pend'[Root] = RecordDel(pend[Root], o)
        BY <1>1, <2>3 DEF Delete, TypeOK
      <4> QED BY <1>1, <4>1 DEF RecordDel, Purge, TypeOK, Event
    <3> QED BY <1>1, <2>1, <3>1
            DEF NotYetTold, BeingTold, HeardAsHappened, Believed
  <2> QED BY <2>2, <2>3
<1> QED BY <1>2, <1>3 DEF OrderInv

LEMMA OrderDeliver ==
  ASSUME CarefulClient, HeldInv, TellInv, OrderInv, NEW p \in Dict, Deliver(p)
  PROVE  OrderInv'
<1>1. /\ flush # NULL /\ flush.cur = NULL /\ flush' = [flush EXCEPT !.cur = p]
      /\ alive' = alive /\ pend' = pend /\ rash' = rash
      /\ told' = Heard(p.obj, Ev)
      /\ Graph = {Root} /\ TypeOK /\ HeldLive /\ HeldDead
  BY DEF Deliver, CarefulClient, HeldInv
<1>2. LiveEnds'
  BY <1>1 DEF OrderInv, LiveEnds
<1>3. ASSUME ~rash' PROVE NotYetTold' /\ HeardAsHappened'
  <2> DEFINE o == p.obj
  <2>1. HeardAsHappened /\ LiveEnds /\ \A q \in pend[Root]["ins"] : told[q.obj] = <<>>
    BY <1>1, <1>3 DEF OrderInv, NotYetTold, BeingTold
  <2>2. /\ Ev \in Event /\ p \in pend[Root][Ev] /\ o \in Obj
        /\ Ev = "ins" /\ o \in Edges => \A q \in pend[Root]["ins"] : q.obj \in Edges
        /\ Ev # "ins" => pend[Root]["ins"] = {}
        /\ Ev = "del" /\ o \notin Edges => \A q \in pend[Root]["del"] : q.obj \notin Edges
    BY <1>1, Emptied
  <2>3. /\ LastIs(told'[o], Ev) /\ told'[o] # <<>>
        /\ \A x \in Obj \ {o} : told'[x] = told[x]
    BY <1>1, <2>2, Beliefs, HeardLast
  <2>4. told[o] \in Stories /\ told \in [Obj -> Seq(Event)]
    BY <2>1, <2>2, Beliefs DEF HeardAsHappened
  <2>5. o \in Believed' <=> Ev # "del"
    BY <2>2, <2>3 DEF Believed, LastIs
  <2>6. \A e \in Edges : Ends[e] \subseteq Obj \ Edges
    BY CallbackAssumption DEF CallbackAssumption
  <2>7. CASE Ev = "ins"
    <3>1. o \in alive /\ told[o] = <<>>
      BY <1>1, <2>1, <2>2, <2>7 DEF HeldLive
    <3>2. told'[o] \in Stories
      BY <1>1, <2>2, <2>4, <2>7, <3>1, Continued
    <3>3. ASSUME o \in Edges, NEW x \in Ends[o] PROVE x \in Believed
      <4>1. x \in alive /\ x \notin Edges
        BY <2>1, <2>6, <3>1, <3>3 DEF LiveEnds
      <4>2. told[x] # <<>>
        BY <2>2, <2>7, <3>3, <4>1, Beliefs
      <4> QED BY <4>1, <4>2, Beliefs
    <3>4. NotYetTold'
      <4>1. flush' \in Progress /\ flush'.cur = p /\ Ev' = Ev
        <5>1. flush \in Progress /\ p \in Pcb
          BY <1>1, <2>2, InRelease, HeldFields
        <5> QED BY <1>1, <5>1 DEF Progress, Ev
      <4>2. flush' # NULL
        BY <4>1, ProgressNotNull
      <4>3. p # NULL
        BY <1>1, <2>2, HeldFields, NullAssumption
      <4>4. \A q \in pend[Root]["ins"] : q.obj \in Obj
        BY <1>1, HeldFields DEF Event
      <4> QED BY <1>1, <2>1, <2>3, <2>7, <4>1, <4>2, <4>3, <4>4 DEF NotYetTold, BeingTold
    <3> QED BY <2>1, <2>2, <2>3, <2>5, <2>7, <3>2, <3>3, <3>4, StoryGoesOn
  <2>8. CASE Ev = "mod"
    <3>1. o \in alive
      BY <1>1, <2>2, <2>8 DEF HeldLive
    <3>2. told[o] # <<>> /\ o \in Believed /\ ~LastIs(told[o], "del")
      BY <2>2, <2>8, <3>1, Beliefs
    <3>3. told'[o] \in Stories
      BY <1>1, <2>2, <2>4, <2>8, <3>2, Continued
    <3>4. NotYetTold'
      BY <1>1, <2>2, <2>8 DEF NotYetTold
    <3> QED BY <2>1, <2>2, <2>3, <2>5, <2>8, <3>2, <3>3, <3>4, StoryGoesOn
  <2>9. CASE Ev = "del"
    <3>1. o \notin alive
      BY <1>1, <2>2, <2>9 DEF HeldDead
    <3>2. told'[o] \in Stories
      BY <1>1, <2>2, <2>4, <2>9, Continued
    <3>3. ASSUME NEW e \in Edges \cap Believed PROVE o \notin Ends[e]
      <4>1. SUFFICES ASSUME o \in Ends[e] PROVE FALSE
        OBVIOUS
      <4>2. o \notin Edges /\ e \in Obj
        BY <2>6, <4>1 DEF Believed
      <4>3. e \notin alive
        BY <2>1, <3>1, <4>1 DEF LiveEnds
      <4>4. \E q \in pend[Root]["del"] : q.obj = e
        BY <3>3, <4>2, <4>3, Beliefs
      <4> QED BY <2>2, <2>9, <4>2, <4>4
    <3>4. NotYetTold'
      BY <1>1, <2>2, <2>9 DEF NotYetTold
    <3> QED BY <2>1, <2>2, <2>3, <2>5, <2>9, <3>2, <3>3, <3>4, StoryGoesOn
  <2> QED BY <2>2, <2>7, <2>8, <2>9 DEF Event
<1> QED BY <1>2, <1>3 DEF OrderInv

LEMMA OrderReturn ==
  ASSUME CarefulClient, HeldInv, OrderInv, Return
  PROVE  OrderInv'
<1> DEFINE c == flush.cur
<1>1. /\ flush # NULL /\ c # NULL /\ alive' = alive /\ told' = told /\ rash' = rash
      /\ pend' = [pend EXCEPT ![flush.g][Ev] = Purge(@, c.obj, c.key)]
      /\ Graph = {Root} /\ TypeOK /\ HeldLive /\ c \in Dict
  BY DEF Return, CarefulClient, HeldInv, Releasing
<1>2. flush.g = Root /\ Ev \in Event /\ c \in pend[Root][Ev]
  BY <1>1, InRelease DEF Dict
<1>3. ASSUME NotYetTold, NEW q \in pend'[Root]["ins"] PROVE told[q.obj] = <<>>
  <2>1. CASE Ev = "ins"
    <3>1. pend'[Root]["ins"] = Purge(pend[Root]["ins"], c.obj, c.key)
      BY <1>1, <1>2, <2>1 DEF TypeOK
    <3>2. q \in pend[Root]["ins"] /\ ~(KindOf(q.obj) = KindOf(c.obj) /\ q.key = c.key)
      BY <1>3, <3>1 DEF Purge, Lookup
    <3>3. q.obj # c.obj
      BY <1>1, <1>2, <2>1, <3>2 DEF HeldLive
    <3> QED BY <1>3, <3>2, <3>3 DEF NotYetTold, BeingTold
  <2>2. CASE Ev # "ins"
    <3>1. q \in pend[Root]["ins"]
      BY <1>1, <1>2, <1>3, <2>2 DEF TypeOK, Event
    <3> QED BY <1>3, <2>2, <3>1 DEF NotYetTold, BeingTold
  <2> QED BY <2>1, <2>2
<1>4. NotYetTold => NotYetTold'
  BY <1>1, <1>3 DEF NotYetTold
<1>5. HeardAsHappened => HeardAsHappened'
  BY <1>1 DEF HeardAsHappened, Believed
<1> QED BY <1>1, <1>4, <1>5 DEF OrderInv, LiveEnds

LEMMA OrderOthers ==
  ASSUME CarefulClient, OrderInv, Hold \/ Release(Root) \/ NextStage
  PROVE  OrderInv'
<1>1. alive' = alive /\ pend' = pend /\ told' = told /\ rash' = rash
  BY DEF Hold, Release, NextStage
<1>2. flush = NULL \/ flush.cur = NULL
  <2>1. CASE Hold
    BY <2>1 DEF Hold, ClientRuns, CarefulClient
  <2>2. CASE Release(Root)
    BY <2>2 DEF Release, ClientRuns, CarefulClient
  <2>3. CASE NextStage
    BY <2>3 DEF NextStage
  <2> QED BY <2>1, <2>2, <2>3
<1>3. NotYetTold => NotYetTold'
  BY <1>1, <1>2 DEF NotYetTold, BeingTold
<1>4. HeardAsHappened => HeardAsHappened'
  BY <1>1 DEF HeardAsHappened, Believed
<1> QED BY <1>1, <1>3, <1>4 DEF OrderInv, LiveEnds

LEMMA OrderInductive ==
  ASSUME CarefulClient
  PROVE  /\ Init => OrderInv
         /\ HeldInv /\ TellInv /\ OrderInv /\ [Next]_vars => OrderInv'
<1>1. ASSUME Init PROVE OrderInv
  <2>1. /\ alive = {} /\ pend[Root]["ins"] = {}
        /\ \A o \in Obj : told[o] = <<>>
    BY <1>1, CallbackAssumption DEF Init, CallbackAssumption, Event
  <2>2. Believed = {} /\ HeardAsHappened
    BY <2>1 DEF Believed, HeardAsHappened, Stories
  <2> QED BY <2>1, <2>2 DEF OrderInv, LiveEnds, NotYetTold
<1>2. ASSUME HeldInv, TellInv, OrderInv, [Next]_vars PROVE OrderInv'
  <2>1. CASE UNCHANGED vars
    BY <1>2, <2>1 DEF vars, OrderInv, LiveEnds, NotYetTold, BeingTold, Ev,
            HeardAsHappened, Believed
  <2>2. CASE Client
    <3>1. Halves = {"out"} /\ Graph = {Root}
      BY DEF CarefulClient, Halves
    <3> QED BY <1>2, <2>2, <3>1, OrderCreate, OrderUpdate, OrderDelete, OrderOthers
            DEF Client
  <2>3. CASE Library
    BY <1>2, <2>3, OrderDeliver, OrderReturn, OrderOthers DEF Library
  <2> QED BY <1>2, <2>1, <2>2, <2>3 DEF Next
<1> QED BY <1>1, <1>2

\* For a careful client, however many objects, ids and attributes there are: until
\* a method uses an object whose creation is still held, what the client has heard
\* makes sense at every moment, before a release, in the middle of one and after
\* it: no object changes before it is announced or after it is gone, no edge is
\* announced before its nodes, and none outlives one (agmethod_init, agmethod_upd,
\* agmethod_delete, agrecord_callback, agrelease_callbacks and cb).
THEOREM HeardInOrder ==
  ASSUME CarefulClient
  PROVE  Spec => []InOrder
<1>1. OrderInv => InOrder
  BY DEF OrderInv, InOrder
<1> QED BY <1>1, HeldInductive, TellInductive, OrderInductive, PTL DEF Spec


-----------------------------------------------------------------------------
(* The stack of disciplines: the list.                                     *)

\* q is the list, from the top down.
IsList(q) ==
  /\ q = <<>> => cb = NIL
  /\ q # <<>> => cb = q[1]
  /\ \A i \in 1 .. Len(q) - 1 : prev[q[i]] = q[i + 1]
  /\ q # <<>> => prev[q[Len(q)]] = NIL
  /\ \A i, j \in 1 .. Len(q) : q[i] = q[j] => i = j

LEMMA ChainIs == \A q \in Seq(Entry) : IsList(q) => Chain = q
<1> SUFFICES ASSUME NEW q \in Seq(Entry), IsList(q) PROVE Chain = q
  OBVIOUS
<1> DEFINE below == [e \in Entry \cup {NIL} |-> IF e = NIL THEN NIL ELSE prev[e]]
<1>1. /\ NIL \notin Entry /\ IsFiniteSet(Entry) /\ Cardinality(Entry) \in Nat
  BY StackAssumption, FS_CardinalityType DEF StackAssumption
<1>2. Len(q) <= Cardinality(Entry)
  BY <1>1, Short DEF IsList
<1>3. below[NIL] = NIL /\ \A e \in Entry : below[e] = prev[e]
  BY <1>1
<1>4. Len(q) \in Nat /\ \A i \in 1 .. Len(q) : q[i] \in Entry
  OBVIOUS
<1>5. Chain = Listed(Cardinality(Entry), cb, below, NIL)
  BY DEF Chain
<1> HIDE DEF below
<1>6. \A i \in 1 .. Len(q) - 1 : below[q[i]] = q[i + 1]
  BY <1>3, <1>4 DEF IsList
<1>7. q # <<>> => below[q[Len(q)]] = NIL
  BY <1>3, <1>4 DEF IsList
<1>8. (q = <<>> => cb = NIL) /\ (q # <<>> => cb = q[1])
  BY DEF IsList
<1>9. Listed(Cardinality(Entry), cb, below, NIL) = q
  BY <1>1, <1>2, <1>3, <1>6, <1>7, <1>8, ListIs
<1> QED BY <1>5, <1>9

\* r is q without its member i.
Without(q, i, r) ==
  /\ Len(r) = Len(q) - 1
  /\ \A k \in 1 .. i - 1 : r[k] = q[k]
  /\ \A k \in i .. Len(q) - 1 : r[k] = q[k + 1]

\* RemoveFirst, when d is at i and not before.
LEMMA RemoveFirstIs ==
  ASSUME NEW S, NEW q \in Seq(S), NEW d, NEW i \in 1 .. Len(q), q[i] = d,
         \A j \in 1 .. i - 1 : q[j] # d
  PROVE  RemoveFirst(q, d) \in Seq(S) /\ Without(q, i, RemoveFirst(q, d))
<1> DEFINE I == {k \in 1 .. Len(q) : q[k] = d}
<1>1. SelectInSeq(q, LAMBDA v : v = d) = IF I # {} THEN Min(I) ELSE 0
  BY DEF SelectInSeq
<1>2. i \in I /\ \A k \in I : i <= k
  OBVIOUS
<1>3. Min(I) = CHOOSE x \in I : \A y \in I : x <= y
  BY DEF Min
<1>4. \A x \in I : (\A y \in I : x <= y) => x = i
  BY <1>2
<1>5. Min(I) = i
  <2> HIDE DEF I
  <2> QED BY <1>2, <1>3, <1>4
<1>6. RemoveFirst(q, d) = RemoveAt(q, i)
  BY <1>1, <1>2, <1>5 DEF RemoveFirst
<1>7. RemoveAt(q, i) = SubSeq(q, 1, i - 1) \o SubSeq(q, i + 1, Len(q))
  BY DEF RemoveAt
<1>8. /\ SubSeq(q, 1, i - 1) \in Seq(S) /\ Len(SubSeq(q, 1, i - 1)) = i - 1
      /\ \A k \in 1 .. i - 1 : SubSeq(q, 1, i - 1)[k] = q[k]
  OBVIOUS
<1>9. /\ SubSeq(q, i + 1, Len(q)) \in Seq(S) /\ Len(SubSeq(q, i + 1, Len(q))) = Len(q) - i
      /\ \A k \in 1 .. Len(q) - i : SubSeq(q, i + 1, Len(q))[k] = q[k + i]
  OBVIOUS
<1> DEFINE a == SubSeq(q, 1, i - 1)
           b == SubSeq(q, i + 1, Len(q))
<1>10. /\ a \in Seq(S) /\ Len(a) = i - 1 /\ \A k \in 1 .. i - 1 : a[k] = q[k]
       /\ b \in Seq(S) /\ Len(b) = Len(q) - i /\ \A k \in 1 .. Len(q) - i : b[k] = q[k + i]
       /\ RemoveFirst(q, d) = a \o b /\ Len(q) \in Nat
  BY <1>6, <1>7, <1>8, <1>9
<1> HIDE DEF a, b
<1>11. /\ a \o b \in Seq(S) /\ Len(a \o b) = Len(q) - 1
       /\ \A k \in 1 .. i - 1 : (a \o b)[k] = a[k]
       /\ \A k \in i .. Len(q) - 1 : (a \o b)[k] = b[k - (i - 1)]
  <2>1. /\ a \o b \in Seq(S) /\ Len(a \o b) = Len(a) + Len(b)
        /\ \A k \in 1 .. Len(a) + Len(b) :
             (a \o b)[k] = IF k <= Len(a) THEN a[k] ELSE b[k - Len(a)]
    BY ONLY <1>10, ConcatProperties
  <2>2. Len(a) + Len(b) = Len(q) - 1
    BY <1>10
  <2>3. \A k \in 1 .. i - 1 : k \in 1 .. Len(q) - 1 /\ k <= i - 1
    BY <1>10
  <2>4. \A k \in i .. Len(q) - 1 : k \in 1 .. Len(q) - 1 /\ ~(k <= i - 1)
    BY <1>10
  <2> QED BY <2>1, <2>2, <2>3, <2>4, <1>10
<1>12. \A k \in i .. Len(q) - 1 : k - (i - 1) \in 1 .. Len(q) - i /\ (k - (i - 1)) + i = k + 1
  BY <1>10
<1> QED BY <1>10, <1>11, <1>12 DEF Without

-----------------------------------------------------------------------------
(* The inductive invariant.                                                *)

\* q is the list and holds what the client has installed.
Holds(q) ==
  /\ q \in Seq(Entry)
  /\ IsList(q)
  /\ Len(q) = Len(installed)
  /\ \A i \in 1 .. Len(q) : f[q[i]] = installed[i]

\* Entries that were pushed have a discipline.
Used == \A e \in allocated : f[e] \in Disc

\* The frames of the event ev call, and have called, what was installed when it
\* began.
Going(ev) ==
  /\ Len(ev.called) + Len(ev.todo) = Len(ev.wanted)
  /\ \A i \in 1 .. Len(ev.called) : ev.called[i] = ev.wanted[Len(ev.wanted) + 1 - i]
  /\ \A j \in 1 .. Len(ev.todo) :
       /\ ev.todo[j] \in allocated
       /\ f[ev.todo[j]] = ev.wanted[Len(ev.wanted) + 1 - Len(ev.called) - j]

OnTheWayBack == \A k \in 1 .. Len(running) : Going(running[k])

Orderly == ToSet(Chain) = allocated /\ ~crashed /\ OnTheWayBack

\* Until an entry is given out that is still linked:
Linked == StackTypeOK /\ Holds(Chain) /\ Used /\ (orderly => Orderly)

\* and an orderly client never comes to that.
Inv == IF reused THEN ~orderly ELSE Linked

LEMMA ChainIsNext == (\A q \in Seq(Entry) : IsList(q) => Chain = q)'
BY ChainIs, PTL

LEMMA StepList ==
  ASSUME NEW q, Holds(q)' PROVE Holds(Chain)' /\ Chain' = q
<1>1. \A r \in Seq(Entry) : IsList(r)' => Chain' = r
  BY ChainIsNext
<1>2. q \in Seq(Entry) /\ IsList(q)'
  BY DEF Holds
<1>3. Chain' = q
  BY <1>1, <1>2
<1> QED BY <1>3 DEF Holds, IsList

LEMMA Members ==
  ASSUME NEW q \in Seq(Entry)
  PROVE  ToSet(q) = {q[i] : i \in 1 .. Len(q)}
<1>1. DOMAIN q = 1 .. Len(q)
  OBVIOUS
<1> QED BY <1>1 DEF ToSet

LEMMA NoMembers ==
  ASSUME NEW q \in Seq(Entry), Len(q) = 0
  PROVE  ToSet(q) = {}
<1>1. ToSet(q) = {q[i] : i \in 1 .. Len(q)}
  BY Members
<1>2. 1 .. Len(q) = {}
  OBVIOUS
<1> QED BY <1>1, <1>2

\* What there is to know of the list before a step.
LEMMA Now ==
  ASSUME Linked
  PROVE  /\ Chain \in Seq(Entry) /\ Len(Chain) \in Nat /\ IsList(Chain)
         /\ \A i \in 1 .. Len(Chain) : Chain[i] \in Entry
         /\ installed \in Seq(Disc) /\ Len(installed) = Len(Chain)
         /\ \A i \in 1 .. Len(Chain) : f[Chain[i]] = installed[i] /\ installed[i] \in Disc
         /\ ToSet(Chain) = {Chain[i] : i \in 1 .. Len(Chain)}
         /\ NIL \notin Entry /\ NIL \notin Disc
<1>1. Chain \in Seq(Entry) /\ installed \in Seq(Disc) /\ Len(installed) = Len(Chain)
  BY DEF Linked, StackTypeOK, Holds
<1>2. \A i \in 1 .. Len(installed) : installed[i] \in Disc
  BY <1>1
<1>3. \A i \in 1 .. Len(Chain) : Chain[i] \in Entry
  BY <1>1
<1>4. ToSet(Chain) = {Chain[i] : i \in 1 .. Len(Chain)}
  BY <1>1, Members
<1>5. Len(Chain) \in Nat
  BY <1>1
<1>6. NIL \notin Entry /\ NIL \notin Disc
  BY StackAssumption DEF StackAssumption
<1> QED BY <1>1, <1>2, <1>3, <1>4, <1>5, <1>6 DEF Linked, Holds

\* What there is to know of the events that run.
LEMMA Events ==
  ASSUME Linked
  PROVE  /\ running \in Seq(Running) /\ Len(running) \in Nat
         /\ \A k \in 1 .. Len(running) :
              /\ running[k].todo \in Seq(Entry) /\ Len(running[k].todo) \in Nat
              /\ running[k].called \in Seq(Disc) /\ Len(running[k].called) \in Nat
              /\ running[k].wanted \in Seq(Disc) /\ Len(running[k].wanted) \in Nat
<1>1. running \in Seq(Running) /\ Len(running) \in Nat
  BY DEF Linked, StackTypeOK
<1>2. \A k \in 1 .. Len(running) : running[k] \in Running
  BY <1>1
<1>3. \A ev \in Running :
        /\ ev.todo \in Seq(Entry) /\ Len(ev.todo) \in Nat
        /\ ev.called \in Seq(Disc) /\ Len(ev.called) \in Nat
        /\ ev.wanted \in Seq(Disc) /\ Len(ev.wanted) \in Nat
  BY DEF Running
<1> QED BY <1>1, <1>2, <1>3

\* The events that run are not disturbed, if nothing that they wait for is freed.
LEMMA StillGoing ==
  ASSUME Linked, OnTheWayBack, running' = running,
         \A e \in allocated : f'[e] = f[e] /\ (e \in allocated' \/ e \notin Awaited)
  PROVE  OnTheWayBack'
<1> SUFFICES ASSUME NEW k \in 1 .. Len(running) PROVE Going(running[k])'
  BY DEF OnTheWayBack
<1>1. Going(running[k])
  BY DEF OnTheWayBack
<1>2. running[k].todo \in Seq(Entry)
  BY Events
<1>3. \A j \in 1 .. Len(running[k].todo) : running[k].todo[j] \in Awaited
  <2>1. ToSet(running[k].todo) = {running[k].todo[j] : j \in 1 .. Len(running[k].todo)}
    BY <1>2, Members
  <2>2. ToSet(running[k].todo) \subseteq Awaited
    BY DEF Awaited
  <2> QED BY <2>1, <2>2
<1>4. \A j \in 1 .. Len(running[k].todo) :
        /\ running[k].todo[j] \in allocated'
        /\ f'[running[k].todo[j]] = f[running[k].todo[j]]
  BY <1>1, <1>3 DEF Going
<1> QED BY <1>1, <1>4 DEF Going

\* Nobody crashes on a list that links what is allocated.
LEMMA NotBroken ==
  ASSUME Linked, orderly
  PROVE  ~Broken /\ \A i \in 1 .. Len(Chain) : Chain[i] \in allocated
<1>1. ToSet(Chain) = allocated /\ ToSet(Chain) = {Chain[i] : i \in 1 .. Len(Chain)}
  BY Now DEF Linked, Orderly
<1>2. Chain # <<>> => prev[Last(Chain)] = NIL
  BY Now DEF IsList, Last
<1> QED BY <1>1, <1>2 DEF Broken

LEMMA CrashSafe ==
  ASSUME Linked, Crash, ~orderly PROVE Linked'
<1>1. /\ UNCHANGED fields /\ running' = running /\ installed' = installed
      /\ crashed' = TRUE /\ orderly' = orderly /\ reused' = reused
  BY DEF Crash, history
<1>2. Chain' = Chain
  BY <1>1 DEF fields, Chain
<1>3. Holds(Chain)'
  BY <1>1, <1>2 DEF Linked, Holds, IsList, fields
<1>4. StackTypeOK' /\ Used'
  BY <1>1 DEF Linked, StackTypeOK, Used, fields
<1> QED BY <1>1, <1>3, <1>4 DEF Linked

-----------------------------------------------------------------------------
(* The steps.                                                              *)

LEMMA PushSafe ==
  ASSUME Linked, NEW d \in Disc, Agpushdisc(d), cb' \notin ToSet(Chain) PROVE Linked'
<1>1. PICK e \in Entry \ allocated :
        /\ allocated' = allocated \cup {e}
        /\ reused' = (reused \/ e \in ToSet(Chain))
        /\ f' = [f EXCEPT ![e] = d]
        /\ prev' = [prev EXCEPT ![e] = cb]
        /\ cb' = e
  BY DEF Agpushdisc, Link
<1>2. /\ installed' = <<d>> \o installed
      /\ running' = running /\ crashed' = crashed /\ orderly' = orderly
  BY DEF Agpushdisc
<1>3. PICK c : c = Chain
  OBVIOUS
<1>4. /\ c \in Seq(Entry) /\ Len(c) \in Nat /\ IsList(c)
      /\ \A i \in 1 .. Len(c) : c[i] \in Entry
      /\ installed \in Seq(Disc) /\ Len(installed) = Len(c)
      /\ \A i \in 1 .. Len(c) : f[c[i]] = installed[i] /\ installed[i] \in Disc
      /\ ToSet(c) = {c[i] : i \in 1 .. Len(c)}
      /\ NIL \notin Entry /\ NIL \notin Disc
  BY <1>3, Now
<1>5. /\ f \in [Entry -> Disc \cup {NIL}] /\ prev \in [Entry -> Entry \cup {NIL}]
      /\ cb \in Entry \cup {NIL} /\ allocated \subseteq Entry
  BY DEF Linked, StackTypeOK
<1>6. \A i \in 1 .. Len(c) : c[i] # e
  BY <1>1, <1>3, <1>4
<1>7. PICK q : q = <<e>> \o c
  OBVIOUS
<1>8. /\ q \in Seq(Entry) /\ Len(q) = Len(c) + 1 /\ q[1] = e
      /\ \A i \in 1 .. Len(c) : q[i + 1] = c[i]
      /\ \A i \in 2 .. Len(q) : q[i] = c[i - 1] /\ i - 1 \in 1 .. Len(c)
  BY <1>4, <1>7
<1>9. IsList(q)'
  <2>1. q # <<>> /\ cb' = q[1]
    BY <1>1, <1>4, <1>8
  <2>2. \A i, j \in 1 .. Len(q) : q[i] = q[j] => i = j
    <3> SUFFICES ASSUME NEW i \in 1 .. Len(q), NEW j \in 1 .. Len(q), q[i] = q[j] PROVE i = j
      OBVIOUS
    <3>1. CASE i = 1 /\ j = 1
      BY <3>1
    <3>2. CASE i = 1 /\ j # 1
      <4>1. j \in 2 .. Len(q)
        BY <3>2, <1>4, <1>8
      <4> QED BY <3>2, <4>1, <1>6, <1>8
    <3>3. CASE i # 1 /\ j = 1
      <4>1. i \in 2 .. Len(q)
        BY <3>3, <1>4, <1>8
      <4> QED BY <3>3, <4>1, <1>6, <1>8
    <3>4. CASE i # 1 /\ j # 1
      <4>1. i \in 2 .. Len(q) /\ j \in 2 .. Len(q)
        BY <3>4, <1>4, <1>8
      <4>2. c[i - 1] = c[j - 1] /\ i - 1 \in 1 .. Len(c) /\ j - 1 \in 1 .. Len(c)
        BY <4>1, <1>8
      <4>3. i - 1 = j - 1
        BY <4>2, <1>4 DEF IsList
      <4> QED BY <4>1, <4>3, <1>4, <1>8
    <3> QED BY <3>1, <3>2, <3>3, <3>4
  <2>3. prev'[e] = cb /\ \A i \in 1 .. Len(c) : prev'[c[i]] = prev[c[i]]
    BY <1>1, <1>4, <1>5, <1>6
  <2>4. \A i \in 1 .. Len(q) - 1 : prev'[q[i]] = q[i + 1]
    <3> SUFFICES ASSUME NEW i \in 1 .. Len(q) - 1 PROVE prev'[q[i]] = q[i + 1]
      OBVIOUS
    <3>1. CASE i = 1
      <4>1. c # <<>> /\ 1 \in 1 .. Len(c)
        BY <3>1, <1>4, <1>8
      <4>2. q[2] = c[1]
        BY <4>1, <1>8
      <4> QED BY <3>1, <4>1, <4>2, <2>3, <1>4, <1>8 DEF IsList
    <3>2. CASE i # 1
      <4>1. /\ i \in 2 .. Len(q) /\ i - 1 \in 1 .. Len(c) - 1 /\ i \in 1 .. Len(c)
            /\ (i - 1) + 1 = i
        BY <3>2, <1>4, <1>8
      <4>2. q[i] = c[i - 1] /\ q[i + 1] = c[i] /\ i - 1 \in 1 .. Len(c)
        BY <4>1, <1>8
      <4>3. prev[c[i - 1]] = c[i]
        BY <4>1, <1>4 DEF IsList
      <4> QED BY <4>2, <4>3, <2>3
    <3> QED BY <3>1, <3>2
  <2>5. prev'[q[Len(q)]] = NIL
    <3>1. CASE c = <<>>
      BY <3>1, <2>3, <1>4, <1>8 DEF IsList
    <3>2. CASE c # <<>>
      <4>1. Len(c) \in 1 .. Len(c)
        BY <3>2, <1>4
      <4>2. q[Len(q)] = c[Len(c)]
        BY <4>1, <1>8
      <4> QED BY <3>2, <4>1, <4>2, <2>3, <1>4 DEF IsList
    <3> QED BY <3>1, <3>2
  <2> QED BY <2>1, <2>2, <2>4, <2>5 DEF IsList
<1>10. /\ installed' \in Seq(Disc) /\ Len(installed') = Len(q) /\ installed'[1] = d
       /\ \A i \in 1 .. Len(c) : installed'[i + 1] = installed[i]
  BY <1>2, <1>4, <1>8
<1>11. Holds(q)'
  <2>1. f'[e] = d /\ \A i \in 1 .. Len(c) : f'[c[i]] = f[c[i]]
    BY <1>1, <1>4, <1>5, <1>6
  <2>2. \A i \in 1 .. Len(q) : f'[q[i]] = installed'[i]
    <3> SUFFICES ASSUME NEW i \in 1 .. Len(q) PROVE f'[q[i]] = installed'[i]
      OBVIOUS
    <3>1. CASE i = 1
      BY <3>1, <2>1, <1>8, <1>10
    <3>2. CASE i # 1
      <4>1. i \in 2 .. Len(q) /\ (i - 1) + 1 = i
        BY <3>2, <1>4, <1>8
      <4>2. q[i] = c[i - 1] /\ i - 1 \in 1 .. Len(c) /\ installed'[i] = installed[i - 1]
        BY <4>1, <1>8, <1>10
      <4> QED BY <4>2, <2>1, <1>4
    <3> QED BY <3>1, <3>2
  <2> QED BY <2>2, <1>8, <1>9, <1>10 DEF Holds
<1>12. Holds(Chain)' /\ Chain' = q
  BY <1>11, StepList
<1>13. StackTypeOK'
  <2>1. reused' \in BOOLEAN /\ orderly' \in BOOLEAN
    BY <1>1, <1>2 DEF Linked, StackTypeOK
  <2> QED BY <2>1, <1>1, <1>2, <1>5, <1>10 DEF Linked, StackTypeOK
<1>14. Used'
  BY <1>1, <1>5 DEF Linked, Used
<1>15. ASSUME orderly PROVE Orderly'
  <2>1. ToSet(c) = allocated /\ ~crashed /\ OnTheWayBack
    BY <1>3, <1>15 DEF Linked, Orderly
  <2>2. ToSet(q) = {q[i] : i \in 1 .. Len(q)}
    BY <1>8, Members
  <2>3. ToSet(q) = ToSet(c) \cup {e}
    <3>1. \A i \in 1 .. Len(c) : i + 1 \in 1 .. Len(q)
      BY <1>4, <1>8
    <3>2. 1 \in 1 .. Len(q)
      BY <1>4, <1>8
    <3>3. \A i \in 1 .. Len(q) : i = 1 \/ i \in 2 .. Len(q)
      BY <1>4, <1>8
    <3>4. ToSet(q) \subseteq ToSet(c) \cup {e}
      <4> SUFFICES ASSUME NEW i \in 1 .. Len(q) PROVE q[i] \in ToSet(c) \cup {e}
        BY <2>2
      <4>1. CASE i = 1
        BY <4>1, <1>8
      <4>2. CASE i \in 2 .. Len(q)
        <5>1. q[i] = c[i - 1] /\ i - 1 \in 1 .. Len(c)
          BY <4>2, <1>8
        <5> QED BY <5>1, <1>4
      <4> QED BY <3>3, <4>1, <4>2
    <3>5. e \in ToSet(q)
      BY <2>2, <3>2, <1>8
    <3>6. ToSet(c) \subseteq ToSet(q)
      <4> SUFFICES ASSUME NEW i \in 1 .. Len(c) PROVE c[i] \in ToSet(q)
        BY <1>4
      <4>1. q[i + 1] = c[i] /\ i + 1 \in 1 .. Len(q)
        BY <3>1, <1>8
      <4> QED BY <4>1, <2>2
    <3> QED BY <3>4, <3>5, <3>6
  <2>4. OnTheWayBack'
    BY <2>1, <1>1, <1>2, <1>5, StillGoing
  <2> QED BY <2>1, <2>3, <2>4, <1>1, <1>2, <1>12 DEF Orderly
<1> QED BY <1>2, <1>12, <1>13, <1>14, <1>15 DEF Linked

\* What is left of the list and of what is installed when entry i, the first with
\* its discipline, is no longer linked.
LEMMA CutHolds ==
  ASSUME Linked, NEW i \in 1 .. Len(Chain), NEW d, f[Chain[i]] = d,
         \A j \in 1 .. i - 1 : f[Chain[j]] # d,
         installed' = RemoveFirst(installed, d), f' = f,
         NEW q \in Seq(Entry), Len(q) = Len(Chain) - 1,
         \A k \in 1 .. Len(q) : q[k] = IF k < i THEN Chain[k] ELSE Chain[k + 1],
         q = <<>> => cb' = NIL, q # <<>> => cb' = q[1],
         \A k \in 1 .. Len(q) - 1 : prev'[q[k]] = q[k + 1],
         q # <<>> => prev'[q[Len(q)]] = NIL
  PROVE  Holds(q)' /\ installed' \in Seq(Disc)
<1>1. PICK c : c = Chain
  OBVIOUS
<1>2. /\ c \in Seq(Entry) /\ Len(c) \in Nat /\ IsList(c)
      /\ installed \in Seq(Disc) /\ Len(installed) = Len(c)
      /\ \A k \in 1 .. Len(c) : f[c[k]] = installed[k]
      /\ i \in 1 .. Len(c) /\ Len(q) = Len(c) - 1
      /\ \A k \in 1 .. Len(q) : q[k] = IF k < i THEN c[k] ELSE c[k + 1]
  BY <1>1, Now
<1>3. /\ installed' \in Seq(Disc) /\ Len(installed') = Len(installed) - 1
      /\ \A k \in 1 .. i - 1 : installed'[k] = installed[k]
      /\ \A k \in i .. Len(installed) - 1 : installed'[k] = installed[k + 1]
  <2>1. i \in 1 .. Len(installed) /\ installed[i] = d
    BY <1>1, <1>2
  <2>2. \A j \in 1 .. i - 1 : installed[j] # d
    <3>1. \A j \in 1 .. i - 1 : j \in 1 .. Len(c)
      BY <1>2
    <3> QED BY <3>1, <1>1, <1>2
  <2>3. installed \in Seq(Disc)
    BY <1>2
  <2>4. /\ RemoveFirst(installed, d) \in Seq(Disc)
        /\ Without(installed, i, RemoveFirst(installed, d))
    BY ONLY <2>1, <2>2, <2>3, RemoveFirstIs
  <2> QED BY <2>4 DEF Without
<1>4. \A k \in 1 .. Len(q) : f'[q[k]] = installed'[k]
  <2> SUFFICES ASSUME NEW k \in 1 .. Len(q) PROVE f'[q[k]] = installed'[k]
    OBVIOUS
  <2>1. CASE k < i
    <3>1. k \in 1 .. i - 1 /\ k \in 1 .. Len(c)
      BY <2>1, <1>2
    <3> QED BY <2>1, <3>1, <1>2, <1>3
  <2>2. CASE ~(k < i)
    <3>1. k \in i .. Len(installed) - 1 /\ k + 1 \in 1 .. Len(c)
      BY <2>2, <1>2
    <3> QED BY <2>2, <3>1, <1>2, <1>3
  <2> QED BY <2>1, <2>2
<1>5. \A j, k \in 1 .. Len(q) : q[j] = q[k] => j = k
  <2> SUFFICES ASSUME NEW j \in 1 .. Len(q), NEW k \in 1 .. Len(q), q[j] = q[k] PROVE j = k
    OBVIOUS
  <2>1. \A a, b \in 1 .. Len(c) : c[a] = c[b] => a = b
    BY <1>2 DEF IsList
  <2>2. j \in 1 .. Len(c) /\ k \in 1 .. Len(c) /\ j + 1 \in 1 .. Len(c) /\ k + 1 \in 1 .. Len(c)
    BY <1>2
  <2>3. CASE j < i /\ k < i
    BY <2>1, <2>2, <2>3, <1>2
  <2>4. CASE j < i /\ ~(k < i)
    <3>1. j = k + 1
      BY <2>1, <2>2, <2>4, <1>2
    <3> QED BY <2>2, <2>4, <3>1
  <2>5. CASE ~(j < i) /\ k < i
    <3>1. j + 1 = k
      BY <2>1, <2>2, <2>5, <1>2
    <3> QED BY <2>2, <2>5, <3>1
  <2>6. CASE ~(j < i) /\ ~(k < i)
    <3>1. j + 1 = k + 1
      BY <2>1, <2>2, <2>6, <1>2
    <3> QED BY <2>2, <3>1
  <2> QED BY <2>3, <2>4, <2>5, <2>6
<1>6. IsList(q)'
  BY <1>5 DEF IsList
<1> QED BY <1>2, <1>3, <1>4, <1>6 DEF Holds

LEMMA PopTopSafe ==
  ASSUME Linked, PopTop, cb \in allocated PROVE Linked'
<1>1. /\ cb # NIL /\ cb' = prev[cb]
      /\ allocated' = allocated \ {cb}
      /\ installed' = RemoveFirst(installed, f[cb])
      /\ f' = f /\ prev' = prev /\ running' = running
      /\ crashed' = crashed /\ reused' = reused
      /\ orderly' = (orderly /\ cb \notin Awaited)
  BY DEF PopTop, Freed
<1>2. PICK c : c = Chain
  OBVIOUS
<1>3. /\ c \in Seq(Entry) /\ Len(c) \in Nat /\ IsList(c)
      /\ \A i \in 1 .. Len(c) : c[i] \in Entry
      /\ ToSet(c) = {c[i] : i \in 1 .. Len(c)}
  BY <1>2, Now
<1>4. c # <<>> /\ cb = c[1] /\ 1 \in 1 .. Len(c)
  BY <1>1, <1>3 DEF IsList
<1>5. PICK q : q = Tail(c)
  OBVIOUS
<1>6. /\ q \in Seq(Entry) /\ Len(q) = Len(c) - 1 /\ Len(q) \in Nat
      /\ \A k \in 1 .. Len(q) : q[k] = c[k + 1] /\ k + 1 \in 1 .. Len(c)
  BY <1>3, <1>4, <1>5
<1>7. Holds(q)' /\ installed' \in Seq(Disc)
  <2>1. ASSUME q = <<>> PROVE cb' = NIL
    <3>1. Len(c) = 1
      BY <2>1, <1>3, <1>6
    <3> QED BY <3>1, <1>1, <1>3, <1>4 DEF IsList
  <2>2. ASSUME q # <<>> PROVE cb' = q[1] /\ prev'[q[Len(q)]] = NIL
    <3>1. 1 \in 1 .. Len(q) /\ Len(q) \in 1 .. Len(q) /\ 1 \in 1 .. Len(c) - 1
      BY <2>2, <1>6
    <3>2. q[1] = c[2] /\ q[Len(q)] = c[Len(c)]
      BY <3>1, <1>6
    <3> QED BY <3>1, <3>2, <1>1, <1>3, <1>4 DEF IsList
  <2>3. \A k \in 1 .. Len(q) - 1 : prev'[q[k]] = q[k + 1]
    <3> SUFFICES ASSUME NEW k \in 1 .. Len(q) - 1 PROVE prev'[q[k]] = q[k + 1]
      OBVIOUS
    <3>1. /\ k \in 1 .. Len(q) /\ k + 1 \in 1 .. Len(q) /\ k + 1 \in 1 .. Len(c) - 1
      BY <1>6
    <3>2. q[k] = c[k + 1] /\ q[k + 1] = c[(k + 1) + 1]
      BY <3>1, <1>6
    <3> QED BY <3>1, <3>2, <1>1, <1>3 DEF IsList
  <2>4. \A k \in 1 .. Len(q) : ~(k < 1)
    BY <1>6
  <2>5. \A k \in 1 .. Len(q) : q[k] = IF k < 1 THEN Chain[k] ELSE Chain[k + 1]
    BY <2>4, <1>2, <1>6
  <2>6. /\ 1 \in 1 .. Len(Chain) /\ f[Chain[1]] = f[cb] /\ Len(q) = Len(Chain) - 1
        /\ \A j \in 1 .. 1 - 1 : f[Chain[j]] # f[cb]
    BY <1>2, <1>4, <1>6
  <2> QED BY <2>1, <2>2, <2>3, <2>5, <2>6, <1>1, <1>6, CutHolds
<1>8. Holds(Chain)' /\ Chain' = q
  BY <1>7, StepList
<1>9. StackTypeOK'
  <2>1. cb' \in Entry \cup {NIL}
    BY <1>1 DEF Linked, StackTypeOK
  <2>2. orderly' \in BOOLEAN /\ allocated' \subseteq Entry
    BY <1>1 DEF Linked, StackTypeOK
  <2> QED BY <2>1, <2>2, <1>1, <1>7 DEF Linked, StackTypeOK
<1>10. Used'
  BY <1>1 DEF Linked, Used
<1>11. ASSUME orderly' PROVE Orderly'
  <2>1. ToSet(c) = allocated /\ ~crashed /\ OnTheWayBack
    BY <1>1, <1>2, <1>11 DEF Linked, Orderly
  <2>2. ToSet(q) = {q[k] : k \in 1 .. Len(q)}
    BY <1>6, Members
  <2>3. ToSet(q) = ToSet(c) \ {cb}
    <3>1. \A k \in 1 .. Len(q) : q[k] \in ToSet(c) /\ q[k] # cb
      <4> TAKE k \in 1 .. Len(q)
      <4>1. k + 1 # 1 /\ q[k] = c[k + 1] /\ k + 1 \in 1 .. Len(c)
        BY <1>6
      <4> QED BY <4>1, <1>3, <1>4 DEF IsList
    <3>2. \A i \in 1 .. Len(c) : c[i] # cb => c[i] \in ToSet(q)
      <4> SUFFICES ASSUME NEW i \in 1 .. Len(c), c[i] # cb PROVE c[i] \in ToSet(q)
        OBVIOUS
      <4>1. i - 1 \in 1 .. Len(q) /\ (i - 1) + 1 = i
        BY <1>4, <1>6
      <4>2. q[i - 1] = c[i]
        BY <4>1, <1>6
      <4> QED BY <4>1, <4>2, <2>2
    <3> QED BY <3>1, <3>2, <2>2, <1>3
  <2>4. OnTheWayBack'
    BY <2>1, <1>1, <1>11, StillGoing
  <2> QED BY <2>1, <2>3, <2>4, <1>1, <1>8 DEF Orderly
<1> QED BY <1>1, <1>8, <1>9, <1>10, <1>11 DEF Linked

LEMMA PopBelowSafe ==
  ASSUME Linked, NEW d \in Disc, PopBelow(d), ~Crash PROVE Linked'
<1>1. PICK i \in 2 .. Len(Chain) :
        /\ f[Chain[i]] = d
        /\ \A j \in 2 .. i - 1 : f[Chain[j]] # d
        /\ prev' = [prev EXCEPT ![Chain[i - 1]] = prev[Chain[i]]]
        /\ allocated' = allocated \ {Chain[i - 1]}
        /\ installed' = RemoveFirst(installed, d)
        /\ orderly' = FALSE /\ cb' = cb /\ f' = f /\ crashed' = crashed
        /\ running' = running /\ reused' = reused
  <2>1. PICK i \in 2 .. Len(Chain) :
          /\ f[Chain[i]] = d
          /\ \A j \in 2 .. i - 1 : f[Chain[j]] # d
          /\ IF \A j \in 1 .. i : Chain[j] \in allocated
             THEN /\ prev' = [prev EXCEPT ![Chain[i - 1]] = prev[Chain[i]]]
                  /\ allocated' = allocated \ {Chain[i - 1]}
                  /\ installed' = RemoveFirst(installed, d)
                  /\ orderly' = FALSE
                  /\ UNCHANGED <<cb, f, running, crashed, reused>>
             ELSE Crash
    BY DEF PopBelow, Freed
  <2> QED BY <2>1
<1>2. cb # NIL /\ f[cb] # d
  BY DEF PopBelow
<1>3. PICK c : c = Chain
  OBVIOUS
<1>4. /\ c \in Seq(Entry) /\ Len(c) \in Nat /\ IsList(c)
      /\ \A k \in 1 .. Len(c) : c[k] \in Entry
      /\ i \in 2 .. Len(c)
      /\ prev' = [prev EXCEPT ![c[i - 1]] = prev[c[i]]]
  BY <1>1, <1>3, Now
<1>5. /\ i - 1 \in 1 .. Len(c) /\ i \in 1 .. Len(c) /\ c # <<>> /\ cb = c[1]
      /\ \A a, b \in 1 .. Len(c) : c[a] = c[b] => a = b
      /\ \A k \in 1 .. Len(c) - 1 : prev[c[k]] = c[k + 1]
      /\ prev[c[Len(c)]] = NIL
      /\ prev \in [Entry -> Entry \cup {NIL}]
  BY <1>4 DEF IsList, Linked, StackTypeOK
<1>6. PICK q : q = [k \in 1 .. Len(c) - 1 |-> IF k < i THEN c[k] ELSE c[k + 1]]
  OBVIOUS
<1>7. /\ q \in Seq(Entry) /\ Len(q) = Len(c) - 1 /\ Len(q) \in Nat /\ Len(q) >= 1
      /\ \A k \in 1 .. Len(q) : q[k] = IF k < i THEN c[k] ELSE c[k + 1]
  <2>1. \A k \in 1 .. Len(c) - 1 : (IF k < i THEN c[k] ELSE c[k + 1]) \in Entry
    BY <1>4
  <2>2. Len(c) - 1 \in Nat /\ Len(c) - 1 >= 1
    BY <1>4
  <2>3. q \in Seq(Entry) /\ Len(q) = Len(c) - 1
    BY <1>6, <2>1, <2>2
  <2> QED BY <1>6, <2>2, <2>3
<1>8. /\ prev'[c[i - 1]] = prev[c[i]]
      /\ \A k \in 1 .. Len(c) : k # i - 1 => prev'[c[k]] = prev[c[k]]
  BY <1>4, <1>5
<1>9. \A k \in 1 .. Len(q) - 1 : prev'[q[k]] = q[k + 1]
  <2> SUFFICES ASSUME NEW k \in 1 .. Len(q) - 1 PROVE prev'[q[k]] = q[k + 1]
    OBVIOUS
  <2>1. /\ k \in 1 .. Len(q) /\ k + 1 \in 1 .. Len(q) /\ k \in 1 .. Len(c) - 1
        /\ k + 1 \in 1 .. Len(c) - 1 /\ k \in 1 .. Len(c) /\ k + 1 \in 1 .. Len(c)
    BY <1>7
  <2>2. CASE k < i - 1
    <3>1. k < i /\ k + 1 < i /\ k # i - 1
      BY <2>1, <2>2, <1>5
    <3>2. q[k] = c[k] /\ q[k + 1] = c[k + 1]
      BY <2>1, <3>1, <1>7
    <3> QED BY <2>1, <3>1, <3>2, <1>5, <1>8
  <2>3. CASE k = i - 1
    <3>1. k < i /\ ~(k + 1 < i) /\ k + 1 = i /\ i \in 1 .. Len(c) - 1
      BY <2>1, <2>3, <1>5
    <3>2. q[k] = c[i - 1] /\ q[k + 1] = c[i + 1]
      BY <2>1, <2>3, <3>1, <1>7
    <3> QED BY <3>1, <3>2, <1>5, <1>8
  <2>4. CASE k > i - 1
    <3>1. ~(k < i) /\ ~(k + 1 < i) /\ k + 1 # i - 1
      BY <2>1, <2>4, <1>5
    <3>2. q[k] = c[k + 1] /\ q[k + 1] = c[(k + 1) + 1]
      BY <2>1, <3>1, <1>7
    <3> QED BY <2>1, <3>1, <3>2, <1>5, <1>8
  <2> QED BY <2>1, <2>2, <2>3, <2>4, <1>5
<1>10. prev'[q[Len(q)]] = NIL
  <2>1. Len(q) \in 1 .. Len(q) /\ Len(c) = Len(q) + 1 /\ Len(c) \in 1 .. Len(c)
    BY <1>7
  <2>2. CASE i = Len(c)
    <3>1. Len(q) < i /\ Len(q) = i - 1
      BY <2>1, <2>2, <1>7
    <3>2. q[Len(q)] = c[i - 1]
      BY <2>1, <3>1, <1>7
    <3> QED BY <2>2, <3>2, <1>5, <1>8
  <2>3. CASE i # Len(c)
    <3>1. ~(Len(q) < i) /\ Len(c) # i - 1
      BY <2>1, <2>3, <1>5, <1>7
    <3>2. q[Len(q)] = c[Len(c)]
      BY <2>1, <3>1, <1>7
    <3> QED BY <2>1, <3>1, <3>2, <1>5, <1>8
  <2> QED BY <2>2, <2>3
<1>11. q # <<>> /\ cb' = q[1]
  <2>1. 1 \in 1 .. Len(q) /\ 1 < i /\ q # <<>>
    BY <1>4, <1>7
  <2>2. q[1] = c[1]
    BY <2>1, <1>7
  <2> QED BY <2>1, <2>2, <1>1, <1>5
<1>12. Holds(q)' /\ installed' \in Seq(Disc)
  <2>1. \A j \in 1 .. i - 1 : f[Chain[j]] # d
    <3>1. \A j \in 1 .. i - 1 : j = 1 \/ j \in 2 .. i - 1
      BY <1>5
    <3> QED BY <3>1, <1>1, <1>2, <1>3, <1>5
  <2>2. /\ i \in 1 .. Len(Chain) /\ Len(q) = Len(Chain) - 1
        /\ \A k \in 1 .. Len(q) : q[k] = IF k < i THEN Chain[k] ELSE Chain[k + 1]
    BY <1>3, <1>5, <1>7
  <2> QED BY <2>1, <2>2, <1>1, <1>2, <1>7, <1>9, <1>10, <1>11, CutHolds
<1>13. Holds(Chain)'
  BY <1>12, StepList
<1>14. StackTypeOK'
  <2>1. prev' \in [Entry -> Entry \cup {NIL}]
    BY <1>4, <1>5
  <2>2. allocated' \subseteq Entry
    BY <1>1 DEF Linked, StackTypeOK
  <2> QED BY <2>1, <2>2, <1>1, <1>12 DEF Linked, StackTypeOK
<1>15. Used'
  BY <1>1 DEF Linked, Used
<1> QED BY <1>1, <1>13, <1>14, <1>15 DEF Linked

LEMMA AgcloseSafe ==
  ASSUME Linked, Agclose, ~Broken PROVE Linked'
<1>1. /\ cb' = NIL /\ allocated' = allocated \ ToSet(Chain)
      /\ installed' = <<>>
      /\ f' = f /\ prev' = prev /\ running' = running
      /\ crashed' = crashed /\ reused' = reused
      /\ orderly' = (orderly /\ ToSet(Chain) \cap Awaited = {})
  BY DEF Agclose
<1>2. PICK q : q = <<>>
  OBVIOUS
<1>3. q \in Seq(Entry) /\ Len(q) = 0 /\ installed' \in Seq(Disc) /\ Len(installed') = 0
  BY <1>1, <1>2
<1>4. Holds(q)'
  BY <1>1, <1>2, <1>3 DEF Holds, IsList
<1>5. Holds(Chain)' /\ Chain' = q
  BY <1>4, StepList
<1>6. StackTypeOK'
  <2>1. orderly' \in BOOLEAN /\ allocated' \subseteq Entry
    BY <1>1 DEF Linked, StackTypeOK
  <2> QED BY <2>1, <1>1, <1>3 DEF Linked, StackTypeOK
<1>7. Used'
  BY <1>1 DEF Linked, Used
<1>8. ASSUME orderly' PROVE Orderly'
  <2>1. ToSet(Chain) = allocated /\ ~crashed /\ OnTheWayBack
    BY <1>1, <1>8 DEF Linked, Orderly
  <2>2. ToSet(q) = {}
    BY <1>3, NoMembers
  <2>3. OnTheWayBack'
    BY <2>1, <1>1, <1>8, StillGoing
  <2>4. allocated' = {}
    BY <2>1, <1>1
  <2> QED BY <2>1, <2>2, <2>3, <2>4, <1>1, <1>5 DEF Orderly
<1> QED BY <1>1, <1>5, <1>6, <1>7, <1>8 DEF Linked

LEMMA PopAbsentSafe ==
  ASSUME Linked, NEW d \in Disc, PopAbsent(d) PROVE Linked'
<1>1. /\ UNCHANGED fields /\ running' = running /\ installed' = installed
      /\ crashed' = TRUE /\ orderly' = FALSE /\ reused' = reused
  BY DEF PopAbsent
<1>2. Chain' = Chain
  BY <1>1 DEF fields, Chain
<1>3. Holds(Chain)'
  BY <1>1, <1>2 DEF Linked, Holds, IsList, fields
<1>4. StackTypeOK' /\ Used'
  BY <1>1 DEF Linked, StackTypeOK, Used, fields
<1> QED BY <1>1, <1>3, <1>4 DEF Linked

LEMMA EventSafe ==
  ASSUME Linked, EventBegins, ~Broken PROVE Linked'
<1>1. PICK ev : ev = [todo |-> Reverse(Chain), called |-> <<>>, wanted |-> installed]
  OBVIOUS
<1>2. /\ UNCHANGED fields /\ installed' = installed /\ crashed' = crashed
      /\ orderly' = orderly /\ reused' = reused /\ running' = <<ev>> \o running
  BY <1>1 DEF EventBegins, Descent, history
<1>3. Chain' = Chain
  BY <1>2 DEF fields, Chain
<1>4. Holds(Chain)'
  BY <1>2, <1>3 DEF Linked, Holds, IsList, fields
<1>5. PICK c : c = Chain
  OBVIOUS
<1>6. /\ c \in Seq(Entry) /\ Len(c) \in Nat
      /\ \A i \in 1 .. Len(c) : c[i] \in Entry
      /\ installed \in Seq(Disc) /\ Len(installed) = Len(c)
      /\ \A i \in 1 .. Len(c) : f[c[i]] = installed[i]
      /\ ToSet(c) = {c[i] : i \in 1 .. Len(c)}
  BY <1>5, Now
<1>7. /\ Reverse(c) \in Seq(Entry) /\ Len(Reverse(c)) = Len(c)
      /\ \A j \in 1 .. Len(c) : Reverse(c)[j] = c[Len(c) + 1 - j]
  <2>1. Reverse(c) = [j \in 1 .. Len(c) |-> c[(Len(c) - j) + 1]]
    BY DEF Reverse
  <2>2. \A j \in 1 .. Len(c) : /\ (Len(c) - j) + 1 \in 1 .. Len(c)
                               /\ (Len(c) - j) + 1 = Len(c) + 1 - j
    BY <1>6
  <2> QED BY <2>1, <2>2, <1>6
<1>8. /\ ev.todo = Reverse(c) /\ ev.called = <<>> /\ ev.wanted = installed
      /\ ev \in Running
  <2>1. <<>> \in Seq(Disc)
    OBVIOUS
  <2> QED BY <2>1, <1>1, <1>5, <1>6, <1>7 DEF Running
<1>9. /\ running' \in Seq(Running) /\ Len(running') = Len(running) + 1 /\ running'[1] = ev
      /\ \A k \in 2 .. Len(running') : running'[k] = running[k - 1] /\ k - 1 \in 1 .. Len(running)
  BY <1>2, <1>8, Events
<1>10. StackTypeOK'
  BY <1>2, <1>9 DEF Linked, StackTypeOK, fields
<1>11. Used'
  BY <1>2 DEF Linked, Used, fields
<1>12. ASSUME orderly PROVE Orderly'
  <2>1. ToSet(c) = allocated /\ ~crashed /\ OnTheWayBack
    BY <1>5, <1>12 DEF Linked, Orderly
  <2>2. \A j \in 1 .. Len(c) :
          /\ Reverse(c)[j] \in allocated
          /\ f[Reverse(c)[j]] = installed[Len(c) + 1 - 0 - j]
    <3> TAKE j \in 1 .. Len(c)
    <3>1. Len(c) + 1 - j \in 1 .. Len(c) /\ Len(c) + 1 - 0 - j = Len(c) + 1 - j
      BY <1>6
    <3> QED BY <3>1, <2>1, <1>6, <1>7
  <2>3. Going(ev)
    <3>1. Len(ev.called) = 0
      BY <1>8
    <3> QED BY <2>2, <3>1, <1>6, <1>7, <1>8 DEF Going
  <2>4. OnTheWayBack'
    <3> SUFFICES ASSUME NEW k \in 1 .. Len(running') PROVE Going(running'[k])
      BY <1>2 DEF OnTheWayBack, Going, fields
    <3>1. CASE k = 1
      BY <3>1, <2>3, <1>9
    <3>2. CASE k # 1
      <4>1. k \in 2 .. Len(running')
        BY <3>2
      <4> QED BY <4>1, <2>1, <1>9 DEF OnTheWayBack
    <3> QED BY <3>1, <3>2
  <2> QED BY <2>1, <2>4, <1>2, <1>3, <1>5 DEF Orderly, fields
<1> QED BY <1>2, <1>4, <1>10, <1>11, <1>12 DEF Linked

\* One frame of an event that goes on as it should calls its method.
LEMMA GoesOn ==
  ASSUME NEW ev \in Running, Going(ev), ev.todo # <<>>,
         NEW next \in Running, next.todo = Tail(ev.todo), next.wanted = ev.wanted,
         next.called = Append(ev.called, f[Head(ev.todo)])
  PROVE  Going(next)
<1> DEFINE todo == ev.todo
           called == ev.called
           wanted == ev.wanted
<1>1. todo \in Seq(Entry) /\ called \in Seq(Disc) /\ wanted \in Seq(Disc)
  BY DEF Running
<1>2. /\ Len(called) \in Nat /\ Len(todo) \in Nat /\ Len(wanted) \in Nat /\ Len(todo) >= 1
      /\ Len(Tail(todo)) = Len(todo) - 1 /\ Head(todo) = todo[1]
      /\ \A j \in 1 .. Len(todo) - 1 : Tail(todo)[j] = todo[j + 1]
  BY <1>1
<1>3. /\ Len(called) + Len(todo) = Len(wanted)
      /\ \A i \in 1 .. Len(called) : called[i] = wanted[Len(wanted) + 1 - i]
      /\ \A j \in 1 .. Len(todo) :
           todo[j] \in allocated /\ f[todo[j]] = wanted[Len(wanted) + 1 - Len(called) - j]
  BY DEF Going
<1>4. f[Head(todo)] = wanted[Len(wanted) + 1 - (Len(called) + 1)]
  <2>1. 1 \in 1 .. Len(todo)
    BY <1>2
  <2>2. Len(wanted) + 1 - Len(called) - 1 = Len(wanted) + 1 - (Len(called) + 1)
    BY <1>2
  <2> QED BY <2>1, <2>2, <1>2, <1>3
<1>5. /\ Len(next.called) = Len(called) + 1
      /\ \A i \in 1 .. Len(called) : next.called[i] = called[i]
      /\ next.called[Len(called) + 1] = f[Head(todo)]
      /\ next.todo = Tail(todo) /\ Len(next.todo) = Len(todo) - 1
  BY <1>1, <1>2
<1>6. Len(next.called) \in Nat /\ Len(next.called) = Len(called) + 1
  BY <1>2, <1>5
<1>7. \A i \in 1 .. Len(next.called) : next.called[i] = wanted[Len(wanted) + 1 - i]
  <2> TAKE i \in 1 .. Len(next.called)
  <2>1. CASE i \in 1 .. Len(called)
    BY <2>1, <1>3, <1>5
  <2>2. CASE i = Len(called) + 1
    BY <2>2, <1>4, <1>5
  <2> QED BY <2>1, <2>2, <1>2, <1>5
<1>8. ASSUME NEW j \in 1 .. Len(next.todo)
      PROVE  /\ next.todo[j] \in allocated
             /\ f[next.todo[j]] = wanted[Len(wanted) + 1 - Len(next.called) - j]
  <2>1. /\ j \in 1 .. Len(todo) - 1 /\ j + 1 \in 1 .. Len(todo)
        /\ Len(wanted) + 1 - Len(called) - (j + 1) = Len(wanted) + 1 - Len(next.called) - j
    <3>1. j \in 1 .. Len(todo) - 1
      BY <1>5
    <3> HIDE DEF todo, called, wanted
    <3> QED BY ONLY <3>1, <1>2, <1>6
  <2>2. /\ todo[j + 1] \in allocated
        /\ f[todo[j + 1]] = wanted[Len(wanted) + 1 - Len(called) - (j + 1)]
    BY <2>1, <1>3
  <2> QED BY <2>1, <2>2, <1>2
<1>9. Len(next.called) + Len(next.todo) = Len(wanted)
  <2>1. Len(next.todo) = Len(todo) - 1 /\ Len(called) + Len(todo) = Len(wanted)
    BY <1>3, <1>5
  <2> HIDE DEF todo, called, wanted
  <2> QED BY ONLY <2>1, <1>2, <1>6
<1> QED BY <1>7, <1>8, <1>9 DEF Going

LEMMA CallSafe ==
  ASSUME Linked, Call, Head(Head(running).todo) \in allocated PROVE Linked'
<1>1. PICK ev : ev = running[1]
  OBVIOUS
<1>2. PICK next : next = WayBack(ev)
  OBVIOUS
<1>3. /\ running # <<>> /\ Head(running) = ev /\ ev.todo # <<>> /\ 1 \in 1 .. Len(running)
      /\ Head(ev.todo) \in allocated /\ ev \in Running
  BY <1>1, Events DEF Call
<1>4. /\ UNCHANGED fields /\ installed' = installed /\ crashed' = crashed
      /\ orderly' = orderly /\ reused' = reused
      /\ running' = <<next>> \o Tail(running)
  BY <1>1, <1>2, <1>3 DEF Call, history
<1>5. Chain' = Chain
  BY <1>4 DEF fields, Chain
<1>6. Holds(Chain)'
  BY <1>4, <1>5 DEF Linked, Holds, IsList, fields
<1>7. /\ next \in Running /\ next.todo = Tail(ev.todo) /\ next.wanted = ev.wanted
      /\ next.called = Append(ev.called, f[Head(ev.todo)])
  <2>1. f[Head(ev.todo)] \in Disc
    BY <1>3 DEF Linked, Used
  <2>2. /\ ev.todo \in Seq(Entry) /\ ev.called \in Seq(Disc)
        /\ ev = [todo |-> ev.todo, called |-> ev.called, wanted |-> ev.wanted]
    BY <1>3 DEF Running
  <2>3. Tail(ev.todo) \in Seq(Entry) /\ Append(ev.called, f[Head(ev.todo)]) \in Seq(Disc)
    BY <2>1, <2>2, <1>3
  <2> QED BY <2>3, <1>2, <1>3 DEF Running, WayBack
<1>8. /\ running' \in Seq(Running) /\ Len(running') = Len(running) /\ running'[1] = next
      /\ \A k \in 1 .. Len(running) : k # 1 => running'[k] = running[k]
  BY <1>3, <1>4, <1>7, Events
<1>9. StackTypeOK'
  BY <1>4, <1>8 DEF Linked, StackTypeOK, fields
<1>10. Used'
  BY <1>4 DEF Linked, Used, fields
<1>11. ASSUME orderly PROVE Orderly'
  <2>1. ToSet(Chain) = allocated /\ ~crashed /\ OnTheWayBack
    BY <1>11 DEF Linked, Orderly
  <2>2. Going(next)
    BY <2>1, <1>1, <1>3, <1>7, GoesOn DEF OnTheWayBack
  <2>3. \A k \in 1 .. Len(running') : Going(running'[k])
    BY <2>1, <2>2, <1>8 DEF OnTheWayBack
  <2>4. OnTheWayBack'
    BY <2>3, <1>4 DEF OnTheWayBack, Going, fields
  <2> QED BY <2>1, <2>4, <1>4, <1>5 DEF Orderly, fields
<1> QED BY <1>4, <1>6, <1>9, <1>10, <1>11 DEF Linked

LEMMA EventEndsSafe ==
  ASSUME Linked, EventEnds PROVE Linked'
<1>1. /\ UNCHANGED fields /\ installed' = installed /\ crashed' = crashed
      /\ orderly' = orderly /\ reused' = reused /\ running # <<>> /\ running' = Tail(running)
  BY DEF EventEnds, history
<1>2. Chain' = Chain
  BY <1>1 DEF fields, Chain
<1>3. Holds(Chain)'
  BY <1>1, <1>2 DEF Linked, Holds, IsList, fields
<1>4. /\ running' \in Seq(Running) /\ Len(running') = Len(running) - 1
      /\ \A k \in 1 .. Len(running') : running'[k] = running[k + 1] /\ k + 1 \in 1 .. Len(running)
  BY <1>1, Events
<1>5. StackTypeOK' /\ Used'
  BY <1>1, <1>4 DEF Linked, StackTypeOK, Used, fields
<1>6. ASSUME orderly PROVE Orderly'
  <2>1. ToSet(Chain) = allocated /\ ~crashed /\ OnTheWayBack
    BY <1>6 DEF Linked, Orderly
  <2>2. \A k \in 1 .. Len(running') : Going(running'[k])
    BY <2>1, <1>4 DEF OnTheWayBack
  <2>3. OnTheWayBack'
    BY <2>2, <1>1 DEF OnTheWayBack, Going, fields
  <2> QED BY <2>1, <2>3, <1>1, <1>2 DEF Orderly, fields
<1> QED BY <1>1, <1>3, <1>5, <1>6 DEF Linked

\* Once an entry was given out that is linked, there is nothing to keep but that.
LEMMA Reused ==
  ASSUME reused, ~orderly, [StackNext]_stackVars PROVE reused' /\ ~orderly'
<1>1. CASE UNCHANGED stackVars
  BY <1>1 DEF stackVars, history
<1>2. ASSUME NEW d \in Disc, Agpushdisc(d) PROVE reused' /\ ~orderly'
  BY <1>2 DEF Agpushdisc
<1>3. CASE PopTop
  BY <1>3 DEF PopTop, Crash, history
<1>4. ASSUME NEW d \in Disc, PopBelow(d) PROVE reused' /\ ~orderly'
  BY <1>4 DEF PopBelow, Crash, history
<1>5. ASSUME NEW d \in Disc, PopAbsent(d) PROVE reused' /\ ~orderly'
  BY <1>5 DEF PopAbsent
<1>6. CASE Agclose
  BY <1>6 DEF Agclose, Crash, history
<1>7. CASE EventBegins \/ Call \/ EventEnds
  <2>1. UNCHANGED history
    BY <1>7 DEF EventBegins, Call, EventEnds, Crash
  <2> QED BY <2>1 DEF history
<1> QED BY <1>1, <1>2, <1>3, <1>4, <1>5, <1>6, <1>7 DEF StackNext

\* Every step keeps the list, or gives out an entry that is linked.
LEMMA StepSafe ==
  ASSUME Linked, reused = FALSE, StackNext PROVE Inv'
<1>1. ASSUME Linked', reused' = reused PROVE Inv'
  BY <1>1 DEF Inv
<1>2. ASSUME NEW d \in Disc, Agpushdisc(d) PROVE Inv'
  <2>1. CASE cb' \notin ToSet(Chain)
    <3>1. reused' = reused
      BY <1>2, <2>1 DEF Agpushdisc
    <3> QED BY <1>1, <1>2, <2>1, <3>1, PushSafe
  <2>2. CASE cb' \in ToSet(Chain)
    <3>1. cb' \notin allocated /\ reused' /\ orderly' = orderly
      BY <1>2, <2>2 DEF Agpushdisc
    <3>2. ~orderly
      BY <2>2, <3>1 DEF Linked, Orderly
    <3> QED BY <3>1, <3>2 DEF Inv
  <2> QED BY <2>1, <2>2
<1>3. CASE PopTop
  <2>1. reused' = reused
    BY <1>3 DEF PopTop, Crash, history
  <2>2. CASE cb \in allocated
    BY <1>1, <1>3, <2>1, <2>2, PopTopSafe
  <2>3. CASE cb \notin allocated
    <3>1. Crash /\ cb # NIL
      BY <1>3, <2>3 DEF PopTop
    <3>2. cb = Chain[1] /\ 1 \in 1 .. Len(Chain)
      BY <3>1, Now DEF IsList
    <3>3. ~orderly
      BY <2>3, <3>2, NotBroken
    <3> QED BY <1>1, <2>1, <3>1, <3>3, CrashSafe
  <2> QED BY <2>2, <2>3
<1>4. ASSUME NEW d \in Disc, PopBelow(d) PROVE Inv'
  <2>1. reused' = reused
    BY <1>4 DEF PopBelow, Crash, history
  <2>2. CASE ~Crash
    BY <1>1, <1>4, <2>1, <2>2, PopBelowSafe
  <2>3. CASE Crash
    <3>1. PICK i \in 2 .. Len(Chain) :
            (\A j \in 1 .. i : Chain[j] \in allocated) => crashed' = crashed
      BY <1>4 DEF PopBelow
    <3>2. \A j \in 1 .. i : j \in 1 .. Len(Chain)
      BY <3>1, Now
    <3>3. orderly => crashed' = crashed /\ ~crashed
      BY <3>1, <3>2, NotBroken DEF Linked, Orderly
    <3>4. ~orderly
      BY <2>3, <3>3 DEF Crash
    <3> QED BY <1>1, <2>1, <2>3, <3>4, CrashSafe
  <2> QED BY <2>2, <2>3
<1>5. ASSUME NEW d \in Disc, PopAbsent(d) PROVE Inv'
  BY <1>1, <1>5, PopAbsentSafe DEF PopAbsent
<1>6. CASE Agclose
  <2>1. reused' = reused
    BY <1>6 DEF Agclose, Crash, history
  <2>2. CASE ~Broken
    BY <1>1, <1>6, <2>1, <2>2, AgcloseSafe
  <2>3. CASE Broken
    <3>1. Crash /\ ~orderly
      BY <1>6, <2>3, NotBroken DEF Agclose
    <3> QED BY <1>1, <2>1, <3>1, CrashSafe
  <2> QED BY <2>2, <2>3
<1>7. CASE EventBegins
  <2>1. reused' = reused
    BY <1>7 DEF EventBegins, Crash, history
  <2>2. CASE ~Broken
    BY <1>1, <1>7, <2>1, <2>2, EventSafe
  <2>3. CASE Broken
    <3>1. Crash /\ ~orderly
      BY <1>7, <2>3, NotBroken DEF EventBegins
    <3> QED BY <1>1, <2>1, <3>1, CrashSafe
  <2> QED BY <2>2, <2>3
<1>8. CASE Call
  <2>1. reused' = reused
    BY <1>8 DEF Call, Crash, history
  <2>2. CASE Head(Head(running).todo) \in allocated
    BY <1>1, <1>8, <2>1, <2>2, CallSafe
  <2>3. CASE Head(Head(running).todo) \notin allocated
    <3>1. Crash /\ running # <<>> /\ Head(running).todo # <<>>
      BY <1>8, <2>3 DEF Call
    <3>2. 1 \in 1 .. Len(running) /\ Head(running) = running[1]
      BY <3>1, Events
    <3>3. running[1].todo \in Seq(Entry) /\ running[1].todo # <<>>
      BY <3>1, <3>2, Events
    <3>4. 1 \in 1 .. Len(running[1].todo) /\ Head(running[1].todo) = running[1].todo[1]
      BY <3>3
    <3>5. orderly => Going(running[1])
      BY <3>2 DEF Linked, Orderly, OnTheWayBack
    <3>6. orderly => running[1].todo[1] \in allocated
      BY <3>4, <3>5 DEF Going
    <3>7. ~orderly
      BY <2>3, <3>2, <3>4, <3>6
    <3> QED BY <1>1, <2>1, <3>1, <3>7, CrashSafe
  <2> QED BY <2>2, <2>3
<1>9. CASE EventEnds
  <2>1. reused' = reused
    BY <1>9 DEF EventEnds, history
  <2> QED BY <1>1, <1>9, <2>1, EventEndsSafe
<1> QED BY <1>2, <1>3, <1>4, <1>5, <1>6, <1>7, <1>8, <1>9 DEF StackNext

LEMMA Inductive ==
  /\ StackInit => Inv
  /\ Inv /\ [StackNext]_stackVars => Inv'
<1>1. ASSUME StackInit PROVE Inv
  <2>1. PICK q : q = <<>>
    OBVIOUS
  <2>2. /\ q \in Seq(Entry) /\ Len(q) = 0 /\ Len(<<>>) = 0
        /\ <<>> \in Seq(Disc) /\ <<>> \in Seq(Running)
    BY <2>1
  <2>3. IsList(q)
    BY <1>1, <2>1, <2>2 DEF StackInit, IsList
  <2>4. Chain = q
    BY <2>2, <2>3, ChainIs
  <2>5. Holds(Chain)
    BY <1>1, <2>2, <2>3, <2>4 DEF StackInit, Holds
  <2>6. StackTypeOK /\ Used
    BY <1>1, <2>2 DEF StackInit, StackTypeOK, Used
  <2>7. ToSet(Chain) = {}
    BY <2>2, <2>4, NoMembers
  <2>8. OnTheWayBack
    BY <1>1, <2>2 DEF StackInit, OnTheWayBack
  <2>9. Linked
    BY <1>1, <2>5, <2>6, <2>7, <2>8 DEF StackInit, Linked, Orderly
  <2> QED BY <1>1, <2>9 DEF StackInit, Inv
<1>2. ASSUME Inv, [StackNext]_stackVars PROVE Inv'
  <2>1. CASE reused
    BY <1>2, <2>1, Reused DEF Inv
  <2>2. CASE ~reused
    <3>1. Linked
      BY <1>2, <2>2 DEF Inv
    <3>2. CASE UNCHANGED stackVars
      <4>1. Chain' = Chain /\ reused' = reused
        BY <3>2 DEF stackVars, fields, history, Chain
      <4>2. Linked'
        BY <3>1, <3>2, <4>1
           DEF stackVars, fields, history, Linked, StackTypeOK, Holds, IsList, Used, Orderly,
               OnTheWayBack, Going
      <4> QED BY <2>2, <4>1, <4>2 DEF Inv
    <3>3. CASE StackNext
      <4>1. reused = FALSE
        BY <2>2, <3>1 DEF Linked, StackTypeOK
      <4> QED BY <3>1, <3>3, <4>1, StepSafe
    <3> QED BY <1>2, <3>2, <3>3
  <2> QED BY <2>1, <2>2
<1> QED BY <1>1, <1>2

-----------------------------------------------------------------------------
(* What follows.                                                           *)

\* For any client, one that pops disciplines from the middle of the stack
\* included, whose methods push, pop, close the graph and cause events: the list
\* holds the disciplines that are installed, in their order (agpushdisc,
\* agpopdisc, agclose), until the allocator gives out an entry that was freed
\* while it is still linked.
THEOREM ListStaysAsInstalled == StackSpec => []ListAsInstalled
<1>1. ASSUME Inv, ~reused PROVE [i \in 1 .. Len(Chain) |-> f[Chain[i]]] = installed
  <2>1. PICK c : c = Chain
    OBVIOUS
  <2>2. /\ c \in Seq(Entry) /\ Len(c) = Len(installed) /\ installed \in Seq(Disc)
        /\ \A i \in 1 .. Len(c) : f[c[i]] = installed[i]
    BY <1>1, <2>1, Now DEF Inv
  <2>3. installed = [i \in 1 .. Len(installed) |-> installed[i]]
    BY <2>2
  <2>4. [i \in 1 .. Len(c) |-> f[c[i]]] = installed
    BY <2>2, <2>3
  <2> QED BY <2>1, <2>4
<1>2. Inv => ListAsInstalled
  BY <1>1 DEF ListAsInstalled
<1> QED BY <1>2, Inductive, PTL DEF StackSpec

\* If agpopdisc was called for the top of the stack only, and by no method while a
\* suspended frame waited for that entry, then nothing crashes, the list links the
\* allocated entries and no others, and every event calls the methods of the
\* disciplines that were installed when it began, once each and from the bottom
\* up, whatever the methods push and pop and whatever events they cause
\* (agpushdisc, agpopdisc, agclose, aginitcb, agupdcb, agdelcb).
THEOREM OrderlyIsSound == StackSpec => []SoundWhenOrderly
<1>1. ASSUME Inv, orderly PROVE ~crashed /\ ~reused /\ EntriesAllocated /\ CalledBottomUp
  <2>1. Linked /\ Orderly /\ ~reused
    BY <1>1 DEF Inv, Linked
  <2>2. ASSUME NEW k \in 1 .. Len(running), running[k].todo = <<>>
        PROVE  running[k].called = Reverse(running[k].wanted)
    <3> DEFINE called == running[k].called
               wanted == running[k].wanted
    <3>1. /\ called \in Seq(Disc) /\ wanted \in Seq(Disc) /\ Len(running[k].todo) = 0
          /\ Len(wanted) \in Nat /\ Len(called) \in Nat
      BY <2>1, <2>2, Events
    <3>2. Going(running[k])
      BY <2>1 DEF Orderly, OnTheWayBack
    <3>3. /\ Len(called) + Len(running[k].todo) = Len(wanted)
          /\ \A i \in 1 .. Len(called) : called[i] = wanted[Len(wanted) + 1 - i]
      BY ONLY <3>2 DEF Going
    <3>4. Len(called) = Len(wanted)
      BY ONLY <3>1, <3>3
    <3>5. Reverse(wanted) = [i \in 1 .. Len(wanted) |-> wanted[(Len(wanted) - i) + 1]]
      BY DEF Reverse
    <3>6. \A i \in 1 .. Len(wanted) : (Len(wanted) - i) + 1 = Len(wanted) + 1 - i
      BY <3>1
    <3>7. called = [i \in 1 .. Len(called) |-> called[i]]
      BY <3>1
    <3> HIDE DEF called, wanted
    <3>8. called = Reverse(wanted)
      BY ONLY <3>3, <3>4, <3>5, <3>6, <3>7
    <3> QED BY <3>8 DEF called, wanted
  <2> QED BY <2>1, <2>2 DEF Orderly, EntriesAllocated, CalledBottomUp
<1>2. Inv => SoundWhenOrderly
  BY <1>1 DEF SoundWhenOrderly
<1> QED BY <1>2, Inductive, PTL DEF StackSpec
=============================================================================
