---------------------------- MODULE AgCallbacks ----------------------------
(***************************************************************************)
(* Holding and releasing the callbacks on nodes and edges (lib/cgraph      *)
(* pend.c, agmethod_init, agmethod_upd and agmethod_delete of obj.c).      *)
(*                                                                         *)
(* While callbacks are disabled an event on an object is kept in a record  *)
(* of the graph it happened in: a creation in the graph that was passed to *)
(* agnode or agedge, an update or a deletion in the root.  agcallbacks(g,  *)
(* TRUE) delivers what is kept in g, one kind of event and of object after *)
(* the other.  The function that receives a callback may itself call the   *)
(* library before it returns.                                              *)
(*                                                                         *)
(* An operator named Bug... is a wrong version of the one that follows it. *)
(***************************************************************************)
EXTENDS Integers, Sequences, FiniteSets

CONSTANTS
  Graph, Root, \* the graphs, and the root among them
  Obj,         \* the addresses nodes and edges may have
  Edges,       \* those of edges
  Ends,        \* the nodes an edge connects
  Id,          \* the ids objects may have
  Sym,         \* attributes
  NULL,
  Reuses,      \* whether an id or an address may come back while its deletion is held
  InCallback,  \* the calls a callback function makes
  UsesInEdges  \* whether the client sets attributes through an in-edge

ASSUME CallbackAssumption ==
  /\ Root \in Graph
  /\ Edges \subseteq Obj
  /\ Ends \in [Edges -> SUBSET (Obj \ Edges)]
  /\ {Reuses, UsesInEdges} \subseteq BOOLEAN
  /\ InCallback \subseteq {"create", "update", "delete", "hold"}
  /\ NULL \notin Id

VARIABLES
  enabled,  \* Agclos_t.callbacks_enabled
  alive,    \* objects that are allocated
  idOf,     \* Agtag_t.id
  pend,     \* pendingset_t of each graph: the pending_cb_t of each kind of event
  flush,    \* the progress of agrelease_callbacks, NULL outside it
  aborted,  \* an assertion failed, or a null pointer was followed
  told,     \* what the client was told of each object, repetitions left out
  owed,     \* attributes of each object that changed since the client was told
  rash      \* history: a method has used an object the client was not told of

vars == <<enabled, alive, idOf, pend, flush, aborted, told, owed, rash>>

Event == {"ins", "mod", "del"}
Kind == {"node", "edge"}
KindOf(o) == IF o \in Edges THEN "edge" ELSE "node"
Pcb == [obj : Obj, key : Id, syms : SUBSET Sym]

\* (the dictionary of created nodes is left out)
BugStages == << <<"ins", "edge">>, <<"mod", "node">>, <<"mod", "edge">>,
                <<"del", "edge">>, <<"del", "node">> >>

\* (nodes are deleted before edges)
BugOrder == << <<"ins", "node">>, <<"ins", "edge">>,
               <<"mod", "node">>, <<"mod", "edge">>,
               <<"del", "node">>, <<"del", "edge">> >>

\* The order in which agrelease_callbacks empties the dictionaries.
ReleaseStages == << <<"ins", "node">>, <<"ins", "edge">>,
             <<"mod", "node">>, <<"mod", "edge">>,
             <<"del", "edge">>, <<"del", "node">> >>

\* how far a release has got, and the record whose methods are being called
Progress == [g : Graph, stage : 1 .. Len(ReleaseStages), cur : Pcb \cup {NULL}]

ASSUME NullAssumption == NULL \notin Pcb \cup Progress

TypeOK ==
  /\ enabled \in BOOLEAN
  /\ alive \subseteq Obj
  /\ idOf \in [Obj -> Id \cup {NULL}]
  /\ pend \in [Graph -> [Event -> SUBSET Pcb]]
  /\ flush \in Progress \cup {NULL}
  /\ aborted \in BOOLEAN
  /\ told \in [Obj -> Seq(Event)]
  /\ owed \in [Obj -> SUBSET Sym]
  /\ rash \in BOOLEAN

-----------------------------------------------------------------------------
(* The dictionaries.                                                       *)

\* (one dictionary for nodes and edges)
BugLookup(dict, kind, key) == {p \in dict : p.key = key}

\* lookup: the record with the object's id, among those on its kind of object
Lookup(dict, kind, key) == {p \in dict : KindOf(p.obj) = kind /\ p.key = key}

\* insert, unless a record is there
Insert(dict, o, key, syms) ==
  IF Lookup(dict, KindOf(o), key) = {}
  THEN dict \cup {[obj |-> o, key |-> key, syms |-> syms]}
  ELSE dict

Purge(dict, o, key) == dict \ Lookup(dict, KindOf(o), key)

\* the assertions on a creation: nothing else is held under this id
AssertNew(g, o, id) ==
  /\ Lookup(pend[g]["mod"], KindOf(o), id) = {}
  /\ Lookup(pend[g]["del"], KindOf(o), id) = {}

\* (a held creation does not absorb the update)
BugRecordMod(p, o, s) == [p EXCEPT !["mod"] = Insert(@, o, idOf[o], {s})]

\* agrecord_callback, CB_UPDATE: nothing to add to a held creation or deletion;
\* record_sym never adds a second attribute
RecordMod(p, o, s) ==
  IF \E ev \in {"ins", "del"} : Lookup(p[ev], KindOf(o), idOf[o]) # {}
  THEN p
  ELSE [p EXCEPT !["mod"] = Insert(@, o, idOf[o], {s})]

BugRecordDel(p, o) ==
  [p EXCEPT !["mod"] = Purge(@, o, idOf[o]),
            !["del"] = Insert(@, o, idOf[o], {})]

\* agrecord_callback, CB_DELETION
RecordDel(p, o) ==
  [p EXCEPT !["ins"] = Purge(@, o, idOf[o]),
            !["mod"] = Purge(@, o, idOf[o]),
            !["del"] = Insert(@, o, idOf[o], {})]

\* the client is told of ev
Heard(o, ev) ==
  [told EXCEPT ![o] =
     IF @ # <<>> /\ @[Len(@)] = ev THEN @ ELSE Append(@, ev)]

-----------------------------------------------------------------------------
(* The client's calls.                                                     *)

\* The client runs between its calls, and inside a callback of a release.
ClientRuns(call) ==
  /\ ~aborted
  /\ flush # NULL => call \in InCallback /\ flush.cur # NULL

\* A method of a release uses o, of which the client has not been told.
UsesUntold(o) == flush # NULL /\ told[o] = <<>>

\* agnode or agedge in g makes object o with this id: agmethod_init(g, o)
Create(g, o, id) ==
  /\ ClientRuns("create")
  /\ o \notin alive
  /\ o \in Edges => Ends[o] \subseteq alive
  /\ \A x \in alive : KindOf(x) = KindOf(o) => idOf[x] # id
  /\ Reuses \/ \A x \in Graph : \A p \in pend[x]["del"] :
                  p.obj # o /\ (KindOf(p.obj) = KindOf(o) => p.key # id)
  /\ alive' = alive \cup {o}
  /\ idOf' = [idOf EXCEPT ![o] = id]
  /\ owed' = [owed EXCEPT ![o] = {}]
  /\ rash' = (rash \/ (o \in Edges /\ \E x \in Ends[o] : UsesUntold(x)))
  /\ IF enabled
     THEN /\ told' = [told EXCEPT ![o] = <<"ins">>]
          /\ UNCHANGED <<pend, aborted>>
     ELSE /\ told' = [told EXCEPT ![o] = <<>>]
          /\ aborted' = ~AssertNew(g, o, id)
          /\ pend' = [pend EXCEPT ![g]["ins"] = Insert(@, o, id, {})]
  /\ UNCHANGED <<enabled, flush>>

\* agxset on o, or on the in-edge half of an edge, of which no method and no
\* dictionary knows: agmethod_upd(root, o, s)
Update(o, s, half) ==
  /\ ClientRuns("update")
  /\ o \in alive
  /\ half = "in" => o \in Edges
  /\ rash' = (rash \/ UsesUntold(o))
  /\ IF enabled
     THEN /\ told' = IF half = "in" THEN told ELSE Heard(o, "mod")
          /\ owed' = IF half = "in" THEN [owed EXCEPT ![o] = @ \cup {s}] ELSE owed
          /\ UNCHANGED <<pend, aborted>>
     ELSE /\ owed' = [owed EXCEPT ![o] = @ \cup {s}]
          /\ aborted' = (half = "in")
          /\ pend' = [pend EXCEPT ![Root] = RecordMod(@, o, s)]
          /\ UNCHANGED told
  /\ UNCHANGED <<enabled, alive, idOf, flush>>

\* agdeledge in the root, or agdelnode when it has deleted the edges of o:
\* agmethod_delete(root, o), then the struct is freed
Delete(o) ==
  /\ ClientRuns("delete")
  /\ o \in alive
  /\ \A e \in alive \cap Edges : o \notin Ends[e]
  /\ alive' = alive \ {o}
  /\ owed' = [owed EXCEPT ![o] = {}]
  /\ IF enabled
     THEN told' = Heard(o, "del") /\ UNCHANGED pend
     ELSE pend' = [pend EXCEPT ![Root] = RecordDel(@, o)] /\ UNCHANGED told
  /\ UNCHANGED <<enabled, idOf, flush, aborted, rash>>

\* agcallbacks(g, FALSE)
Hold ==
  /\ ClientRuns("hold")
  /\ enabled
  /\ enabled' = FALSE
  /\ UNCHANGED <<alive, idOf, pend, flush, aborted, told, owed, rash>>

\* agcallbacks(g, TRUE) while they are held (bound: not inside a callback)
Release(g) ==
  /\ ClientRuns("release")
  /\ ~enabled
  /\ enabled' = TRUE
  /\ flush' = [g |-> g, stage |-> 1, cur |-> NULL]
  /\ UNCHANGED <<alive, idOf, pend, aborted, told, owed, rash>>

-----------------------------------------------------------------------------
(* agrelease_callbacks and cb.                                             *)

Ev == ReleaseStages[flush.stage][1]
Dict == {p \in pend[flush.g][Ev] : KindOf(p.obj) = ReleaseStages[flush.stage][2]}

\* the method is called for the first record
Deliver(p) ==
  /\ ~aborted
  /\ flush # NULL
  /\ flush.cur = NULL
  /\ p \in Dict
  /\ flush' = [flush EXCEPT !.cur = p]
  /\ told' = Heard(p.obj, Ev)
  /\ owed' = [owed EXCEPT ![p.obj] = IF Ev = "ins" THEN {} ELSE @ \ p.syms]
  /\ UNCHANGED <<enabled, alive, idOf, pend, aborted, rash>>

\* (the record stays)
BugReturn ==
  /\ flush # NULL
  /\ flush.cur # NULL
  /\ flush' = [flush EXCEPT !.cur = NULL]
  /\ UNCHANGED <<enabled, alive, idOf, pend, aborted, told, owed, rash>>

\* the method has returned: the record goes
Return ==
  /\ ~aborted
  /\ flush # NULL
  /\ flush.cur # NULL
  /\ pend' = [pend EXCEPT ![flush.g][Ev] = Purge(@, flush.cur.obj, flush.cur.key)]
  /\ flush' = [flush EXCEPT !.cur = NULL]
  /\ UNCHANGED <<enabled, alive, idOf, aborted, told, owed, rash>>

\* (one dictionary too many)
BugNextStage ==
  /\ ~aborted
  /\ flush # NULL
  /\ flush.cur = NULL
  /\ Dict = {}
  /\ flush' = IF flush.stage <= Len(ReleaseStages) THEN [flush EXCEPT !.stage = @ + 1] ELSE NULL
  /\ UNCHANGED <<enabled, alive, idOf, pend, aborted, told, owed, rash>>

\* the dictionary is empty: the next one, or the end of agcallbacks
NextStage ==
  /\ ~aborted
  /\ flush # NULL
  /\ flush.cur = NULL
  /\ Dict = {}
  /\ IF flush.stage < Len(ReleaseStages)
     THEN flush' = [flush EXCEPT !.stage = @ + 1] /\ UNCHANGED enabled
     ELSE flush' = NULL /\ enabled' = TRUE
  /\ UNCHANGED <<alive, idOf, pend, aborted, told, owed, rash>>

Init ==
  /\ enabled = TRUE
  /\ alive = {}
  /\ idOf = [o \in Obj |-> NULL]
  /\ pend = [g \in Graph |-> [ev \in Event |-> {}]]
  /\ flush = NULL
  /\ aborted = FALSE
  /\ told = [o \in Obj |-> <<>>]
  /\ owed = [o \in Obj |-> {}]
  /\ rash = FALSE

Halves == IF UsesInEdges THEN {"out", "in"} ELSE {"out"}

Client ==
  \/ Hold
  \/ \E g \in Graph : Release(g)
  \/ \E o \in Obj : Delete(o)
  \/ \E g \in Graph, o \in Obj, id \in Id : Create(g, o, id)
  \/ \E o \in Obj, s \in Sym, half \in Halves : Update(o, s, half)

Library ==
  \/ Return
  \/ NextStage
  \/ flush # NULL /\ \E p \in Dict : Deliver(p)

Next == Client \/ Library

\* A release is a loop over finitely many records: it goes on while the
\* functions it calls return.
Spec == Init /\ [][Next]_vars /\ WF_vars(Library)

-----------------------------------------------------------------------------
(* Properties.                                                             *)

\* What a client may hear of one object, repetitions left out.  (A deletion comes
\* alone when the creation was still held: it is purged, the deletion is not.)
Stories ==
  {<<>>, <<"ins">>, <<"ins", "mod">>, <<"ins", "mod", "del">>, <<"ins", "del">>, <<"del">>}

\* the objects that exist as far as the client was told
Believed == {o \in Obj : told[o] # <<>> /\ told[o][Len(told[o])] # "del"}

\* What the client has heard, while they were held, on release, or from the calls
\* its own methods make during a release, makes sense at every moment: no object
\* changes before it is announced or after it is gone, and no edge is announced
\* before its nodes or outlives one (pend.c: "this destroys objects in the opposite
\* of their order of creation").
HeardAsHappened ==
  /\ \A o \in Obj : told[o] \in Stories
  /\ \A e \in Edges \cap Believed : Ends[e] \subseteq Believed

\* This holds unless a method uses an object whose creation is still held.
InOrder == ~rash => HeardAsHappened

\* Callbacks that were held are released, not lost (agcallbacks in cgraph.3):
\* when callbacks are enabled the client knows of every object, every change
\* and every deletion.
AllTold ==
  enabled /\ flush = NULL =>
    \A o \in Obj :
      /\ owed[o] = {}
      /\ o \in alive => told[o] # <<>> /\ told[o][Len(told[o])] # "del"
      /\ o \notin alive /\ told[o] # <<>> => told[o][Len(told[o])] = "del"

\* A creation or an update that was held is delivered for an object that exists.
LiveUntilDeleted ==
  flush # NULL /\ flush.cur # NULL /\ Ev # "del" =>
    flush.cur.obj \in alive /\ idOf[flush.cur.obj] = flush.cur.key

\* The method that is called for an object gets an object that exists:
\* agdelnode and agdeledge call agmethod_delete before they free the struct.
LiveWhenDelivered ==
  flush # NULL /\ flush.cur # NULL => flush.cur.obj \in alive

\* The assertions of agrecord_callback on a creation hold.
NoAbort == ~aborted

\* A release comes to its end.
ReleaseEnds == flush # NULL ~> flush = NULL
=============================================================================
