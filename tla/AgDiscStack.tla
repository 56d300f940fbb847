---------------------------- MODULE AgDiscStack ----------------------------
(***************************************************************************)
(* The stack of callback disciplines of a graph (lib/cgraph obj.c:         *)
(* agpushdisc, agpopdisc, and the three functions that call the methods).  *)
(*                                                                         *)
(* The stack is a list of entries, linked from the top down.  An event on  *)
(* an object goes down the whole list first and calls the methods on its   *)
(* way back, so a method runs while entries above its own still wait: what *)
(* it does to the stack happens in the middle of their turn.  A method may *)
(* push, pop, close the graph and cause events of its own.                 *)
(*                                                                         *)
(* An entry that was freed while it is linked, or while a frame waits for  *)
(* it, may be read later (crashed) or be given out again by the allocator. *)
(* What the program does after a crash is not modelled.                    *)
(*                                                                         *)
(* An operator named Bug... is a wrong version of the one that follows it. *)
(***************************************************************************)
EXTENDS Integers, Sequences, FiniteSets, SequencesExt, Chains

CONSTANTS
  Entry,       \* the addresses Agcbstack_t structs may have
  Disc,        \* the disciplines
  NIL,
  PopsAny,     \* whether agpopdisc is called for a discipline that is not on top
  MethodsAct,  \* whether methods call agpushdisc, agpopdisc, agclose, cause events
  MaxNested    \* a bound: how many events run at a time

ASSUME StackAssumption ==
  /\ IsFiniteSet(Entry)
  /\ NIL \notin Entry \cup Disc
  /\ {PopsAny, MethodsAct} \subseteq BOOLEAN
  /\ MaxNested \in Nat

VARIABLES
  cb,         \* Agclos_t.cb, the top entry
  f, prev,    \* the fields of the entries
  allocated,  \* entries that are allocated
  crashed,    \* a null pointer was followed, a freed entry read, or a loop walked
  running,    \* the events under way, the innermost first
  installed,  \* the client's view of the stack, top first
  orderly,    \* history: every pop was of the top, and no frame waited for it
  reused      \* history: the allocator gave out an entry that was still linked

fields == <<cb, f, prev, allocated>>
history == <<orderly, reused>>
stackVars == <<fields, running, crashed, installed, history>>

-----------------------------------------------------------------------------
\* The entries from the top down.
Chain ==
  LET below == [e \in Entry \cup {NIL} |-> IF e = NIL THEN NIL ELSE prev[e]]
  IN  Listed(Cardinality(Entry), cb, below, NIL)

\* An event: the entries whose frames have still to call a method, the
\* disciplines whose methods it has called, and those installed when it began.
Running == [todo : Seq(Entry), called : Seq(Disc), wanted : Seq(Disc)]

StackTypeOK ==
  /\ cb \in Entry \cup {NIL}
  /\ f \in [Entry -> Disc \cup {NIL}]
  /\ prev \in [Entry -> Entry \cup {NIL}]
  /\ allocated \subseteq Entry
  /\ {crashed, orderly, reused} \subseteq BOOLEAN
  /\ running \in Seq(Running)
  /\ installed \in Seq(Disc)

\* Nobody can walk the list to its end: it links a freed entry, or itself.
Broken ==
  \/ ~(ToSet(Chain) \subseteq allocated)
  \/ Chain # <<>> /\ prev[Last(Chain)] # NIL

\* the entries for whose methods a frame still waits
Awaited == UNION {ToSet(running[k].todo) : k \in 1 .. Len(running)}

\* the program, or a method that the innermost event has called
ClientActs ==
  /\ ~crashed
  /\ running # <<>> => MethodsAct /\ Head(running).called # <<>>

Crash ==
  /\ crashed' = TRUE
  /\ UNCHANGED <<fields, running, installed, history>>

\* (the entry is linked to nothing)
BugLink(e, top) == [prev EXCEPT ![e] = NIL]

Link(e, top) == [prev EXCEPT ![e] = top]

\* agpushdisc
Agpushdisc(d) ==
  /\ ClientActs
  /\ \E e \in Entry \ allocated :
       /\ allocated' = allocated \cup {e}
       /\ f' = [f EXCEPT ![e] = d]
       /\ prev' = Link(e, cb)
       /\ cb' = e
       /\ reused' = (reused \/ e \in ToSet(Chain))
  /\ installed' = <<d>> \o installed
  /\ UNCHANGED <<running, crashed, orderly>>

\* (the entry below is freed too)
BugFreed(e) == {e, prev[e]}

Freed(e) == {e}

\* agpopdisc, when the discipline is on top
PopTop ==
  /\ ClientActs
  /\ cb # NIL
  /\ IF cb \in allocated
     THEN /\ cb' = prev[cb]
          /\ allocated' = allocated \ Freed(cb)
          /\ installed' = RemoveFirst(installed, f[cb])
          /\ orderly' = (orderly /\ cb \notin Awaited)
          /\ UNCHANGED <<f, prev, running, crashed, reused>>
     ELSE Crash

\* agpopdisc, when it is below the top: entry i of the list is unlinked, and
\* the one above it is freed
PopBelow(d) ==
  /\ PopsAny /\ ClientActs
  /\ cb # NIL /\ f[cb] # d
  /\ \E i \in 2 .. Len(Chain) :
       /\ f[Chain[i]] = d
       /\ \A j \in 2 .. i - 1 : f[Chain[j]] # d
       /\ IF \A j \in 1 .. i : Chain[j] \in allocated
          THEN /\ prev' = [prev EXCEPT ![Chain[i - 1]] = prev[Chain[i]]]
               /\ allocated' = allocated \ Freed(Chain[i - 1])
               /\ installed' = RemoveFirst(installed, d)
               /\ orderly' = FALSE
               /\ UNCHANGED <<cb, f, running, crashed, reused>>
          ELSE Crash

\* agpopdisc, when it is not on the stack: the search reads prev->f of the last
\* entry, or never ends
PopAbsent(d) ==
  /\ PopsAny /\ ClientActs
  /\ cb # NIL
  /\ \A i \in 1 .. Len(Chain) : f[Chain[i]] # d
  /\ crashed' = TRUE
  /\ orderly' = FALSE
  /\ UNCHANGED <<fields, running, installed, reused>>

\* agclose of the root pops until the stack is empty; another graph is opened
Agclose ==
  /\ ClientActs
  /\ cb # NIL
  /\ IF Broken
     THEN Crash
     ELSE /\ cb' = NIL
          /\ allocated' = allocated \ ToSet(Chain)
          /\ installed' = <<>>
          /\ orderly' = (orderly /\ ToSet(Chain) \cap Awaited = {})
          /\ UNCHANGED <<f, prev, running, crashed, reused>>

\* (every frame calls its method on the way down)
BugDescent == Chain

\* the recursion of aginitcb, agupdcb and agdelcb, down to the last entry
Descent == Reverse(Chain)

\* (bound: MaxNested)
EventBegins ==
  /\ ClientActs
  /\ Len(running) < MaxNested
  /\ IF Broken
     THEN Crash
     ELSE /\ running' = <<[todo |-> Descent, called |-> <<>>, wanted |-> installed]>>
                          \o running
          /\ UNCHANGED <<fields, crashed, installed, history>>

\* the event ev when its next frame has called the method of its entry
WayBack(ev) ==
  [ev EXCEPT !.todo = Tail(@), !.called = Append(@, f[Head(ev.todo)])]

\* a frame of the innermost event calls a method
Call ==
  /\ ~crashed
  /\ running # <<>> /\ Head(running).todo # <<>>
  /\ IF Head(Head(running).todo) \in allocated
     THEN /\ running' = <<WayBack(Head(running))>> \o Tail(running)
          /\ UNCHANGED <<fields, crashed, installed, history>>
     ELSE Crash

\* the outermost frame returns, and the last method with it
EventEnds ==
  /\ ~crashed
  /\ running # <<>> /\ Head(running).todo = <<>>
  /\ running' = Tail(running)
  /\ UNCHANGED <<fields, crashed, installed, history>>

StackInit ==
  /\ cb = NIL
  /\ f = [e \in Entry |-> NIL]
  /\ prev = [e \in Entry |-> NIL]
  /\ allocated = {}
  /\ crashed = FALSE
  /\ running = <<>>
  /\ installed = <<>>
  /\ orderly = TRUE
  /\ reused = FALSE

StackNext ==
  \/ \E d \in Disc : Agpushdisc(d)
  \/ PopTop
  \/ \E d \in Disc : PopBelow(d)
  \/ \E d \in Disc : PopAbsent(d)
  \/ Agclose
  \/ EventBegins
  \/ Call
  \/ EventEnds

StackSpec == StackInit /\ [][StackNext]_stackVars

-----------------------------------------------------------------------------
(* Properties.                                                             *)

\* agpopdisc uninstalls what agpushdisc installed, wherever it is on the stack,
\* and a method may call either: what the list links is the client's disciplines,
\* in its order, until the allocator gives out an entry that is still linked.
ListAsInstalled ==
  reused \/ [i \in 1 .. Len(Chain) |-> f[Chain[i]]] = installed

\* agpopdisc frees the entry it unlinks: the entries on the list are the
\* allocated ones.
EntriesAllocated == ToSet(Chain) = allocated

\* An event calls the methods of every discipline that was installed when it
\* began, once each, from the bottom up, whatever those methods push and pop and
\* whatever events they cause.
CalledBottomUp ==
  \A k \in 1 .. Len(running) :
    running[k].todo = <<>> => running[k].called = Reverse(running[k].wanted)

\* If only the top is ever popped, and by a method only when no suspended frame
\* waits for it, then no entry is lost, read after its free or given out while it
\* is linked, and no method is skipped or called twice.
SoundWhenOrderly ==
  orderly => ~crashed /\ ~reused /\ EntriesAllocated /\ CalledBottomUp

\* Methods are called from the top of the stack down, as cgraph.3 has it.
CalledTopDown ==
  \A k \in 1 .. Len(running) :
    running[k].todo = <<>> => running[k].called = running[k].wanted

\* Nothing is read after its free, whatever the client and its methods pop.
NeverCrashes == ~crashed
=============================================================================
