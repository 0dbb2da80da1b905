--------------------------- MODULE SandboxProofs ---------------------------
(***************************************************************************)
(* Proofs about Sandbox for any number of turns, cancellations, sandboxes, *)
(* snapshots and troubles, and both kinds of provider.                     *)
(***************************************************************************)
EXTENDS Sandbox, FiniteSetTheorems, TLAPS

\* Who the callers are.
LEMMA CallersAre ==
    /\ Turns \subseteq Callers /\ Deleter \in Callers
    /\ \A t \in Cancellable : Canceller(t) \in Callers /\ t \in Turns
    /\ Turns \subseteq Nat /\ Callers \subseteq 0 .. 2 * MaxTurns
    /\ Deleter \notin Turns /\ \A t \in Cancellable : Canceller(t) \notin Turns
  BY SandboxAssumption
     DEF SandboxAssumption, Turns, Callers, Cancellers, Canceller, Deleter

\* What may still go wrong is within the bound.
LEMMA TroublesAreBounded ==
    ASSUME TypeOK, MayFail
    PROVE  deaths + 1 \in 0 .. MaxTroubles /\ refusals + 1 \in 0 .. MaxTroubles
<1>. DEFINE Others == {p \in Callers \ Turns : pc[p] # "idle"}
<1>1. IsFiniteSet(0 .. 2 * MaxTurns)
  BY FS_Interval, SandboxAssumption DEF SandboxAssumption
<1>2. Others \in SUBSET (0 .. 2 * MaxTurns)
  BY CallersAre
<1>3. Cardinality(Others) \in Nat
  BY <1>1, <1>2, FS_Subset, FS_CardinalityType
<1>4. deaths + refusals + Cardinality(Others) < MaxTroubles
  BY DEF MayFail
<1>. HIDE DEF Others
<1>. QED
  BY <1>3, <1>4, SandboxAssumption DEF TypeOK, SandboxAssumption

\* The null value is no row, no sandbox and no snapshot.
LEMMA NoneIsNoRow == None \notin Rows /\ None \notin Boxes /\ None \notin Nat
  BY SandboxAssumption DEF SandboxAssumption, Rows, Boxes

(***************************************************************************)
(* The types, in four parts, and what the helpers do to them.              *)
(***************************************************************************)
Statuses == {"pending", "sandbox", "generating", "packaging", "none", "ready",
             "error"}

AppTypes ==
    /\ status \in [Turns -> Statuses]
    /\ attempts \in [Turns -> 0 .. MaxAttempts]
    /\ published \in [Turns -> SUBSET Turns]
    /\ sandboxId \in Boxes \cup {None}
    /\ deletion \in Deletions \cup {"none"}
    /\ deleted \in BOOLEAN

StoreTypes ==
    /\ registry \in [Boxes -> Rows \cup {None}]
    /\ state \in [Boxes -> {"none", "running", "paused", "gone"}]
    /\ work \in [Boxes -> SUBSET Turns]
    /\ stored \in [Snapshots -> (SUBSET Turns) \cup {None}]
    /\ saves \in 0 .. MaxSnapshots

CallerTypes ==
    /\ pc \in [Callers -> Places]
    /\ seen \in [Callers -> Stages \cup {"none"}]
    /\ uuid \in [Callers -> Boxes \cup {None}]
    /\ row \in [Callers -> Rows]
    /\ handle \in [Callers -> Boxes \cup {None}]
    /\ taken \in [Callers -> Nat \cup {None}]

BoundTypes ==
    /\ deaths \in 0 .. MaxTroubles /\ refusals \in 0 .. MaxTroubles
    /\ lost \subseteq Boxes

\* The type invariant, part by part.
LEMMA TypesAre ==
    /\ TypeOK <=> /\ backend \in Backends /\ AppTypes /\ StoreTypes
                  /\ CallerTypes /\ BoundTypes
    /\ Stages = {"pending", "sandbox", "generating", "packaging"}
<1>1. Stages = {"pending", "sandbox", "generating", "packaging"}
  BY DEF Stages, Order
<1>2. Stages \cup {"none", "ready", "error"} = Statuses
  BY <1>1 DEF Statuses
<1>. QED
  BY <1>1, <1>2 DEF TypeOK, AppTypes, StoreTypes, CallerTypes, BoundTypes

\* A step of p leaves the others where they are, with what they hold.
Steps(p) ==
    /\ CallerTypes'
    /\ \A q \in Callers : q # p =>
          /\ pc'[q] = pc[q] /\ uuid'[q] = uuid[q] /\ row'[q] = row[q]
          /\ handle'[q] = handle[q] /\ taken'[q] = taken[q]

Keeps(p) ==
    /\ uuid'[p] = uuid[p] /\ row'[p] = row[p]
    /\ handle'[p] = handle[p] /\ taken'[p] = taken[p]

HoldsNothing(p) ==
    uuid'[p] = None /\ row'[p] = Nothing /\ handle'[p] = None /\ taken'[p] = None

\* Going somewhere moves one caller.
LEMMA GotoMoves ==
    ASSUME CallerTypes, NEW p \in Callers, NEW l \in Places, Goto(p, l)
    PROVE  /\ pc' \in [Callers -> Places] /\ pc'[p] = l
           /\ \A q \in Callers : q # p => pc'[q] = pc[q]
  BY DEF CallerTypes, Goto

\* A caller that only moves keeps what it holds.
LEMMA KeepsAll ==
    ASSUME CallerTypes, NEW p \in Callers, NEW l \in Places, Goto(p, l),
           UNCHANGED held
    PROVE  Steps(p) /\ pc'[p] = l /\ Keeps(p)
  BY GotoMoves DEF CallerTypes, held, Steps, Keeps

\* A caller that gives back what it has holds nothing.
LEMMA ReleaseForgets ==
    ASSUME CallerTypes, NEW p \in Callers, NEW l \in Places, Release(p, l),
           seen' \in [Callers -> Stages \cup {"none"}]
    PROVE  Steps(p) /\ pc'[p] = l /\ HoldsNothing(p)
<1>1. /\ pc' \in [Callers -> Places] /\ pc'[p] = l
      /\ \A q \in Callers : q # p => pc'[q] = pc[q]
  BY GotoMoves DEF Release
<1>2. Nothing \in Rows
  BY DEF Nothing, Rows
<1>3. /\ uuid' \in [Callers -> Boxes \cup {None}]
      /\ handle' \in [Callers -> Boxes \cup {None}]
      /\ taken' \in [Callers -> Nat \cup {None}]
  BY DEF Release, CallerTypes
<1>4. row' \in [Callers -> Rows]
  BY <1>2 DEF Release, CallerTypes
<1>. QED
  BY <1>1, <1>3, <1>4 DEF Release, CallerTypes, Steps, HoldsNothing

\* A caller that leaves the manager holds nothing.
LEMMA LeaveForgets ==
    ASSUME CallerTypes, NEW p \in Callers, NEW l \in Places, Leave(p, l)
    PROVE  Steps(p) /\ pc'[p] = l /\ HoldsNothing(p)
<1>1. seen' \in [Callers -> Stages \cup {"none"}]
  BY DEF Leave, CallerTypes
<1>. QED
  BY <1>1, ReleaseForgets DEF Leave

\* A job that ends is retried while it has attempts left.
LEMMA Finishes ==
    \A p \in Callers :
        /\ Finish(p) \in {"drop", "queued", "ended"}
        /\ Finish(p) = "queued" => attempts[p] < MaxAttempts
  BY DEF Finish

\* A version in progress gets a status, and none is forgotten.
LEMMA StatusIsSet ==
    ASSUME AppTypes, NEW t \in Turns, NEW s \in Statuses \ {"none"},
           SetStatus(t, s)
    PROVE  /\ status' \in [Turns -> Statuses]
           /\ \A u \in Turns : status'[u] = "none" => status[u] = "none"
  BY DEF AppTypes, SetStatus

\* An aborted job leaves with nothing.
LEMMA AbortEnds ==
    ASSUME AppTypes, CallerTypes, NEW t \in Turns, Abort(t)
    PROVE  /\ status' \in [Turns -> Statuses]
           /\ \A u \in Turns : status'[u] = "none" => status[u] = "none"
           /\ Steps(t) /\ pc'[t] = "ended" /\ HoldsNothing(t)
<1>1. "error" \in Statuses \ {"none"} /\ "ended" \in Places
  BY DEF Statuses, Places
<1>. QED
  BY <1>1, StatusIsSet, LeaveForgets, CallersAre DEF Abort

\* A failed pipeline goes on to suspend its sandbox.
LEMMA FailPersists ==
    ASSUME AppTypes, CallerTypes, NEW t \in Turns, Fail(t), UNCHANGED held
    PROVE  /\ status' \in [Turns -> Statuses]
           /\ \A u \in Turns : status'[u] = "none" => status[u] = "none"
           /\ Steps(t) /\ pc'[t] = "persist" /\ Keeps(t)
<1>1. "error" \in Statuses \ {"none"} /\ "persist" \in Places
  BY DEF Statuses, Places
<1>. QED
  BY <1>1, StatusIsSet, KeepsAll, CallersAre DEF Fail

\* A resume that gives up lets the job create a sandbox, or fails it.
LEMMA ResumeGivesUp ==
    ASSUME AppTypes, CallerTypes, NEW t \in Turns, ResumeFails(t)
    PROVE  /\ status' \in [Turns -> Statuses]
           /\ \A u \in Turns : status'[u] = "none" => status[u] = "none"
           /\ Steps(t) /\ pc'[t] \in {"create", "ended"} /\ HoldsNothing(t)
<1>1. CASE Release(t, "create") /\ UNCHANGED <<status, seen>>
  <2>1. "create" \in Places /\ seen' \in [Callers -> Stages \cup {"none"}]
    BY <1>1 DEF Places, CallerTypes
  <2>2. Steps(t) /\ pc'[t] = "create" /\ HoldsNothing(t)
    BY <1>1, <2>1, ReleaseForgets, CallersAre
  <2>. QED
    BY <1>1, <2>2 DEF AppTypes
<1>2. CASE Abort(t)
  BY <1>2, AbortEnds
<1>. QED
  BY <1>1, <1>2 DEF ResumeFails

\* A box that is created, and one that is connected to.
LEMMA BoxRuns ==
    ASSUME StoreTypes, NEW b \in Boxes
    PROVE  /\ \A w \in SUBSET Turns : NewBox(b, w) =>
                /\ state' \in [Boxes -> {"none", "running", "paused", "gone"}]
                /\ work' \in [Boxes -> SUBSET Turns]
                /\ state[b] = "none" /\ state'[b] = "running"
                /\ \A c \in Boxes : c # b => state'[c] = state[c]
           /\ Connect(b) =>
                /\ state' \in [Boxes -> {"none", "running", "paused", "gone"}]
                /\ Alive(b) /\ state'[b] = "running"
                /\ \A c \in Boxes : c # b => state'[c] = state[c]
                /\ UNCHANGED <<work, stored, saves>>
<1>1. ASSUME NEW w \in SUBSET Turns, NewBox(b, w)
      PROVE  /\ state' \in [Boxes -> {"none", "running", "paused", "gone"}]
             /\ work' \in [Boxes -> SUBSET Turns]
             /\ state[b] = "none" /\ state'[b] = "running"
             /\ \A c \in Boxes : c # b => state'[c] = state[c]
  BY <1>1 DEF StoreTypes, NewBox, NextBox
<1>2. ASSUME Connect(b)
      PROVE  /\ state' \in [Boxes -> {"none", "running", "paused", "gone"}]
             /\ Alive(b) /\ state'[b] = "running"
             /\ \A c \in Boxes : c # b => state'[c] = state[c]
             /\ UNCHANGED <<work, stored, saves>>
  BY <1>2 DEF StoreTypes, Connect, snapshots
<1>. QED
  BY <1>1, <1>2

\* A box that is destroyed, unless the provider fails.
LEMMA BoxIsDestroyed ==
    ASSUME StoreTypes, BoundTypes, TypeOK, NEW b \in Boxes, Destroy(b)
    PROVE  /\ state' \in [Boxes -> {"none", "running", "paused", "gone"}]
           /\ refusals' \in 0 .. MaxTroubles
           /\ \A c \in Boxes : c # b => state'[c] = state[c]
           /\ \/ state'[b] = "gone" /\ refusals' = refusals
              \/ state' = state /\ refusals' # refusals
<1>1. CASE state' = [state EXCEPT ![b] = "gone"] /\ UNCHANGED refusals
  BY <1>1 DEF StoreTypes, BoundTypes
<1>2. CASE UNCHANGED state /\ Refuse
  BY <1>2, TroublesAreBounded DEF StoreTypes, BoundTypes, Refuse
<1>. QED
  BY <1>1, <1>2 DEF Destroy

(***************************************************************************)
(* What a step of a caller p does, sandbox by sandbox.  The invariants are *)
(* proved from this.                                                       *)
(***************************************************************************)
Outside == {"cancel", "queued", "stage", "create", "drop", "dead", "ended"}
Working == {"adopt", "restore", "enter", "write", "package", "build",
            "publish", "persist"}

SameWorld == UNCHANGED <<registry, state, stored, saves>>
SameRows == UNCHANGED <<registry, stored, saves, sandboxId>>
SameBoxes == UNCHANGED <<state, stored, saves, sandboxId>>

\* p forgets what it held, and what it leaves as it is is lost.
Forgets(p) ==
    /\ SameWorld /\ sandboxId' \in {sandboxId, None}
    /\ pc'[p] \in Outside /\ HoldsNothing(p)
    /\ pc[p] = "insert" => handle[p] \in lost'
    /\ pc[p] \in Between =>
          \/ uuid[p] \in lost'
          \/ pc[p] = "unstore" /\ backend = "store" /\ row[p].snapshot # None

\* p holds no sandbox, and goes where it needs none.
Idles(p) ==
    /\ SameWorld /\ sandboxId' = sandboxId /\ Keeps(p)
    /\ pc[p] \in Outside \cup {"idle", "find", "resume"} /\ pc'[p] \in Outside

\* p works in the sandbox that it holds.
Works(p) ==
    /\ SameWorld /\ sandboxId' \in {sandboxId, uuid[p]} /\ Keeps(p)
    /\ pc[p] \in Working /\ pc'[p] \in Working

\* p takes the row of the app.
Chooses(p) ==
    /\ SameWorld /\ sandboxId' = sandboxId
    /\ pc[p] \in {"idle", "stage", "cancel"}
    /\ uuid'[p] \in {None, sandboxId, uuid[p]}
    /\ row'[p] = row[p] /\ handle'[p] = handle[p] /\ taken'[p] = taken[p]
    /\ \/ pc'[p] \in Outside
       \/ pc'[p] \in {"find", "seek", "doom"} /\ uuid'[p] # None

\* p reads the row.
ReadsRow(p) ==
    /\ SameWorld /\ sandboxId' = sandboxId
    /\ uuid'[p] = uuid[p] /\ handle'[p] = handle[p] /\ taken'[p] = taken[p]
    /\ \/ /\ pc[p] = "find" /\ pc'[p] = "resume"
          /\ registry[uuid[p]] # None
          /\ row'[p] = registry[uuid[p]]
       \/ /\ pc[p] = "doom" /\ pc'[p] = "kill"
          /\ row'[p] = IF registry[uuid[p]] = None THEN Nothing
                       ELSE registry[uuid[p]]

\* p takes the live sandbox of the row.
Seeks(p) ==
    /\ SameWorld /\ sandboxId' = sandboxId
    /\ uuid'[p] = uuid[p] /\ row'[p] = row[p] /\ taken'[p] = taken[p]
    /\ pc[p] = "seek" /\ registry[uuid[p]] # None
    /\ handle'[p] = registry[uuid[p]].live
    /\ pc'[p] = IF handle'[p] = None THEN "doom" ELSE "connect"

\* p connects to a sandbox.
Connects(p) ==
    /\ SameRows
    /\ uuid'[p] = uuid[p] /\ row'[p] = row[p] /\ taken'[p] = taken[p]
    /\ handle'[p] \in Boxes /\ Alive(handle'[p])
    /\ \A b \in Boxes :
          state'[b] = IF b = handle'[p] THEN "running" ELSE state[b]
    /\ \/ pc[p] = "connect" /\ pc'[p] = "persist" /\ handle'[p] = handle[p]
       \/ /\ pc[p] = "resume" /\ pc'[p] = "mark" /\ ~Restores(row[p])
          /\ handle'[p] = IF row[p].snapshot # None THEN row[p].snapshot
                          ELSE row[p].live

\* p creates a sandbox, from a snapshot or without one; or the provider
\* leaves it one that it does not know of.
Creates(p) ==
    /\ SameRows
    /\ \E b \in Boxes :
          /\ state[b] = "none"
          /\ \A c \in Boxes : state'[c] = IF c = b THEN "running" ELSE state[c]
          /\ \/ /\ pc[p] = "create" /\ pc'[p] = "insert"
                /\ handle'[p] = b
                /\ uuid'[p] = uuid[p] /\ row'[p] = row[p] /\ taken'[p] = taken[p]
             \/ /\ pc[p] = "resume" /\ pc'[p] = "mark"
                /\ backend = "store" /\ row[p].snapshot # None
                /\ handle'[p] = b
                /\ uuid'[p] = uuid[p] /\ row'[p] = row[p] /\ taken'[p] = taken[p]
             \/ /\ pc[p] = "resume" /\ pc'[p] \in Outside
                /\ backend = "store"
                /\ Keeps(p) \/ HoldsNothing(p)

\* p writes that its sandbox is the live one of the row.
Marks(p) ==
    /\ SameBoxes /\ Keeps(p)
    /\ pc[p] = "mark" /\ pc'[p] = "enter"
    /\ \A b \in Boxes :
          IF b = uuid[p] /\ registry[b] # None
          THEN /\ registry'[b] # None
               /\ registry'[b].live = handle[p]
               /\ registry'[b].snapshot = registry[b].snapshot
          ELSE registry'[b] = registry[b]

\* p registers its sandbox.
Inserts(p) ==
    /\ SameBoxes
    /\ pc[p] = "insert" /\ pc'[p] = "adopt"
    /\ uuid'[p] = handle[p]
    /\ row'[p] = row[p] /\ handle'[p] = handle[p] /\ taken'[p] = taken[p]
    /\ \A b \in Boxes :
          IF b = handle[p]
          THEN registry'[b] # None /\ registry'[b].live = b /\ registry'[b].snapshot = None
          ELSE registry'[b] = registry[b]

\* p destroys the sandbox that it cannot register, or it is lost.
Undoes(p) ==
    /\ SameRows /\ HoldsNothing(p)
    /\ pc[p] = "insert" /\ pc'[p] \in Outside
    /\ \A b \in Boxes :
          state'[b] = state[b] \/ (b = handle[p] /\ state'[b] = "gone")
    /\ state'[handle[p]] = "gone" \/ handle[p] \in lost'

\* p pauses its sandbox.
Pauses(p) ==
    /\ SameRows
    /\ backend = "pause"
    /\ pc[p] = "persist" /\ pc'[p] = "park"
    /\ uuid'[p] = uuid[p] /\ row'[p] = row[p] /\ handle'[p] = handle[p]
    /\ taken'[p] = handle[p] /\ Alive(handle[p])
    /\ \A b \in Boxes : state'[b] = IF b = handle[p] THEN "paused" ELSE state[b]

\* p stores a snapshot.
Stores(p) ==
    /\ UNCHANGED <<registry, state, sandboxId>>
    /\ backend = "store"
    /\ pc[p] = "persist" /\ pc'[p] = "remove"
    /\ uuid'[p] = uuid[p] /\ row'[p] = row[p] /\ handle'[p] = handle[p]
    /\ saves' = saves + 1 /\ taken'[p] = saves'
    /\ stored'[saves'] # None
    /\ \A s \in Snapshots : s # saves' => stored'[s] = stored[s]

\* p removes its sandbox, or does not.
Removes(p) ==
    /\ SameRows /\ Keeps(p)
    /\ pc[p] = "remove" /\ pc'[p] = "park"
    /\ \A b \in Boxes :
          state'[b] = state[b] \/ (b = handle[p] /\ state'[b] = "gone")

\* p writes what it took in the row.
Parks(p) ==
    /\ SameBoxes /\ HoldsNothing(p)
    /\ pc[p] = "park" /\ pc'[p] \in Outside
    /\ \A b \in Boxes :
          IF b = uuid[p] /\ registry[b] # None
          THEN /\ registry'[b] # None
               /\ registry'[b].live = IF backend = "pause" THEN handle[p] ELSE None
               /\ registry'[b].snapshot = taken[p]
          ELSE registry'[b] = registry[b]

\* p destroys the live sandbox of the row that it read, or does not.
Kills(p) ==
    /\ SameRows /\ Keeps(p)
    /\ pc[p] = "kill" /\ pc'[p] = "unstore"
    /\ \A b \in Boxes :
          state'[b] = state[b] \/ (b = row[p].live /\ state'[b] = "gone")
    /\ backend = "pause" /\ row[p].live # None =>
          state'[row[p].live] = "gone" \/ row[p].live \in lost'

\* p deletes the snapshot of the row that it read.
Unstores(p) ==
    /\ UNCHANGED <<registry, state, saves, sandboxId>> /\ Keeps(p)
    /\ pc[p] = "unstore" /\ pc'[p] = "unregister"
    /\ \A s \in Snapshots :
          stored'[s] = stored[s] \/ (Restores(row[p]) /\ s = row[p].snapshot)

\* p removes the row.
Unregisters(p) ==
    /\ SameBoxes /\ HoldsNothing(p)
    /\ pc[p] = "unregister" /\ pc'[p] \in Outside
    /\ \A b \in Boxes :
          IF b = uuid[p] THEN registry'[b] = None ELSE registry'[b] = registry[b]

Effect(p) ==
    \/ Forgets(p) \/ Idles(p) \/ Works(p) \/ Chooses(p) \/ ReadsRow(p)
    \/ Seeks(p) \/ Connects(p) \/ Creates(p) \/ Marks(p) \/ Inserts(p)
    \/ Undoes(p) \/ Pauses(p) \/ Stores(p) \/ Removes(p) \/ Parks(p)
    \/ Kills(p) \/ Unstores(p) \/ Unregisters(p)

\* What every step of p leaves alone.
Frame(p) ==
    /\ backend' = backend
    /\ lost \subseteq lost'
    /\ \A q \in Callers : q # p =>
          /\ pc'[q] = pc[q] /\ uuid'[q] = uuid[q] /\ row'[q] = row[q]
          /\ handle'[q] = handle[q] /\ taken'[q] = taken[q]

\* The versions after a step, unless it is the one that deletes the app.
NoneForgotten ==
    /\ AppTypes' /\ UNCHANGED attempts /\ (deleted' <=> deleted)
    /\ \A u \in Turns : status'[u] = "none" => status[u] = "none"

\* A job is queued with an attempt left.
Queues(p) == pc'[p] # "idle" /\ (pc'[p] = "queued" => attempts[p] < MaxAttempts)

\* The rest after a step.
Kept ==
    /\ backend' = backend /\ StoreTypes' /\ BoundTypes' /\ lost \subseteq lost'

\* The statuses, as the type invariant has them.
LEMMA StatusesAre == Stages \cup {"none", "ready", "error"} = Statuses
  BY TypesAre DEF Statuses

\* The types after a step of one caller, and what it leaves alone.
LEMMA FrameHolds ==
    ASSUME TypeOK, NEW p \in Callers, Steps(p), NoneForgotten, Kept,
           pc[p] # "idle" \/ p \notin Turns, Queues(p), JobsAreCounted
    PROVE  TypeOK' /\ Frame(p) /\ JobsAreCounted'
<1>1. AppTypes' /\ StoreTypes' /\ CallerTypes' /\ BoundTypes' /\ (backend \in Backends)'
  BY DEF TypeOK, Steps, NoneForgotten, Kept
<1>2. TypeOK'
  BY <1>1, StatusesAre DEF TypeOK, AppTypes, StoreTypes, CallerTypes, BoundTypes
<1>4. Frame(p)
  BY DEF Frame, Steps, NoneForgotten, Kept
<1>5. JobsAreCounted'
  BY CallersAre DEF JobsAreCounted, Steps, NoneForgotten, Queues
<1>. QED
  BY <1>2, <1>4, <1>5

\* What the actions rest on.
Basis == TypeOK /\ PlacesAreKnown /\ JobsAreCounted /\ SnapshotsAreOwn

\* What every step starts from.
LEMMA BasisGives ==
    ASSUME Basis
    PROVE  /\ AppTypes /\ StoreTypes /\ CallerTypes /\ BoundTypes /\ deaths \in Nat
           /\ \A p \in Callers :
                 /\ pc[p] \in HasBox => handle[p] \in Boxes
                 /\ pc[p] \in HasRow => uuid[p] \in Boxes
<1>1. AppTypes /\ StoreTypes /\ CallerTypes /\ BoundTypes
  BY TypesAre DEF Basis
<1>2. deaths \in Nat
  BY <1>1, SandboxAssumption DEF BoundTypes, SandboxAssumption
<1>3. ASSUME NEW p \in Callers
      PROVE  /\ pc[p] \in HasBox => handle[p] \in Boxes
             /\ pc[p] \in HasRow => uuid[p] \in Boxes
  BY <1>1 DEF Basis, PlacesAreKnown, CallerTypes
<1>. QED
  BY <1>1, <1>2, <1>3

\* What is lost when a caller gives up is what it leaves as it is.
LEMMA LossesAre ==
    ASSUME Basis, NEW p \in Callers
    PROVE  /\ Loses(p) \subseteq Boxes
           /\ pc[p] = "insert" => handle[p] \in Loses(p)
           /\ pc[p] \in Between => uuid[p] \in Loses(p)
<1>1. /\ pc[p] = "insert" => handle[p] \in Boxes
      /\ pc[p] \in Between => uuid[p] \in Boxes
  BY BasisGives DEF Between, HasRow, HasBox
<1>. QED
  BY <1>1 DEF Loses, Between

\* A caller whose call failed leaves with nothing, and what it leaves as it is
\* is lost.
LEMMA GivesUp ==
    ASSUME Basis, NEW p \in Callers, pc[p] # "idle", Refuse,
           \/ lost' = lost \cup Loses(p)
           \/ lost' = lost /\ pc[p] \notin Between \cup {"insert"},
           UNCHANGED <<backend, attempts, published, sandboxId, deletion,
                       deleted, registry, state, work, stored, saves, deaths>>,
           status' \in [Turns -> Statuses],
           \A u \in Turns : status'[u] = "none" => status[u] = "none",
           Steps(p), HoldsNothing(p), pc'[p] \in Outside, Queues(p)
    PROVE  TypeOK' /\ Frame(p) /\ JobsAreCounted' /\ Effect(p)
<1>1. /\ AppTypes /\ StoreTypes /\ BoundTypes /\ TypeOK /\ JobsAreCounted
      /\ Loses(p) \subseteq Boxes
  BY BasisGives, LossesAre DEF Basis
<1>2. NoneForgotten
  BY <1>1 DEF NoneForgotten, AppTypes
<1>3. Kept
  BY <1>1, TroublesAreBounded DEF Kept, Refuse, StoreTypes, BoundTypes
<1>4. Forgets(p)
  BY LossesAre DEF Forgets, SameWorld
<1>. QED
  BY <1>1, <1>2, <1>3, <1>4, FrameHolds DEF Effect

(***************************************************************************)
(* Every action keeps the types, and has one of the effects.               *)
(***************************************************************************)

\* The steps of a version, a job and its stages, before they need a sandbox.
LEMMA BeginStep ==
    ASSUME Basis, NEW t \in Turns,
           \/ Iterate(t) \/ StartPipeline(t) \/ EnterSandboxStage(t)
           \/ Reconnect(t) \/ FindRow(t) \/ Die(t) \/ Sweep(t)
    PROVE  TypeOK' /\ Frame(t) /\ JobsAreCounted' /\ Effect(t)
<1>0. /\ AppTypes /\ StoreTypes /\ CallerTypes /\ BoundTypes /\ deaths \in Nat
      /\ TypeOK /\ JobsAreCounted /\ t \in Callers
      /\ pc[t] \in HasBox => handle[t] \in Boxes
      /\ pc[t] \in HasRow => uuid[t] \in Boxes
  BY BasisGives, CallersAre DEF Basis
<1>1. CASE Iterate(t)
  <2>1. Steps(t) /\ pc'[t] = "queued" /\ Keeps(t)
    BY <1>0, <1>1, KeepsAll DEF Iterate, Places
  <2>2. /\ AppTypes' /\ ~deleted /\ status[t] = "none" /\ status'[t] # "none"
        /\ UNCHANGED attempts
        /\ \A u \in Turns : status'[u] = "none" => status[u] = "none"
    BY <1>0, <1>1 DEF Iterate, AppTypes, Statuses, removal
  <2>3. Kept /\ SameWorld /\ sandboxId' = sandboxId
    BY <1>0, <1>1
       DEF Iterate, provider, snapshots, bounds, StoreTypes, BoundTypes, Kept,
           SameWorld
  <2>4. pc[t] = "idle"
    BY <2>2 DEF Basis, JobsAreCounted
  <2>5. Idles(t)
    BY <2>1, <2>3, <2>4 DEF Idles, Outside
  <2>6. TypeOK'
    BY <1>0, <2>1, <2>2, <2>3, StatusesAre
       DEF TypeOK, AppTypes, StoreTypes, CallerTypes, BoundTypes, Steps, Kept
  <2>7. Frame(t)
    BY <1>0, <2>1, <2>2, <2>3 DEF Frame, Steps, Kept
  <2>8. JobsAreCounted'
    BY <1>0, <2>1, <2>2, <2>4, CallersAre DEF JobsAreCounted, Steps, MaxAttempts
  <2>. QED
    BY <2>5, <2>6, <2>7, <2>8 DEF Effect
<1>2. CASE StartPipeline(t)
  <2>1. pc[t] = "queued" /\ Kept /\ SameWorld /\ sandboxId' = sandboxId
    BY <1>0, <1>2
       DEF StartPipeline, provider, snapshots, bounds, StoreTypes, BoundTypes,
           Kept, SameWorld
  <2>2. /\ attempts' \in [Turns -> 0 .. MaxAttempts]
        /\ \A u \in Turns : u # t => attempts'[u] = attempts[u]
        /\ UNCHANGED <<published, sandboxId, deletion, deleted>>
    BY <1>0, <1>2, <2>1
       DEF StartPipeline, AppTypes, removal, JobsAreCounted, MaxAttempts
  <2>3. /\ Steps(t) /\ pc'[t] \in {"ended", "stage"}
        /\ Keeps(t) \/ HoldsNothing(t)
        /\ status' \in [Turns -> Statuses]
        /\ \A u \in Turns : status'[u] = "none" => status[u] = "none"
    <3>1. CASE Goto(t, "ended") /\ UNCHANGED <<status, held>>
      BY <1>0, <3>1, KeepsAll DEF Places, AppTypes
    <3>2. CASE Abort(t)
      BY <1>0, <3>2, AbortEnds
    <3>3. CASE /\ seen' = [seen EXCEPT ![t] = status[t]] /\ Goto(t, "stage")
               /\ InProgress(t) /\ UNCHANGED <<status, uuid, row, handle, taken>>
      <4>1. seen' \in [Callers -> Stages \cup {"none"}]
        BY <1>0, <3>3 DEF CallerTypes, InProgress
      <4>. QED
        BY <1>0, <3>3, <4>1, GotoMoves
           DEF Places, AppTypes, CallerTypes, Steps, Keeps
    <3>. QED
      BY <1>2, <3>1, <3>2, <3>3 DEF StartPipeline
  <2>4. Idles(t) \/ Forgets(t)
    BY <2>1, <2>3 DEF Idles, Forgets, Outside, Between
  <2>5. TypeOK'
    BY <1>0, <2>1, <2>2, <2>3, StatusesAre
       DEF TypeOK, AppTypes, StoreTypes, CallerTypes, BoundTypes, Steps, Kept
  <2>6. Frame(t)
    BY <1>0, <2>1, <2>3 DEF Frame, Steps, Kept
  <2>7. JobsAreCounted'
    BY <1>0, <2>1, <2>2, <2>3, CallersAre DEF JobsAreCounted, Steps
  <2>. QED
    BY <2>4, <2>5, <2>6, <2>7 DEF Effect
<1>3. CASE EnterSandboxStage(t)
  <2>1. pc[t] = "stage" /\ Kept /\ SameWorld /\ sandboxId' = sandboxId
    BY <1>0, <1>3
       DEF EnterSandboxStage, provider, snapshots, bounds, StoreTypes, BoundTypes,
           Kept, SameWorld
  <2>2. UNCHANGED <<attempts, published, sandboxId, deletion, deleted>>
    BY <1>3 DEF EnterSandboxStage, removal
  <2>3. /\ Steps(t) /\ Queues(t)
        /\ Chooses(t) \/ Forgets(t)
        /\ status' \in [Turns -> Statuses]
        /\ \A u \in Turns : status'[u] = "none" => status[u] = "none"
    <3>1. CASE UNCHANGED status /\ Leave(t, "ended")
      BY <1>0, <2>1, <3>1, LeaveForgets
         DEF Places, Outside, AppTypes, Forgets, Between, Queues
    <3>2. CASE Abort(t)
      BY <1>0, <2>1, <3>2, AbortEnds DEF Outside, Forgets, Between, Queues
    <3>3. CASE /\ InProgress(t) /\ SetStatus(t, "sandbox")
               /\ LET resumes == t > 1 /\ sandboxId # None
                  IN  /\ Goto(t, IF resumes THEN "find" ELSE "create")
                      /\ uuid' = [uuid EXCEPT ![t] = IF resumes THEN sandboxId
                                                     ELSE None]
               /\ UNCHANGED <<seen, row, handle, taken>>
      <4>1. PICK l \in {"find", "create"} :
               /\ Goto(t, l)
               /\ uuid' = [uuid EXCEPT ![t] = IF l = "find" THEN sandboxId ELSE None]
               /\ l = "find" => sandboxId # None
        BY <3>3
      <4>2. /\ pc' \in [Callers -> Places] /\ pc'[t] = l
            /\ \A q \in Callers : q # t => pc'[q] = pc[q]
        BY <1>0, <4>1, GotoMoves DEF Places
      <4>3. /\ uuid' \in [Callers -> Boxes \cup {None}]
            /\ uuid'[t] = IF l = "find" THEN sandboxId ELSE None
            /\ \A q \in Callers : q # t => uuid'[q] = uuid[q]
        BY <1>0, <4>1 DEF CallerTypes, AppTypes
      <4>4. Steps(t)
        BY <1>0, <3>3, <4>2, <4>3 DEF CallerTypes, Steps
      <4>5. Chooses(t)
        BY <2>1, <3>3, <4>1, <4>2, <4>3 DEF Chooses, Outside
      <4>. QED
        BY <1>0, <3>3, <4>2, <4>4, <4>5, StatusIsSet DEF Statuses, Queues
    <3>. QED
      BY <1>3, <3>1, <3>2, <3>3 DEF EnterSandboxStage
  <2>4. NoneForgotten
    BY <1>0, <2>2, <2>3 DEF NoneForgotten, AppTypes
  <2>. QED
    BY <1>0, <2>1, <2>3, <2>4, FrameHolds DEF Effect
<1>4. CASE Reconnect(t)
  <2>1. pc[t] = "stage" /\ Kept /\ SameWorld /\ sandboxId' = sandboxId
    BY <1>0, <1>4
       DEF Reconnect, provider, snapshots, bounds, StoreTypes, BoundTypes, Kept,
           SameWorld
  <2>2. UNCHANGED <<attempts, published, sandboxId, deletion, deleted>>
    BY <1>4 DEF Reconnect, removal
  <2>3. /\ Steps(t) /\ Queues(t)
        /\ Chooses(t) \/ Forgets(t)
        /\ status' \in [Turns -> Statuses]
        /\ \A u \in Turns : status'[u] = "none" => status[u] = "none"
    <3>1. CASE UNCHANGED status /\ Leave(t, Finish(t))
      <4>1. Finish(t) \in Places /\ Finish(t) \in Outside
        BY <1>0, Finishes DEF Places, Outside
      <4>. QED
        BY <1>0, <2>1, <3>1, <4>1, LeaveForgets, Finishes
           DEF AppTypes, Forgets, Between, Queues
    <3>2. CASE Abort(t)
      BY <1>0, <2>1, <3>2, AbortEnds DEF Outside, Forgets, Between, Queues
    <3>3. CASE /\ sandboxId # None /\ uuid' = [uuid EXCEPT ![t] = sandboxId]
               /\ Goto(t, "find") /\ UNCHANGED <<status, seen, row, handle, taken>>
      <4>2. /\ pc' \in [Callers -> Places] /\ pc'[t] = "find"
            /\ \A q \in Callers : q # t => pc'[q] = pc[q]
        BY <1>0, <3>3, GotoMoves DEF Places
      <4>3. /\ uuid' \in [Callers -> Boxes \cup {None}] /\ uuid'[t] = sandboxId
            /\ \A q \in Callers : q # t => uuid'[q] = uuid[q]
        BY <1>0, <3>3 DEF CallerTypes, AppTypes
      <4>4. Steps(t)
        BY <1>0, <3>3, <4>2, <4>3 DEF CallerTypes, Steps
      <4>5. Chooses(t)
        BY <2>1, <3>3, <4>2, <4>3 DEF Chooses
      <4>. QED
        BY <1>0, <3>3, <4>2, <4>4, <4>5 DEF AppTypes, Queues
    <3>. QED
      BY <1>4, <3>1, <3>2, <3>3 DEF Reconnect
  <2>4. NoneForgotten
    BY <1>0, <2>2, <2>3 DEF NoneForgotten, AppTypes
  <2>. QED
    BY <1>0, <2>1, <2>3, <2>4, FrameHolds DEF Effect
<1>5. CASE FindRow(t)
  <2>1. pc[t] = "find" /\ Kept /\ SameWorld /\ sandboxId' = sandboxId
    BY <1>0, <1>5
       DEF FindRow, provider, snapshots, bounds, StoreTypes, BoundTypes, Kept,
           SameWorld
  <2>2. UNCHANGED <<attempts, published, sandboxId, deletion, deleted>>
    BY <1>5 DEF FindRow, removal
  <2>3. /\ Steps(t) /\ Queues(t)
        /\ Forgets(t) \/ ReadsRow(t)
        /\ status' \in [Turns -> Statuses]
        /\ \A u \in Turns : status'[u] = "none" => status[u] = "none"
    <3>1. CASE ResumeFails(t)
      BY <1>0, <2>1, <3>1, ResumeGivesUp
         DEF Outside, Forgets, Between, Queues
    <3>2. CASE /\ registry[uuid[t]] \notin {None, Nothing}
               /\ row' = [row EXCEPT ![t] = registry[uuid[t]]]
               /\ Goto(t, "resume") /\ UNCHANGED <<status, seen, uuid, handle, taken>>
      <4>1. uuid[t] \in Boxes
        BY <1>0, <2>1 DEF HasRow
      <4>2. /\ pc' \in [Callers -> Places] /\ pc'[t] = "resume"
            /\ \A q \in Callers : q # t => pc'[q] = pc[q]
        BY <1>0, <3>2, GotoMoves DEF Places
      <4>3. /\ row' \in [Callers -> Rows] /\ row'[t] = registry[uuid[t]]
            /\ \A q \in Callers : q # t => row'[q] = row[q]
        BY <1>0, <3>2, <4>1 DEF CallerTypes, StoreTypes
      <4>4. Steps(t)
        BY <1>0, <3>2, <4>2, <4>3 DEF CallerTypes, Steps
      <4>5. ReadsRow(t)
        BY <2>1, <3>2, <4>2, <4>3 DEF ReadsRow
      <4>. QED
        BY <1>0, <3>2, <4>2, <4>4, <4>5 DEF AppTypes, Queues
    <3>. QED
      BY <1>5, <3>1, <3>2 DEF FindRow
  <2>4. NoneForgotten
    BY <1>0, <2>2, <2>3 DEF NoneForgotten, AppTypes
  <2>. QED
    BY <1>0, <2>1, <2>3, <2>4, FrameHolds DEF Effect
<1>6. CASE Die(t)
  <2>1. Steps(t) /\ pc'[t] = "dead" /\ HoldsNothing(t)
    BY <1>0, <1>6, LeaveForgets DEF Die, Places
  <2>2. /\ NoneForgotten /\ SameWorld /\ sandboxId' = sandboxId
        /\ pc[t] # "idle"
    BY <1>0, <1>6
       DEF Die, app, removal, provider, snapshots, AppTypes, NoneForgotten,
           SameWorld
  <2>3. lost' = lost \cup Loses(t) /\ Kept
    BY <1>0, <1>6, TroublesAreBounded, LossesAre
       DEF Die, provider, snapshots, StoreTypes, BoundTypes, Kept
  <2>4. Forgets(t)
    BY <1>0, <2>1, <2>2, <2>3, LossesAre DEF Forgets, Outside
  <2>. QED
    BY <1>0, <2>1, <2>2, <2>3, <2>4, FrameHolds DEF Effect, Queues
<1>7. CASE Sweep(t)
  <2>1. Steps(t) /\ pc'[t] = "queued" /\ Keeps(t)
    BY <1>0, <1>7, KeepsAll DEF Sweep, Places
  <2>2. /\ NoneForgotten /\ SameWorld /\ sandboxId' = sandboxId
        /\ pc[t] = "dead" /\ attempts[t] < MaxAttempts
    BY <1>0, <1>7
       DEF Sweep, app, removal, provider, snapshots, AppTypes, NoneForgotten,
           SameWorld
  <2>3. Kept
    BY <1>0, <1>7
       DEF Sweep, provider, snapshots, bounds, StoreTypes, BoundTypes, Kept
  <2>4. Idles(t)
    BY <2>1, <2>2 DEF Idles, Outside
  <2>. QED
    BY <1>0, <2>1, <2>2, <2>3, <2>4, FrameHolds DEF Effect, Queues
<1>. QED
  BY <1>1, <1>2, <1>3, <1>4, <1>5, <1>6, <1>7

\* The steps that find, resume or create a sandbox.
LEMMA AcquireStep ==
    ASSUME Basis, NEW t \in Turns,
           \/ Resume(t) \/ ResumeThrows(t) \/ MarkRunning(t)
           \/ MarkRunningThrows(t) \/ Create(t) \/ CreateThrows(t)
           \/ InsertRow(t) \/ InsertThrows(t)
    PROVE  TypeOK' /\ Frame(t) /\ JobsAreCounted' /\ Effect(t)
<1>0. /\ AppTypes /\ StoreTypes /\ CallerTypes /\ BoundTypes /\ deaths \in Nat
      /\ TypeOK /\ JobsAreCounted /\ t \in Callers
      /\ pc[t] \in HasBox => handle[t] \in Boxes
      /\ pc[t] \in HasRow => uuid[t] \in Boxes
  BY BasisGives, CallersAre DEF Basis
<1>1. CASE Resume(t)
  <2>1. PICK b \in Boxes :
           /\ \/ /\ Restores(row[t]) /\ stored[row[t].snapshot] # None
                 /\ NewBox(b, stored[row[t].snapshot]) /\ UNCHANGED snapshots
              \/ /\ ~Restores(row[t]) /\ Connect(b)
                 /\ b = IF row[t].snapshot # None THEN row[t].snapshot
                                                 ELSE row[t].live
           /\ handle' = [handle EXCEPT ![t] = b]
    BY <1>1 DEF Resume
  <2>2. pc[t] = "resume" /\ Goto(t, "mark") /\ NoneForgotten
    BY <1>0, <1>1 DEF Resume, app, removal, AppTypes, NoneForgotten
  <2>3. /\ pc' \in [Callers -> Places] /\ pc'[t] = "mark"
        /\ \A q \in Callers : q # t => pc'[q] = pc[q]
    BY <1>0, <2>2, GotoMoves DEF Places
  <2>4. Steps(t) /\ handle'[t] = b
    BY <1>0, <1>1, <2>1, <2>3 DEF Resume, CallerTypes, Steps
  <2>5. CASE /\ Restores(row[t]) /\ stored[row[t].snapshot] # None
             /\ NewBox(b, stored[row[t].snapshot]) /\ UNCHANGED snapshots
    <3>1. stored[row[t].snapshot] \in SUBSET Turns
      <4>1. row[t].snapshot \in 1 .. saves
        BY <1>0, <2>2, <2>5 DEF Basis, SnapshotsAreOwn, Restores, Reads
      <4>. QED
        BY <1>0, <2>5, <4>1, SandboxAssumption
           DEF StoreTypes, Snapshots, SandboxAssumption
    <3>2. /\ state' \in [Boxes -> {"none", "running", "paused", "gone"}]
          /\ work' \in [Boxes -> SUBSET Turns]
          /\ state[b] = "none" /\ state'[b] = "running"
          /\ \A c \in Boxes : c # b => state'[c] = state[c]
      BY <1>0, <2>5, <3>1, BoxRuns
    <3>3. Kept /\ UNCHANGED <<registry, stored, saves, sandboxId>>
      BY <1>0, <1>1, <2>5, <3>2
         DEF Resume, app, snapshots, bounds, StoreTypes, BoundTypes, Kept
    <3>4. Creates(t)
      BY <1>1, <2>2, <2>3, <2>4, <2>5, <3>2, <3>3
         DEF Resume, Restores, Creates, SameRows
    <3>. QED
      BY <1>0, <2>2, <2>3, <2>4, <3>3, <3>4, FrameHolds DEF Effect, Queues
  <2>6. CASE /\ ~Restores(row[t]) /\ Connect(b)
             /\ b = IF row[t].snapshot # None THEN row[t].snapshot
                                             ELSE row[t].live
    <3>2. /\ state' \in [Boxes -> {"none", "running", "paused", "gone"}]
          /\ Alive(b) /\ state'[b] = "running"
          /\ \A c \in Boxes : c # b => state'[c] = state[c]
          /\ UNCHANGED <<work, stored, saves>>
      BY <1>0, <2>6, BoxRuns
    <3>3. Kept /\ UNCHANGED <<registry, stored, saves, sandboxId>>
      BY <1>0, <1>1, <3>2
         DEF Resume, app, bounds, StoreTypes, BoundTypes, Kept
    <3>4. Connects(t)
      BY <1>1, <2>2, <2>3, <2>4, <2>6, <3>2, <3>3
         DEF Resume, Connects, SameRows
    <3>. QED
      BY <1>0, <2>2, <2>3, <2>4, <3>3, <3>4, FrameHolds DEF Effect, Queues
  <2>. QED
    BY <2>1, <2>5, <2>6
<1>2. CASE ResumeThrows(t)
  <2>1. /\ pc[t] = "resume" /\ ResumeFails(t)
        /\ UNCHANGED <<backend, attempts, published, sandboxId, deletion,
                       deleted, registry, deaths, lost>>
    BY <1>2 DEF ResumeThrows, removal
  <2>2. /\ status' \in [Turns -> Statuses]
        /\ \A u \in Turns : status'[u] = "none" => status[u] = "none"
        /\ Steps(t) /\ pc'[t] \in {"create", "ended"} /\ HoldsNothing(t)
    BY <1>0, <2>1, ResumeGivesUp
  <2>3. BoundTypes' /\ NoneForgotten
    BY <1>0, <1>2, <2>1, <2>2, TroublesAreBounded
       DEF ResumeThrows, Refuse, BoundTypes, AppTypes, NoneForgotten
  <2>4. CASE UNCHANGED provider
    <3>1. Kept /\ SameWorld
      BY <1>0, <2>1, <2>3, <2>4
         DEF provider, snapshots, StoreTypes, BoundTypes, Kept, SameWorld
    <3>2. Forgets(t)
      BY <2>1, <2>2, <3>1 DEF Forgets, Outside, Between
    <3>. QED
      BY <1>0, <2>1, <2>2, <2>3, <3>1, <3>2, FrameHolds DEF Effect, Queues
  <2>5. CASE /\ Restores(row[t]) /\ UNCHANGED snapshots
             /\ \E b \in Boxes : NewBox(b, {})
    <3>1. PICK b \in Boxes : NewBox(b, {})
      BY <2>5
    <3>2. /\ state' \in [Boxes -> {"none", "running", "paused", "gone"}]
          /\ work' \in [Boxes -> SUBSET Turns]
          /\ state[b] = "none" /\ state'[b] = "running"
          /\ \A c \in Boxes : c # b => state'[c] = state[c]
      BY <1>0, <3>1, BoxRuns
    <3>3. Kept /\ SameRows
      BY <1>0, <2>1, <2>3, <2>5, <3>2
         DEF snapshots, StoreTypes, BoundTypes, Kept, SameRows
    <3>4. Creates(t)
      BY <2>1, <2>2, <2>5, <3>2, <3>3 DEF Restores, Creates, Outside
    <3>. QED
      BY <1>0, <2>1, <2>2, <2>3, <3>3, <3>4, FrameHolds DEF Effect, Queues
  <2>. QED
    BY <1>2, <2>4, <2>5 DEF ResumeThrows
<1>3. CASE MarkRunning(t)
  <2>1. Steps(t) /\ pc'[t] = "enter" /\ Keeps(t)
    BY <1>0, <1>3, KeepsAll DEF MarkRunning, Places
  <2>2. /\ pc[t] = "mark" /\ NoneForgotten /\ SameBoxes
        /\ work' = work /\ backend' = backend /\ UNCHANGED bounds
    BY <1>0, <1>3
       DEF MarkRunning, app, removal, provider, snapshots, AppTypes,
           NoneForgotten, SameBoxes
  <2>3. uuid[t] \in Boxes /\ handle[t] \in Boxes
    BY <1>0, <2>2 DEF HasRow, HasBox
  <2>4. /\ registry' \in [Boxes -> Rows \cup {None}]
        /\ \A b \in Boxes :
              IF b = uuid[t] /\ registry[b] # None
              THEN /\ registry'[b] # None
                   /\ registry'[b].live = handle[t]
                   /\ registry'[b].snapshot = registry[b].snapshot
              ELSE registry'[b] = registry[b]
    <3>1. CASE registry[uuid[t]] = None
      BY <1>0, <1>3, <3>1 DEF MarkRunning, StoreTypes
    <3>2. CASE registry[uuid[t]] # None
      <4>1. registry' = [registry EXCEPT ![uuid[t]] =
                            [registry[uuid[t]] EXCEPT !.live = handle[t]]]
        BY <1>3, <3>2 DEF MarkRunning
      <4>2. registry[uuid[t]] \in Rows
        BY <1>0, <2>3, <3>2 DEF StoreTypes
      <4>3. /\ [registry[uuid[t]] EXCEPT !.live = handle[t]] \in Rows
            /\ [registry[uuid[t]] EXCEPT !.live = handle[t]].live = handle[t]
            /\ [registry[uuid[t]] EXCEPT !.live = handle[t]].snapshot
                 = registry[uuid[t]].snapshot
        BY <2>3, <4>2 DEF Rows
      <4>. QED
        BY <1>0, <2>3, <3>2, <4>1, <4>3, NoneIsNoRow DEF StoreTypes
    <3>. QED
      BY <3>1, <3>2
  <2>5. Kept /\ Marks(t)
    BY <1>0, <2>1, <2>2, <2>4
       DEF bounds, StoreTypes, BoundTypes, Kept, Marks, SameBoxes
  <2>. QED
    BY <1>0, <2>1, <2>2, <2>5, FrameHolds DEF Effect, Queues
<1>4. CASE Create(t)
  <2>1. PICK b \in Boxes : NewBox(b, {}) /\ handle' = [handle EXCEPT ![t] = b]
    BY <1>4 DEF Create
  <2>2. pc[t] = "create" /\ Goto(t, "insert") /\ NoneForgotten
    BY <1>0, <1>4 DEF Create, app, removal, AppTypes, NoneForgotten
  <2>3. /\ pc' \in [Callers -> Places] /\ pc'[t] = "insert"
        /\ \A q \in Callers : q # t => pc'[q] = pc[q]
    BY <1>0, <2>2, GotoMoves DEF Places
  <2>4. Steps(t) /\ handle'[t] = b
    BY <1>0, <1>4, <2>1, <2>3 DEF Create, CallerTypes, Steps
  <2>5. /\ state' \in [Boxes -> {"none", "running", "paused", "gone"}]
        /\ work' \in [Boxes -> SUBSET Turns]
        /\ state[b] = "none" /\ state'[b] = "running"
        /\ \A c \in Boxes : c # b => state'[c] = state[c]
    BY <1>0, <2>1, BoxRuns
  <2>6. Kept /\ SameRows
    BY <1>0, <1>4, <2>5
       DEF Create, app, snapshots, bounds, StoreTypes, BoundTypes, Kept, SameRows
  <2>7. Creates(t)
    BY <1>4, <2>2, <2>3, <2>4, <2>5, <2>6 DEF Create, Creates
  <2>. QED
    BY <1>0, <2>2, <2>3, <2>4, <2>6, <2>7, FrameHolds DEF Effect, Queues
<1>5. CASE CreateThrows(t)
  <2>1. /\ status' \in [Turns -> Statuses]
        /\ \A u \in Turns : status'[u] = "none" => status[u] = "none"
        /\ Steps(t) /\ pc'[t] = "ended" /\ HoldsNothing(t)
    BY <1>0, <1>5, AbortEnds DEF CreateThrows
  <2>2. pc[t] = "create" /\ NoneForgotten /\ SameWorld /\ sandboxId' = sandboxId
    BY <1>0, <1>5, <2>1
       DEF CreateThrows, removal, provider, snapshots, AppTypes, NoneForgotten,
           SameWorld
  <2>3. Kept
    BY <1>0, <1>5, TroublesAreBounded
       DEF CreateThrows, Refuse, provider, snapshots, StoreTypes, BoundTypes, Kept
  <2>4. Forgets(t)
    BY <2>1, <2>2 DEF Forgets, Outside, Between
  <2>. QED
    BY <1>0, <2>1, <2>2, <2>3, <2>4, FrameHolds DEF Effect, Queues
<1>6. CASE InsertRow(t)
  <2>1. /\ pc[t] = "insert" /\ NoneForgotten /\ SameBoxes
        /\ work' = work /\ backend' = backend /\ UNCHANGED bounds
    BY <1>0, <1>6
       DEF InsertRow, app, removal, provider, snapshots, AppTypes,
           NoneForgotten, SameBoxes
  <2>2. handle[t] \in Boxes
    BY <1>0, <2>1 DEF HasBox
  <2>3. /\ pc' \in [Callers -> Places] /\ pc'[t] = "adopt"
        /\ \A q \in Callers : q # t => pc'[q] = pc[q]
    BY <1>0, <1>6, GotoMoves DEF InsertRow, Places
  <2>4. Steps(t) /\ uuid'[t] = handle[t]
    BY <1>0, <1>6, <2>2, <2>3 DEF InsertRow, CallerTypes, Steps
  <2>5. /\ registry' \in [Boxes -> Rows \cup {None}]
        /\ \A b \in Boxes :
              IF b = handle[t]
              THEN /\ registry'[b] # None /\ registry'[b].live = b
                   /\ registry'[b].snapshot = None
              ELSE registry'[b] = registry[b]
    <3>1. [live |-> handle[t], snapshot |-> None] \in Rows
      BY <2>2 DEF Rows
    <3>. QED
      BY <1>0, <1>6, <2>2, <3>1, NoneIsNoRow DEF InsertRow, StoreTypes
  <2>6. Kept
    BY <1>0, <2>1, <2>5 DEF bounds, StoreTypes, BoundTypes, Kept, SameBoxes
  <2>7. Inserts(t)
    BY <1>6, <2>1, <2>3, <2>4, <2>5 DEF InsertRow, Inserts
  <2>. QED
    BY <1>0, <2>1, <2>3, <2>4, <2>6, <2>7, FrameHolds DEF Effect, Queues
<1>7. CASE InsertThrows(t)
  <2>1. /\ status' \in [Turns -> Statuses]
        /\ \A u \in Turns : status'[u] = "none" => status[u] = "none"
        /\ Steps(t) /\ pc'[t] = "ended" /\ HoldsNothing(t)
    BY <1>0, <1>7, AbortEnds DEF InsertThrows
  <2>2. pc[t] = "insert" /\ NoneForgotten /\ SameRows
    BY <1>0, <1>7, <2>1
       DEF InsertThrows, removal, snapshots, AppTypes, NoneForgotten, SameRows
  <2>3. handle[t] \in Boxes
    BY <1>0, <2>2 DEF HasBox
  <2>4. /\ state' \in [Boxes -> {"none", "running", "paused", "gone"}]
        /\ \A b \in Boxes :
              state'[b] = state[b] \/ (b = handle[t] /\ state'[b] = "gone")
        /\ state'[handle[t]] = "gone" \/ handle[t] \in lost'
        /\ lost \subseteq lost' /\ lost' \subseteq Boxes
    <3>1. CASE state' = [state EXCEPT ![handle[t]] = "gone"] /\ UNCHANGED lost
      BY <1>0, <2>3, <3>1 DEF StoreTypes, BoundTypes
    <3>2. CASE lost' = lost \cup Loses(t) /\ UNCHANGED state
      BY <1>0, <2>2, <3>2, LossesAre DEF StoreTypes, BoundTypes
    <3>. QED
      BY <1>7, <3>1, <3>2 DEF InsertThrows, DestroyOrphan
  <2>5. Kept
    BY <1>0, <1>7, <2>2, <2>4, TroublesAreBounded
       DEF InsertThrows, Refuse, snapshots, StoreTypes, BoundTypes, Kept
  <2>6. Undoes(t)
    BY <2>1, <2>2, <2>4 DEF Undoes, Outside
  <2>. QED
    BY <1>0, <2>1, <2>2, <2>5, <2>6, FrameHolds DEF Effect, Queues
<1>8. CASE MarkRunningThrows(t)
  <2>1. /\ pc[t] = "mark" /\ Refuse /\ ResumeFails(t)
        /\ UNCHANGED <<backend, attempts, published, sandboxId, deletion,
                       deleted, registry, state, work, stored, saves, deaths, lost>>
    BY <1>8 DEF MarkRunningThrows, removal, provider, snapshots
  <2>2. /\ status' \in [Turns -> Statuses]
        /\ \A u \in Turns : status'[u] = "none" => status[u] = "none"
        /\ Steps(t) /\ pc'[t] \in {"create", "ended"} /\ HoldsNothing(t)
    BY <1>0, <2>1, ResumeGivesUp
  <2>. QED
    BY <1>0, <2>1, <2>2, GivesUp DEF Outside, Queues, Between
<1>. QED
  BY <1>1, <1>2, <1>3, <1>4, <1>5, <1>6, <1>7, <1>8

\* The steps of a build, from the agent's work to its publication.
LEMMA BuildStep ==
    ASSUME Basis, NEW t \in Turns,
           \/ Adopt(t) \/ AdoptThrows(t) \/ RestoreSource(t)
           \/ RestoreThrows(t) \/ EnterGenerating(t) \/ Write(t) \/ EnterPackaging(t)
           \/ Package(t) \/ Publish(t)
    PROVE  TypeOK' /\ Frame(t) /\ JobsAreCounted' /\ Effect(t)
<1>0. /\ AppTypes /\ StoreTypes /\ CallerTypes /\ BoundTypes /\ deaths \in Nat
      /\ TypeOK /\ JobsAreCounted /\ t \in Callers
      /\ pc[t] \in HasBox => handle[t] \in Boxes
      /\ pc[t] \in HasRow => uuid[t] \in Boxes
  BY BasisGives, CallersAre DEF Basis
<1>. DEFINE Goes == \E l \in Working : Goto(t, l) /\ UNCHANGED held
            Sound == /\ status' \in [Turns -> Statuses]
                     /\ \A u \in Turns : status'[u] = "none" => status[u] = "none"
<1>1. ASSUME Goes
      PROVE  Steps(t) /\ pc'[t] \in Working /\ Keeps(t) /\ Queues(t)
  <2>1. PICK l \in Working : Goto(t, l) /\ UNCHANGED held
    BY <1>1
  <2>2. l \in Places /\ l \notin {"idle", "queued"}
    BY DEF Working, Places
  <2>. QED
    BY <1>0, <2>1, <2>2, KeepsAll DEF Queues
<1>2. ASSUME NEW s \in Statuses \ {"none"}, SetStatus(t, s)
      PROVE  Sound
  BY <1>0, <1>2, StatusIsSet
<1>3. ASSUME UNCHANGED status PROVE Sound
  BY <1>0, <1>3 DEF AppTypes
<1>4. ASSUME Fail(t), UNCHANGED held PROVE Sound /\ Goes
  BY <1>2, <1>4 DEF Fail, Statuses, Working
<1>. HIDE DEF Goes, Sound
<1>5. ASSUME Goes, Sound, SameWorld, pc[t] \in Working,
             published' \in [Turns -> SUBSET Turns],
             sandboxId' \in {sandboxId, uuid[t]},
             UNCHANGED <<backend, attempts, deletion, deleted, deaths, lost>>,
             refusals' = refusals \/ Refuse,
             work' \in [Boxes -> SUBSET Turns]
      PROVE  TypeOK' /\ Frame(t) /\ JobsAreCounted' /\ Effect(t)
  <2>1. Steps(t) /\ pc'[t] \in Working /\ Keeps(t) /\ Queues(t)
    BY <1>1, <1>5
  <2>2. sandboxId' \in Boxes \cup {None}
    BY <1>0, <1>5 DEF AppTypes, CallerTypes
  <2>3. NoneForgotten
    BY <1>0, <1>5, <2>2 DEF NoneForgotten, AppTypes, Sound
  <2>4. Kept
    BY <1>0, <1>5, TroublesAreBounded
       DEF Kept, Refuse, StoreTypes, BoundTypes, SameWorld
  <2>5. Works(t)
    BY <1>5, <2>1 DEF Works
  <2>6. pc[t] # "idle"
    BY <1>5 DEF Working
  <2>. QED
    BY <1>0, <2>1, <2>3, <2>4, <2>5, <2>6, FrameHolds DEF Effect
<1>6. CASE Adopt(t)
  <2>1. Goes
    BY <1>6 DEF Adopt, Goes, Working
  <2>2. Sound
    BY <1>3, <1>6 DEF Adopt
  <2>. QED
    BY <1>0, <1>5, <1>6, <2>1, <2>2
       DEF Adopt, removal, provider, snapshots, bounds, SameWorld, Working,
           AppTypes, StoreTypes
<1>7. CASE RestoreSource(t)
  <2>1. Goes
    BY <1>7 DEF RestoreSource, Goes, Working
  <2>2. Sound
    BY <1>3, <1>7 DEF RestoreSource, app
  <2>3. work' \in [Boxes -> SUBSET Turns]
    BY <1>0, <1>7 DEF RestoreSource, StoreTypes, AppTypes, ReadyTurns
  <2>. QED
    BY <1>0, <1>5, <1>7, <2>1, <2>2, <2>3
       DEF RestoreSource, app, removal, snapshots, bounds, SameWorld, Working,
           AppTypes
<1>8. CASE RestoreThrows(t)
  <2>1. /\ status' \in [Turns -> Statuses]
        /\ \A u \in Turns : status'[u] = "none" => status[u] = "none"
        /\ Steps(t) /\ pc'[t] = "ended" /\ HoldsNothing(t)
    BY <1>0, <1>8, AbortEnds DEF RestoreThrows
  <2>2. pc[t] = "restore" /\ NoneForgotten /\ SameWorld /\ sandboxId' = sandboxId
    BY <1>0, <1>8, <2>1
       DEF RestoreThrows, removal, provider, snapshots, AppTypes, NoneForgotten,
           SameWorld
  <2>3. Kept
    BY <1>0, <1>8, TroublesAreBounded
       DEF RestoreThrows, provider, snapshots, StoreTypes, BoundTypes, Kept
  <2>4. Forgets(t)
    BY <2>1, <2>2 DEF Forgets, Outside, Between
  <2>. QED
    BY <1>0, <2>1, <2>2, <2>3, <2>4, FrameHolds DEF Effect, Queues
<1>9. CASE EnterGenerating(t)
  <2>1. Goes
    BY <1>9 DEF EnterGenerating, Goes, Working
  <2>2. Sound
    BY <1>2, <1>3, <1>9 DEF EnterGenerating, Statuses
  <2>. QED
    BY <1>0, <1>5, <1>9, <2>1, <2>2
       DEF EnterGenerating, removal, provider, snapshots, bounds, SameWorld,
           Working, AppTypes, StoreTypes
<1>10. CASE Write(t)
  <2>1. Goes /\ Sound
    BY <1>3, <1>4, <1>10 DEF Write, Goes, Working
  <2>2. work' \in [Boxes -> SUBSET Turns]
    BY <1>0, <1>10 DEF Write, StoreTypes
  <2>. QED
    BY <1>0, <1>5, <1>10, <2>1, <2>2
       DEF Write, removal, snapshots, bounds, SameWorld, Working, AppTypes
<1>11. CASE EnterPackaging(t)
  <2>1. Goes
    BY <1>11 DEF EnterPackaging, Goes, Working
  <2>2. Sound
    BY <1>2, <1>11 DEF EnterPackaging, Statuses
  <2>. QED
    BY <1>0, <1>5, <1>11, <2>1, <2>2
       DEF EnterPackaging, removal, provider, snapshots, bounds, SameWorld,
           Working, AppTypes, StoreTypes
<1>12. CASE Package(t)
  <2>1. Goes /\ Sound
    BY <1>3, <1>4, <1>12 DEF Package, Goes, Working
  <2>2. pc[t] \in Working /\ handle[t] \in Boxes
    BY <1>0, <1>12 DEF Package, Working, HasBox
  <2>3. published' \in [Turns -> SUBSET Turns]
    BY <1>0, <1>12, <2>2 DEF Package, StoreTypes, AppTypes
  <2>. QED
    BY <1>0, <1>5, <1>12, <2>1, <2>2, <2>3
       DEF Package, removal, provider, snapshots, bounds, SameWorld, StoreTypes
<1>13. CASE Publish(t)
  <2>1. Goes
    BY <1>13 DEF Publish, Goes, Working
  <2>2. Sound
    BY <1>2, <1>13 DEF Publish, Statuses
  <2>. QED
    BY <1>0, <1>5, <1>13, <2>1, <2>2
       DEF Publish, removal, provider, snapshots, bounds, SameWorld, Working,
           AppTypes, StoreTypes
<1>14. CASE AdoptThrows(t)
  <2>1. /\ status' \in [Turns -> Statuses]
        /\ \A u \in Turns : status'[u] = "none" => status[u] = "none"
        /\ Steps(t) /\ pc'[t] = "ended" /\ HoldsNothing(t)
    BY <1>0, <1>14, AbortEnds DEF AdoptThrows
  <2>2. /\ pc[t] = "adopt" /\ Refuse
        /\ UNCHANGED <<backend, attempts, published, sandboxId, deletion,
                       deleted, registry, state, work, stored, saves, deaths, lost>>
    BY <1>14 DEF AdoptThrows, removal, provider, snapshots
  <2>. QED
    BY <1>0, <2>1, <2>2, GivesUp DEF Outside, Queues, Between
<1>. QED
  BY <1>6, <1>7, <1>8, <1>9, <1>10, <1>11, <1>12, <1>13, <1>14

\* The steps of a suspension, whoever suspends.
LEMMA SuspendStep ==
    ASSUME Basis, NEW p \in Callers,
           \/ Persist(p) \/ PersistThrows(p) \/ Remove(p)
           \/ MarkSuspended(p) \/ MarkSuspendedThrows(p)
    PROVE  TypeOK' /\ Frame(p) /\ JobsAreCounted' /\ Effect(p)
<1>0. /\ AppTypes /\ StoreTypes /\ CallerTypes /\ BoundTypes /\ deaths \in Nat
      /\ TypeOK /\ JobsAreCounted
      /\ pc[p] \in HasBox => handle[p] \in Boxes
      /\ pc[p] \in HasRow => uuid[p] \in Boxes
  BY BasisGives DEF Basis
<1>1. Finish(p) \in Places /\ Finish(p) \in Outside
      /\ (Finish(p) = "queued" => attempts[p] < MaxAttempts)
  BY Finishes DEF Places, Outside
<1>2. CASE Persist(p)
  <2>1. pc[p] = "persist" /\ NoneForgotten /\ UNCHANGED <<registry, sandboxId>>
    BY <1>0, <1>2 DEF Persist, app, removal, AppTypes, NoneForgotten
  <2>2. handle[p] \in Boxes
    BY <1>0, <2>1 DEF HasBox
  <2>3. CASE /\ backend = "pause" /\ Alive(handle[p])
             /\ state' = [state EXCEPT ![handle[p]] = "paused"]
             /\ taken' = [taken EXCEPT ![p] = handle[p]]
             /\ Goto(p, "park") /\ UNCHANGED snapshots
    <3>1. /\ pc' \in [Callers -> Places] /\ pc'[p] = "park"
          /\ \A q \in Callers : q # p => pc'[q] = pc[q]
      BY <1>0, <2>3, GotoMoves DEF Places
    <3>2. /\ taken' \in [Callers -> Nat \cup {None}] /\ taken'[p] = handle[p]
          /\ \A q \in Callers : q # p => taken'[q] = taken[q]
      <4>1. handle[p] \in Nat \cup {None}
        BY <2>2 DEF Boxes
      <4>. QED
        BY <1>0, <2>3, <4>1 DEF CallerTypes
    <3>3. Steps(p)
      BY <1>0, <1>2, <3>1, <3>2 DEF Persist, CallerTypes, Steps
    <3>4. /\ state' \in [Boxes -> {"none", "running", "paused", "gone"}]
          /\ \A b \in Boxes : state'[b] = IF b = handle[p] THEN "paused" ELSE state[b]
      BY <1>0, <2>2, <2>3 DEF StoreTypes
    <3>5. Kept /\ SameRows
      BY <1>0, <1>2, <2>1, <2>3, <3>4
         DEF Persist, snapshots, bounds, StoreTypes, BoundTypes, Kept, SameRows
    <3>6. Pauses(p)
      BY <1>2, <2>1, <2>3, <3>1, <3>2, <3>4, <3>5 DEF Persist, Pauses
    <3>. QED
      BY <1>0, <2>1, <3>1, <3>3, <3>5, <3>6, FrameHolds DEF Effect, Queues
  <2>4. CASE /\ backend = "store" /\ saves < MaxSnapshots /\ saves' = saves + 1
             /\ stored' = [stored EXCEPT ![saves'] = work[handle[p]]]
             /\ taken' = [taken EXCEPT ![p] = saves']
             /\ Goto(p, "remove") /\ UNCHANGED state
    <3>1. /\ pc' \in [Callers -> Places] /\ pc'[p] = "remove"
          /\ \A q \in Callers : q # p => pc'[q] = pc[q]
      BY <1>0, <2>4, GotoMoves DEF Places
    <3>2. saves' \in 0 .. MaxSnapshots /\ saves' \in Snapshots /\ saves' \in Nat
      BY <1>0, <2>4, SandboxAssumption
         DEF StoreTypes, Snapshots, SandboxAssumption
    <3>3. Steps(p) /\ taken'[p] = saves'
      BY <1>0, <1>2, <2>4, <3>1, <3>2 DEF Persist, CallerTypes, Steps
    <3>4. work[handle[p]] \in SUBSET Turns /\ work[handle[p]] # None
      BY <1>0, <2>2, SandboxAssumption DEF StoreTypes, Turns, SandboxAssumption
    <3>5. /\ stored' \in [Snapshots -> (SUBSET Turns) \cup {None}]
          /\ stored'[saves'] # None
          /\ \A s \in Snapshots : s # saves' => stored'[s] = stored[s]
      BY <1>0, <2>4, <3>2, <3>4 DEF StoreTypes
    <3>6. Kept
      BY <1>0, <1>2, <2>4, <3>2, <3>5
         DEF Persist, bounds, StoreTypes, BoundTypes, Kept
    <3>7. Stores(p)
      BY <1>2, <2>1, <2>4, <3>1, <3>3, <3>5 DEF Persist, Stores
    <3>. QED
      BY <1>0, <2>1, <3>1, <3>3, <3>6, <3>7, FrameHolds DEF Effect, Queues
  <2>. QED
    BY <1>2, <2>3, <2>4 DEF Persist
<1>3. CASE PersistThrows(p)
  <2>1. Steps(p) /\ pc'[p] = Finish(p) /\ HoldsNothing(p)
    BY <1>0, <1>1, <1>3, LeaveForgets DEF PersistThrows
  <2>2. pc[p] = "persist" /\ NoneForgotten /\ SameWorld /\ sandboxId' = sandboxId
    BY <1>0, <1>3
       DEF PersistThrows, removal, provider, snapshots, AppTypes, NoneForgotten,
           SameWorld
  <2>3. Kept
    BY <1>0, <1>3, TroublesAreBounded
       DEF PersistThrows, Refuse, provider, snapshots, StoreTypes, BoundTypes, Kept
  <2>4. Forgets(p)
    BY <1>1, <2>1, <2>2 DEF Forgets, Between
  <2>5. Queues(p)
    BY <1>1, <2>1 DEF Queues, Outside
  <2>. QED
    BY <1>0, <2>1, <2>2, <2>3, <2>4, <2>5, FrameHolds DEF Effect
<1>4. CASE Remove(p)
  <2>1. Steps(p) /\ pc'[p] = "park" /\ Keeps(p)
    BY <1>0, <1>4, KeepsAll DEF Remove, Places
  <2>2. pc[p] = "remove" /\ NoneForgotten /\ SameRows
    BY <1>0, <1>4
       DEF Remove, app, removal, snapshots, AppTypes, NoneForgotten, SameRows
  <2>3. handle[p] \in Boxes
    BY <1>0, <2>2 DEF HasBox
  <2>4. /\ state' \in [Boxes -> {"none", "running", "paused", "gone"}]
        /\ refusals' \in 0 .. MaxTroubles
        /\ \A c \in Boxes : c # handle[p] => state'[c] = state[c]
        /\ \/ state'[handle[p]] = "gone" /\ refusals' = refusals
           \/ state' = state /\ refusals' # refusals
    BY <1>0, <1>4, <2>3, BoxIsDestroyed DEF Remove
  <2>5. Kept
    BY <1>0, <1>4, <2>4 DEF Remove, snapshots, StoreTypes, BoundTypes, Kept
  <2>6. Removes(p)
    BY <2>1, <2>2, <2>4 DEF Removes
  <2>. QED
    BY <1>0, <2>1, <2>2, <2>5, <2>6, FrameHolds DEF Effect, Queues
<1>5. CASE MarkSuspended(p)
  <2>1. Steps(p) /\ pc'[p] = Finish(p) /\ HoldsNothing(p)
    BY <1>0, <1>1, <1>5, LeaveForgets DEF MarkSuspended
  <2>2. /\ pc[p] = "park" /\ NoneForgotten /\ SameBoxes
        /\ work' = work /\ backend' = backend /\ UNCHANGED bounds
    BY <1>0, <1>5
       DEF MarkSuspended, removal, provider, snapshots, AppTypes, NoneForgotten,
           SameBoxes
  <2>3. uuid[p] \in Boxes /\ handle[p] \in Boxes
    BY <1>0, <2>2 DEF HasRow, HasBox
  <2>4. /\ registry' \in [Boxes -> Rows \cup {None}]
        /\ \A b \in Boxes :
              IF b = uuid[p] /\ registry[b] # None
              THEN /\ registry'[b] # None
                   /\ registry'[b].live = IF backend = "pause" THEN handle[p] ELSE None
                   /\ registry'[b].snapshot = taken[p]
              ELSE registry'[b] = registry[b]
    <3>1. CASE registry[uuid[p]] = None
      BY <1>0, <1>5, <3>1 DEF MarkSuspended, StoreTypes
    <3>2. CASE registry[uuid[p]] # None
      <4>. DEFINE r == [live |-> IF backend = "pause" THEN handle[p] ELSE None,
                        snapshot |-> taken[p]]
      <4>1. registry' = [registry EXCEPT ![uuid[p]] = r]
        BY <1>5, <3>2 DEF MarkSuspended
      <4>2. /\ r \in Rows /\ r.snapshot = taken[p]
            /\ r.live = IF backend = "pause" THEN handle[p] ELSE None
        BY <1>0, <2>3 DEF CallerTypes, Rows
      <4>. HIDE DEF r
      <4>. QED
        BY <1>0, <2>3, <3>2, <4>1, <4>2, NoneIsNoRow DEF StoreTypes
    <3>. QED
      BY <3>1, <3>2
  <2>5. Kept
    BY <1>0, <2>2, <2>4 DEF bounds, StoreTypes, BoundTypes, Kept, SameBoxes
  <2>6. Parks(p)
    BY <1>1, <2>1, <2>2, <2>4 DEF Parks
  <2>7. Queues(p)
    BY <1>1, <2>1 DEF Queues, Outside
  <2>. QED
    BY <1>0, <2>1, <2>2, <2>5, <2>6, <2>7, FrameHolds DEF Effect
<1>6. CASE MarkSuspendedThrows(p)
  <2>1. Steps(p) /\ pc'[p] = Finish(p) /\ HoldsNothing(p)
    BY <1>0, <1>1, <1>6, LeaveForgets DEF MarkSuspendedThrows
  <2>2. /\ pc[p] = "park" /\ Refuse /\ lost' = lost \cup Loses(p)
        /\ UNCHANGED <<backend, status, attempts, published, sandboxId, deletion,
                       deleted, registry, state, work, stored, saves, deaths>>
    BY <1>6 DEF MarkSuspendedThrows, app, removal, provider, snapshots
  <2>3. Queues(p)
    BY <1>1, <2>1 DEF Queues, Outside
  <2>. QED
    BY <1>0, <1>1, <2>1, <2>2, <2>3, GivesUp DEF AppTypes
<1>. QED
  BY <1>2, <1>3, <1>4, <1>5, <1>6

\* The steps of a destruction.
LEMMA DestroyStep ==
    ASSUME Basis, NEW p \in Callers,
           \/ FindOrphan(p) \/ ConnectOrphan(p) \/ ConnectThrows(p)
           \/ FindDoomed(p) \/ Kill(p) \/ KillThrows(p) \/ DeleteSnapshot(p)
           \/ Unregister(p) \/ UnregisterThrows(p)
    PROVE  TypeOK' /\ Frame(p) /\ JobsAreCounted' /\ Effect(p)
<1>0. /\ AppTypes /\ StoreTypes /\ CallerTypes /\ BoundTypes /\ deaths \in Nat
      /\ TypeOK /\ JobsAreCounted
      /\ pc[p] \in HasBox => handle[p] \in Boxes
      /\ pc[p] \in HasRow => uuid[p] \in Boxes
  BY BasisGives DEF Basis
<1>1. Finish(p) \in Places /\ Finish(p) \in Outside
      /\ (Finish(p) = "queued" => attempts[p] < MaxAttempts)
  BY Finishes DEF Places, Outside
<1>2. ASSUME Leave(p, Finish(p)), NoneForgotten, Kept, SameWorld,
             sandboxId' = sandboxId, pc[p] # "idle",
             \/ pc[p] \notin Between \cup {"insert"}
             \/ pc[p] = "unstore" /\ backend = "store" /\ row[p].snapshot # None
      PROVE  TypeOK' /\ Frame(p) /\ JobsAreCounted' /\ Effect(p)
  <2>1. Steps(p) /\ pc'[p] = Finish(p) /\ HoldsNothing(p)
    BY <1>0, <1>1, <1>2, LeaveForgets
  <2>2. Forgets(p)
    BY <1>1, <1>2, <2>1 DEF Forgets
  <2>3. Queues(p)
    BY <1>1, <2>1 DEF Queues, Outside
  <2>. QED
    BY <1>0, <1>2, <2>1, <2>2, <2>3, FrameHolds DEF Effect
<1>3. CASE FindOrphan(p)
  <2>1. pc[p] = "seek" /\ NoneForgotten /\ Kept /\ SameWorld /\ sandboxId' = sandboxId
    BY <1>0, <1>3
       DEF FindOrphan, app, removal, provider, snapshots, bounds, AppTypes,
           StoreTypes, BoundTypes, NoneForgotten, Kept, SameWorld
  <2>2. uuid[p] \in Boxes
    BY <1>0, <2>1 DEF HasRow
  <2>3. CASE registry[uuid[p]] = None
    BY <1>2, <1>3, <2>1, <2>3 DEF FindOrphan, Between
  <2>4. CASE registry[uuid[p]] # None
    <3>1. PICK l \in {"doom", "connect"} :
             /\ Goto(p, l)
             /\ l = IF registry[uuid[p]].live = None THEN "doom" ELSE "connect"
      BY <1>3, <2>4 DEF FindOrphan
    <3>2. /\ pc' \in [Callers -> Places] /\ pc'[p] = l
          /\ \A q \in Callers : q # p => pc'[q] = pc[q]
      BY <1>0, <3>1, GotoMoves DEF Places
    <3>3. registry[uuid[p]].live \in Boxes \cup {None}
      BY <1>0, <2>2, <2>4 DEF StoreTypes, Rows
    <3>4. Steps(p) /\ handle'[p] = registry[uuid[p]].live
      BY <1>0, <1>3, <2>4, <3>2, <3>3 DEF FindOrphan, CallerTypes, Steps
    <3>5. Seeks(p)
      BY <1>3, <2>1, <2>4, <3>1, <3>2, <3>4 DEF FindOrphan, Seeks
    <3>. QED
      BY <1>0, <2>1, <3>2, <3>4, <3>5, FrameHolds DEF Effect, Queues
  <2>. QED
    BY <2>3, <2>4
<1>4. CASE ConnectOrphan(p)
  <2>1. Steps(p) /\ pc'[p] = "persist" /\ Keeps(p)
    BY <1>0, <1>4, KeepsAll DEF ConnectOrphan, Places
  <2>2. /\ pc[p] = "connect" /\ NoneForgotten
        /\ UNCHANGED <<backend, registry, sandboxId, deaths, refusals, lost>>
    BY <1>0, <1>4
       DEF ConnectOrphan, app, removal, bounds, AppTypes, NoneForgotten
  <2>3. handle[p] \in Boxes
    BY <1>0, <2>2 DEF HasBox
  <2>4. /\ state' \in [Boxes -> {"none", "running", "paused", "gone"}]
        /\ Alive(handle[p]) /\ state'[handle[p]] = "running"
        /\ \A c \in Boxes : c # handle[p] => state'[c] = state[c]
        /\ UNCHANGED <<work, stored, saves>>
    BY <1>0, <1>4, <2>3, BoxRuns DEF ConnectOrphan
  <2>5. Kept
    BY <1>0, <2>2, <2>4 DEF StoreTypes, BoundTypes, Kept
  <2>6. Connects(p)
    BY <2>1, <2>2, <2>3, <2>4 DEF Connects, SameRows, Keeps
  <2>. QED
    BY <1>0, <2>1, <2>2, <2>5, <2>6, FrameHolds DEF Effect, Queues
<1>5. CASE ConnectThrows(p)
  <2>1. pc[p] = "connect" /\ NoneForgotten /\ SameWorld /\ sandboxId' = sandboxId
    BY <1>0, <1>5
       DEF ConnectThrows, app, removal, provider, snapshots, AppTypes,
           NoneForgotten, SameWorld
  <2>2. Kept
    BY <1>0, <1>5, TroublesAreBounded
       DEF ConnectThrows, Refuse, provider, snapshots, StoreTypes, BoundTypes, Kept
  <2>. QED
    BY <1>2, <1>5, <2>1, <2>2 DEF ConnectThrows, Between
<1>6. CASE FindDoomed(p)
  <2>1. pc[p] = "doom" /\ NoneForgotten /\ Kept /\ SameWorld /\ sandboxId' = sandboxId
    BY <1>0, <1>6
       DEF FindDoomed, app, removal, provider, snapshots, bounds, AppTypes,
           StoreTypes, BoundTypes, NoneForgotten, Kept, SameWorld
  <2>2. uuid[p] \in Boxes
    BY <1>0, <2>1 DEF HasRow
  <2>3. /\ pc' \in [Callers -> Places] /\ pc'[p] = "kill"
        /\ \A q \in Callers : q # p => pc'[q] = pc[q]
    BY <1>0, <1>6, GotoMoves DEF FindDoomed, Places
  <2>4. PICK r \in Rows :
           /\ r = IF registry[uuid[p]] = None THEN Nothing ELSE registry[uuid[p]]
           /\ row' = [row EXCEPT ![p] = r]
    <3>1. Nothing \in Rows
      BY DEF Nothing, Rows
    <3>. QED
      BY <1>0, <1>6, <2>2, <3>1 DEF FindDoomed, StoreTypes
  <2>5. Steps(p) /\ row'[p] = r
    <3>1. /\ row' \in [Callers -> Rows] /\ row'[p] = r
          /\ \A q \in Callers : q # p => row'[q] = row[q]
      BY <1>0, <2>4 DEF CallerTypes
    <3>. QED
      BY <1>0, <1>6, <2>3, <3>1 DEF FindDoomed, CallerTypes, Steps
  <2>6. ReadsRow(p)
    BY <1>6, <2>1, <2>3, <2>4, <2>5 DEF FindDoomed, ReadsRow
  <2>. QED
    BY <1>0, <2>1, <2>3, <2>5, <2>6, FrameHolds DEF Effect, Queues
<1>7. CASE Kill(p)
  <2>1. /\ pc[p] = "kill" /\ NoneForgotten /\ SameRows
        /\ UNCHANGED <<backend, work, deaths>>
    BY <1>0, <1>7
       DEF Kill, app, removal, snapshots, AppTypes, NoneForgotten, SameRows
  <2>2. Steps(p) /\ pc'[p] = "unstore" /\ Keeps(p)
    BY <1>0, <1>7, KeepsAll DEF Kill, Places
  <2>3. /\ state' \in [Boxes -> {"none", "running", "paused", "gone"}]
        /\ refusals' \in 0 .. MaxTroubles
        /\ \A b \in Boxes :
              state'[b] = state[b] \/ (b = row[p].live /\ state'[b] = "gone")
        /\ row[p].live # None =>
              /\ row[p].live \in Boxes
              /\ refusals' # refusals \/ state'[row[p].live] = "gone"
        /\ row[p].live = None => refusals' = refusals
    <3>1. CASE row[p].live = None /\ UNCHANGED <<state, refusals>>
      BY <1>0, <3>1 DEF StoreTypes, BoundTypes
    <3>2. CASE row[p].live # None /\ Destroy(row[p].live)
      <4>1. row[p].live \in Boxes
        BY <1>0, <3>2 DEF CallerTypes, Rows
      <4>. QED
        BY <1>0, <3>2, <4>1, BoxIsDestroyed
    <3>. QED
      BY <1>7, <3>1, <3>2 DEF Kill
  <2>4. /\ lost \subseteq lost' /\ lost' \subseteq Boxes
        /\ backend = "pause" /\ refusals' # refusals => row[p].live \in lost'
    BY <1>0, <1>7, <2>3 DEF Kill, BoundTypes
  <2>5. Kept
    BY <1>0, <2>1, <2>3, <2>4 DEF StoreTypes, BoundTypes, Kept, SameRows
  <2>6. Kills(p)
    BY <2>1, <2>2, <2>3, <2>4 DEF Kills
  <2>. QED
    BY <1>0, <2>1, <2>2, <2>5, <2>6, FrameHolds DEF Effect, Queues
<1>8. CASE DeleteSnapshot(p)
  <2>1. /\ pc[p] = "unstore" /\ NoneForgotten
        /\ UNCHANGED <<backend, registry, state, work, saves, sandboxId, deaths,
                       lost>>
    BY <1>0, <1>8 DEF DeleteSnapshot, app, removal, AppTypes, NoneForgotten
  <2>2. CASE /\ stored' = IF Restores(row[p])
                          THEN [stored EXCEPT ![row[p].snapshot] = None]
                          ELSE stored
             /\ Goto(p, "unregister") /\ UNCHANGED <<refusals, held>>
    <3>1. Steps(p) /\ pc'[p] = "unregister" /\ Keeps(p)
      BY <1>0, <2>2, KeepsAll DEF Places
    <3>2. /\ stored' \in [Snapshots -> (SUBSET Turns) \cup {None}]
          /\ \A s \in Snapshots :
                stored'[s] = stored[s] \/ (Restores(row[p]) /\ s = row[p].snapshot)
      BY <1>0, <2>2 DEF StoreTypes
    <3>3. Kept
      BY <1>0, <2>1, <2>2, <3>2 DEF StoreTypes, BoundTypes, Kept
    <3>4. Unstores(p)
      BY <2>1, <3>1, <3>2 DEF Unstores
    <3>. QED
      BY <1>0, <2>1, <3>1, <3>3, <3>4, FrameHolds DEF Effect, Queues
  <2>3. CASE Restores(row[p]) /\ Refuse /\ Leave(p, Finish(p)) /\ UNCHANGED stored
    <3>1. Kept
      BY <1>0, <2>1, <2>3, TroublesAreBounded
         DEF Refuse, StoreTypes, BoundTypes, Kept
    <3>. QED
      BY <1>2, <2>1, <2>3, <3>1 DEF Restores, SameWorld
  <2>. QED
    BY <1>8, <2>2, <2>3 DEF DeleteSnapshot
<1>9. CASE Unregister(p)
  <2>1. Steps(p) /\ pc'[p] = Finish(p) /\ HoldsNothing(p)
    BY <1>0, <1>1, <1>9, LeaveForgets DEF Unregister
  <2>2. /\ pc[p] = "unregister" /\ NoneForgotten /\ SameBoxes
        /\ work' = work /\ backend' = backend /\ UNCHANGED bounds
    BY <1>0, <1>9
       DEF Unregister, app, removal, provider, snapshots, AppTypes,
           NoneForgotten, SameBoxes
  <2>3. uuid[p] \in Boxes
    BY <1>0, <2>2 DEF HasRow
  <2>4. /\ registry' \in [Boxes -> Rows \cup {None}]
        /\ \A b \in Boxes :
              IF b = uuid[p] THEN registry'[b] = None ELSE registry'[b] = registry[b]
    BY <1>0, <1>9, <2>3 DEF Unregister, StoreTypes
  <2>5. Kept
    BY <1>0, <2>2, <2>4 DEF bounds, StoreTypes, BoundTypes, Kept, SameBoxes
  <2>6. Unregisters(p)
    BY <1>1, <2>1, <2>2, <2>4 DEF Unregisters
  <2>7. Queues(p)
    BY <1>1, <2>1 DEF Queues, Outside
  <2>. QED
    BY <1>0, <2>1, <2>2, <2>5, <2>6, <2>7, FrameHolds DEF Effect
<1>10. CASE KillThrows(p)
  <2>1. Steps(p) /\ pc'[p] = Finish(p) /\ HoldsNothing(p)
    BY <1>0, <1>1, <1>10, LeaveForgets DEF KillThrows
  <2>2. /\ pc[p] = "kill" /\ Refuse
        /\ UNCHANGED <<backend, status, attempts, published, sandboxId, deletion,
                       deleted, registry, state, work, stored, saves, deaths, lost>>
    BY <1>10 DEF KillThrows, app, removal, provider, snapshots
  <2>3. Queues(p)
    BY <1>1, <2>1 DEF Queues, Outside
  <2>. QED
    BY <1>0, <1>1, <2>1, <2>2, <2>3, GivesUp DEF AppTypes, Between
<1>11. CASE UnregisterThrows(p)
  <2>1. Steps(p) /\ pc'[p] = Finish(p) /\ HoldsNothing(p)
    BY <1>0, <1>1, <1>11, LeaveForgets DEF UnregisterThrows
  <2>2. /\ pc[p] = "unregister" /\ Refuse /\ lost' = lost \cup Loses(p)
        /\ UNCHANGED <<backend, status, attempts, published, sandboxId, deletion,
                       deleted, registry, state, work, stored, saves, deaths>>
    BY <1>11 DEF UnregisterThrows, app, removal, provider, snapshots
  <2>3. Queues(p)
    BY <1>1, <2>1 DEF Queues, Outside
  <2>. QED
    BY <1>0, <1>1, <2>1, <2>2, <2>3, GivesUp DEF AppTypes
<1>. QED
  BY <1>3, <1>4, <1>5, <1>6, <1>7, <1>8, <1>9, <1>10, <1>11

\* The requests of a user.
LEMMA RequestStep ==
    ASSUME Basis, NEW p \in Callers,
           \/ \E t \in Cancellable : p = Canceller(t) /\ (BeginCancel(t) \/ Cancel(t))
           \/ p = Deleter /\ (BeginDelete \/ Drop)
    PROVE  TypeOK' /\ Frame(p) /\ JobsAreCounted' /\ Effect(p)
<1>0. /\ AppTypes /\ StoreTypes /\ CallerTypes /\ BoundTypes /\ deaths \in Nat
      /\ TypeOK /\ JobsAreCounted /\ p \notin Turns
  BY BasisGives, CallersAre DEF Basis
<1>1. ASSUME NEW t \in Cancellable, p = Canceller(t), BeginCancel(t)
      PROVE  TypeOK' /\ Frame(p) /\ JobsAreCounted' /\ Effect(p)
  <2>1. /\ pc[p] = "idle" /\ NoneForgotten /\ Kept /\ SameWorld
        /\ sandboxId' = sandboxId
    BY <1>0, <1>1
       DEF BeginCancel, app, removal, provider, snapshots, bounds, AppTypes,
           StoreTypes, BoundTypes, NoneForgotten, Kept, SameWorld
  <2>2. /\ pc' \in [Callers -> Places] /\ pc'[p] = "cancel"
        /\ \A q \in Callers : q # p => pc'[q] = pc[q]
    BY <1>0, <1>1, GotoMoves DEF BeginCancel, Places
  <2>3. Steps(p) /\ uuid'[p] = sandboxId
    BY <1>0, <1>1, <2>2 DEF BeginCancel, CallerTypes, AppTypes, Steps
  <2>4. Chooses(p)
    BY <1>1, <2>1, <2>2, <2>3 DEF BeginCancel, Chooses, Outside
  <2>. QED
    BY <1>0, <2>1, <2>2, <2>3, <2>4, FrameHolds DEF Effect, Queues
<1>2. ASSUME NEW t \in Cancellable, p = Canceller(t), Cancel(t)
      PROVE  TypeOK' /\ Frame(p) /\ JobsAreCounted' /\ Effect(p)
  <2>1. /\ status' \in [Turns -> Statuses]
        /\ \A u \in Turns : status'[u] = "none" => status[u] = "none"
    BY <1>0, <1>2, StatusIsSet, CallersAre DEF Cancel, Statuses
  <2>2. /\ pc[p] = "cancel" /\ NoneForgotten /\ Kept /\ SameWorld
        /\ sandboxId' = sandboxId
    BY <1>0, <1>2, <2>1
       DEF Cancel, removal, provider, snapshots, bounds, AppTypes,
           StoreTypes, BoundTypes, NoneForgotten, Kept, SameWorld
  <2>3. PICK l \in {"seek", "ended"} :
           /\ Goto(p, l) /\ UNCHANGED held
           /\ l = "seek" => uuid[p] # None
    BY <1>2 DEF Cancel
  <2>4. Steps(p) /\ pc'[p] = l /\ Keeps(p)
    BY <1>0, <2>3, KeepsAll DEF Places
  <2>5. Chooses(p)
    BY <2>2, <2>3, <2>4 DEF Chooses, Keeps, Outside
  <2>. QED
    BY <1>0, <2>2, <2>3, <2>4, <2>5, FrameHolds DEF Effect, Queues
<1>3. CASE p = Deleter /\ BeginDelete
  <2>1. /\ pc[p] = "idle" /\ NoneForgotten /\ Kept /\ SameWorld
        /\ sandboxId' = sandboxId
    BY <1>0, <1>3
       DEF BeginDelete, provider, snapshots, bounds, AppTypes,
           StoreTypes, BoundTypes, NoneForgotten, Kept, SameWorld
  <2>2. PICK l \in {"drop", "seek", "doom"} :
           Goto(p, l) /\ (l # "drop" => sandboxId # None)
    BY <1>3 DEF BeginDelete
  <2>3. /\ pc' \in [Callers -> Places] /\ pc'[p] = l
        /\ \A q \in Callers : q # p => pc'[q] = pc[q]
    BY <1>0, <2>2, GotoMoves DEF Places
  <2>4. Steps(p) /\ uuid'[p] = sandboxId
    BY <1>0, <1>3, <2>3 DEF BeginDelete, CallerTypes, AppTypes, Steps
  <2>5. Chooses(p)
    BY <1>3, <2>1, <2>2, <2>3, <2>4 DEF BeginDelete, Chooses, Outside
  <2>. QED
    BY <1>0, <2>1, <2>2, <2>3, <2>4, <2>5, FrameHolds DEF Effect, Queues
<1>4. CASE p = Deleter /\ Drop
  <2>1. Steps(p) /\ pc'[p] = "ended" /\ HoldsNothing(p)
    BY <1>0, <1>4, LeaveForgets DEF Drop, Places
  <2>2. pc[p] = "drop" /\ SameWorld /\ sandboxId' \in {sandboxId, None} /\ Kept
    BY <1>0, <1>4
       DEF Drop, provider, snapshots, bounds, StoreTypes, BoundTypes, Kept,
           SameWorld
  <2>3. deleted' \in BOOLEAN /\ deleted'
    BY <1>4, Zenon DEF Drop
  <2>4. /\ status' \in [Turns -> Statuses] /\ published' \in [Turns -> SUBSET Turns]
        /\ sandboxId' \in Boxes \cup {None} /\ UNCHANGED <<attempts, deletion>>
    BY <1>0, <1>4 DEF Drop, AppTypes, Statuses
  <2>5. TypeOK'
    BY <1>0, <2>1, <2>2, <2>3, <2>4, StatusesAre
       DEF TypeOK, AppTypes, StoreTypes, CallerTypes, BoundTypes, Steps, Kept
  <2>6. Frame(p)
    BY <1>0, <2>1, <2>2 DEF Frame, Steps, Kept
  <2>7. JobsAreCounted'
    BY <1>0, <2>1, <2>3, <2>4, CallersAre DEF JobsAreCounted, Steps
  <2>8. Forgets(p)
    BY <2>1, <2>2 DEF Forgets, Outside, Between
  <2>. QED
    BY <2>5, <2>6, <2>7, <2>8 DEF Effect
<1>. QED
  BY <1>1, <1>2, <1>3, <1>4

\* A step leaves everything alone, or is that of one caller.
LEMMA StepEffects ==
    ASSUME Basis, [Next]_vars
    PROVE  /\ TypeOK' /\ JobsAreCounted'
           /\ \/ UNCHANGED vars
              \/ \E p \in Callers : Frame(p) /\ Effect(p)
<1>1. ASSUME NEW p \in Callers, Manage(p)
      PROVE  TypeOK' /\ Frame(p) /\ JobsAreCounted' /\ Effect(p)
  BY <1>1, SuspendStep, DestroyStep DEF Manage
<1>2. ASSUME NEW t \in Turns, Iterate(t) \/ Job(t)
      PROVE  TypeOK' /\ Frame(t) /\ JobsAreCounted' /\ Effect(t)
  BY <1>1, <1>2, BeginStep, AcquireStep, BuildStep, CallersAre
     DEF Job, Advance
<1>3. ASSUME NEW t \in Cancellable, Cancellation(t)
      PROVE  \E p \in Callers :
                TypeOK' /\ Frame(p) /\ JobsAreCounted' /\ Effect(p)
  <2>1. Canceller(t) \in Callers
    BY CallersAre
  <2>. QED
    BY <1>1, <1>3, <2>1, RequestStep DEF Cancellation
<1>4. CASE Deletion
  BY <1>1, <1>4, RequestStep, CallersAre DEF Deletion
<1>5. CASE UNCHANGED vars
  BY <1>5
     DEF Basis, TypeOK, JobsAreCounted, vars, app, removal, provider, snapshots,
         caller, bounds
<1>. QED
  BY <1>2, <1>3, <1>4, <1>5, CallersAre DEF Next

(***************************************************************************)
(* Every effect keeps the invariants, one after the other.                 *)
(***************************************************************************)

\* What the invariant says of one caller.
LEMMA InvGives ==
    ASSUME SandboxInv, NEW p \in Callers
    PROVE  /\ None \notin Boxes /\ None \notin Nat /\ Nothing.live = None
           /\ Nothing.snapshot = None /\ sandboxId \in Boxes \cup {None}
           /\ backend \in {"pause", "store"}
           /\ uuid[p] \in Boxes \cup {None} /\ handle[p] \in Boxes \cup {None}
           /\ pc[p] \in HasRow => uuid[p] \in Boxes
           /\ pc[p] \in HasBox => handle[p] \in Boxes
           /\ pc[p] \notin HasBox => handle[p] = None
           /\ row[p].live \in Boxes \cup {None} /\ row[p].snapshot \in Nat \cup {None}
           /\ \A b \in Boxes : registry[b] # None =>
                 /\ registry[b].live \in Boxes \cup {None}
                 /\ registry[b].snapshot \in Nat \cup {None}
<1>1. TypeOK /\ PlacesAreKnown
  BY DEF SandboxInv
<1>2. row[p] \in Rows /\ \A b \in Boxes : registry[b] # None => registry[b] \in Rows
  BY <1>1 DEF TypeOK
<1>3. \A r \in Rows : r.live \in Boxes \cup {None} /\ r.snapshot \in Nat \cup {None}
  BY DEF Rows
<1>4. Nothing.live = None /\ Nothing.snapshot = None
  BY DEF Nothing
<1>5. uuid[p] \in Boxes \cup {None} /\ handle[p] \in Boxes \cup {None}
  BY <1>1 DEF TypeOK
<1>6. sandboxId \in Boxes \cup {None}
  BY <1>1 DEF TypeOK
<1>7. backend \in {"pause", "store"}
  BY <1>1, SandboxAssumption DEF TypeOK, SandboxAssumption
<1>. QED
  BY <1>1, <1>2, <1>3, <1>4, <1>5, <1>6, <1>7, NoneIsNoRow DEF PlacesAreKnown

\* Callers have the row and the sandbox that their place needs.
LEMMA PlacesStep ==
    ASSUME SandboxInv, NEW p \in Callers, Frame(p), Effect(p)
    PROVE  PlacesAreKnown'
<1>0. /\ None \notin Boxes /\ None \notin Nat /\ Nothing.live = None
      /\ Nothing.snapshot = None /\ sandboxId \in Boxes \cup {None}
      /\ backend \in {"pause", "store"}
      /\ uuid[p] \in Boxes \cup {None} /\ handle[p] \in Boxes \cup {None}
      /\ row[p].live \in Boxes \cup {None} /\ row[p].snapshot \in Nat \cup {None}
      /\ \A r \in Callers :
            /\ pc[r] \in HasRow => uuid[r] \in Boxes
            /\ pc[r] \in HasBox => handle[r] \in Boxes
            /\ pc[r] \notin HasBox => handle[r] = None
      /\ \A d \in Boxes : registry[d] # None =>
            /\ registry[d].live \in Boxes \cup {None}
            /\ registry[d].snapshot \in Nat \cup {None}
      /\ PlacesAreKnown
  BY InvGives DEF SandboxInv
<1>1. CASE Forgets(p)
  BY <1>0, <1>1
     DEF Forgets, SameWorld, HoldsNothing, Outside, Frame, PlacesAreKnown,
         HasRow, HasBox
<1>2. CASE Idles(p)
  BY <1>0, <1>2
     DEF Idles, SameWorld, Keeps, Outside, Frame, PlacesAreKnown, HasRow,
         HasBox
<1>3. CASE Works(p)
  BY <1>0, <1>3
     DEF Works, SameWorld, Keeps, Working, Frame, PlacesAreKnown, HasRow,
         HasBox
<1>4. CASE Chooses(p)
  BY <1>0, <1>4
     DEF Chooses, SameWorld, Outside, Frame, PlacesAreKnown, HasRow, HasBox
<1>5. CASE ReadsRow(p)
  BY <1>0, <1>5 DEF ReadsRow, SameWorld, Frame, PlacesAreKnown, HasRow, HasBox
<1>6. CASE Seeks(p)
  BY <1>0, <1>6 DEF Seeks, SameWorld, Frame, PlacesAreKnown, HasRow, HasBox
<1>7. CASE Connects(p)
  BY <1>0, <1>7 DEF Connects, SameRows, Frame, PlacesAreKnown, HasRow, HasBox
<1>8. CASE Creates(p)
  BY <1>0, <1>8
     DEF Creates, SameRows, Keeps, HoldsNothing, Outside, Frame,
         PlacesAreKnown, HasRow, HasBox
<1>9. CASE Marks(p)
  BY <1>0, <1>9 DEF Marks, SameBoxes, Keeps, Frame, PlacesAreKnown, HasRow, HasBox
<1>10. CASE Inserts(p)
  BY <1>0, <1>10 DEF Inserts, SameBoxes, Frame, PlacesAreKnown, HasRow, HasBox
<1>11. CASE Undoes(p)
  BY <1>0, <1>11
     DEF Undoes, SameRows, HoldsNothing, Outside, Frame, PlacesAreKnown,
         HasRow, HasBox
<1>12. CASE Pauses(p)
  BY <1>0, <1>12 DEF Pauses, SameRows, Frame, PlacesAreKnown, HasRow, HasBox
<1>13. CASE Stores(p)
  BY <1>0, <1>13 DEF Stores, Frame, PlacesAreKnown, HasRow, HasBox
<1>14. CASE Removes(p)
  BY <1>0, <1>14
     DEF Removes, SameRows, Keeps, Frame, PlacesAreKnown, HasRow, HasBox
<1>15. CASE Parks(p)
  BY <1>0, <1>15
     DEF Parks, SameBoxes, HoldsNothing, Outside, Frame, PlacesAreKnown,
         HasRow, HasBox
<1>16. CASE Kills(p)
  BY <1>0, <1>16 DEF Kills, SameRows, Keeps, Frame, PlacesAreKnown, HasRow, HasBox
<1>17. CASE Unstores(p)
  BY <1>0, <1>17 DEF Unstores, Keeps, Frame, PlacesAreKnown, HasRow, HasBox
<1>18. CASE Unregisters(p)
  BY <1>0, <1>18
     DEF Unregisters, SameBoxes, HoldsNothing, Outside, Frame, PlacesAreKnown,
         HasRow, HasBox
<1>. QED
  BY <1>1, <1>2, <1>3, <1>4, <1>5, <1>6, <1>7, <1>8, <1>9, <1>10, <1>11, <1>12,
     <1>13, <1>14, <1>15, <1>16, <1>17, <1>18
     DEF Effect

\* A sandbox that nobody knows stays so, unless p creates it.
LEMMA UnknownStays ==
    ASSUME SandboxInv, NEW p \in Callers, Frame(p), Effect(p),
           NEW b \in Boxes, Unknown(b), handle[p] # b
    PROVE  /\ Unknown(b)'
           /\ \/ state'[b] = state[b] /\ handle'[p] # b
              \/ state[b] = "none" /\ state'[b] = "running"
<1>0. /\ None \notin Boxes /\ None \notin Nat /\ Nothing.live = None
      /\ Nothing.snapshot = None /\ sandboxId \in Boxes \cup {None}
      /\ backend \in {"pause", "store"}
      /\ uuid[p] \in Boxes \cup {None} /\ handle[p] \in Boxes \cup {None}
      /\ row[p].live \in Boxes \cup {None} /\ row[p].snapshot \in Nat \cup {None}
      /\ \A r \in Callers :
            /\ pc[r] \in HasRow => uuid[r] \in Boxes
            /\ pc[r] \in HasBox => handle[r] \in Boxes
            /\ pc[r] \notin HasBox => handle[r] = None
      /\ \A d \in Boxes : registry[d] # None =>
            /\ registry[d].live \in Boxes \cup {None}
            /\ registry[d].snapshot \in Nat \cup {None}
      /\ PausedInPlace
  BY InvGives DEF SandboxInv
<1>a. pc[p] = "resume" /\ row[p].snapshot # None /\ ~Restores(row[p])
        => row[p].snapshot # b
  BY <1>0 DEF PausedInPlace, Restores, Reads, Unknown, HasRow, Nothing
<1>1. CASE Forgets(p)
  BY <1>0, <1>1, <1>a
     DEF Forgets, SameWorld, HoldsNothing, Outside, Frame, Unknown, HasRow,
         HasBox
<1>2. CASE Idles(p)
  BY <1>0, <1>2, <1>a
     DEF Idles, SameWorld, Keeps, Outside, Frame, Unknown, HasRow, HasBox
<1>3. CASE Works(p)
  BY <1>0, <1>3, <1>a
     DEF Works, SameWorld, Keeps, Working, Frame, Unknown, HasRow, HasBox
<1>4. CASE Chooses(p)
  BY <1>0, <1>4, <1>a
     DEF Chooses, SameWorld, Outside, Frame, Unknown, HasRow, HasBox
<1>5. CASE ReadsRow(p)
  BY <1>0, <1>5, <1>a DEF ReadsRow, SameWorld, Frame, Unknown, HasRow, HasBox
<1>6. CASE Seeks(p)
  BY <1>0, <1>6, <1>a DEF Seeks, SameWorld, Frame, Unknown, HasRow, HasBox
<1>7. CASE Connects(p)
  BY <1>0, <1>7, <1>a DEF Connects, SameRows, Frame, Unknown, HasRow, HasBox
<1>8. CASE Creates(p)
  BY <1>0, <1>8, <1>a
     DEF Creates, SameRows, Keeps, HoldsNothing, Outside, Frame, Unknown,
         HasRow, HasBox
<1>9. CASE Marks(p)
  BY <1>0, <1>9, <1>a DEF Marks, SameBoxes, Keeps, Frame, Unknown, HasRow, HasBox
<1>10. CASE Inserts(p)
  BY <1>0, <1>10, <1>a DEF Inserts, SameBoxes, Frame, Unknown, HasRow, HasBox
<1>11. CASE Undoes(p)
  BY <1>0, <1>11, <1>a
     DEF Undoes, SameRows, HoldsNothing, Outside, Frame, Unknown, HasRow,
         HasBox
<1>12. CASE Pauses(p)
  BY <1>0, <1>12, <1>a DEF Pauses, SameRows, Frame, Unknown, HasRow, HasBox
<1>13. CASE Stores(p)
  BY <1>0, <1>13, <1>a DEF Stores, Frame, Unknown, HasRow, HasBox
<1>14. CASE Removes(p)
  BY <1>0, <1>14, <1>a
     DEF Removes, SameRows, Keeps, Frame, Unknown, HasRow, HasBox
<1>15. CASE Parks(p)
  BY <1>0, <1>15, <1>a
     DEF Parks, SameBoxes, HoldsNothing, Outside, Frame, Unknown, HasRow,
         HasBox
<1>16. CASE Kills(p)
  BY <1>0, <1>16, <1>a DEF Kills, SameRows, Keeps, Frame, Unknown, HasRow, HasBox
<1>17. CASE Unstores(p)
  BY <1>0, <1>17, <1>a DEF Unstores, Keeps, Frame, Unknown, HasRow, HasBox
<1>18. CASE Unregisters(p)
  BY <1>0, <1>18, <1>a
     DEF Unregisters, SameBoxes, HoldsNothing, Outside, Frame, Unknown, HasRow,
         HasBox
<1>. QED
  BY <1>1, <1>2, <1>3, <1>4, <1>5, <1>6, <1>7, <1>8, <1>9, <1>10, <1>11, <1>12,
     <1>13, <1>14, <1>15, <1>16, <1>17, <1>18
     DEF Effect

\* No sandbox is forgotten.
LEMMA BoxesStay ==
    ASSUME SandboxInv, NEW p \in Callers, Frame(p), Effect(p),
           NEW b \in Boxes
    PROVE  state'[b] = "none" => state[b] = "none"
<1>0. /\ None \notin Boxes /\ None \notin Nat /\ Nothing.live = None
      /\ Nothing.snapshot = None /\ sandboxId \in Boxes \cup {None}
      /\ backend \in {"pause", "store"}
      /\ uuid[p] \in Boxes \cup {None} /\ handle[p] \in Boxes \cup {None}
      /\ row[p].live \in Boxes \cup {None} /\ row[p].snapshot \in Nat \cup {None}
      /\ \A r \in Callers :
            /\ pc[r] \in HasRow => uuid[r] \in Boxes
            /\ pc[r] \in HasBox => handle[r] \in Boxes
            /\ pc[r] \notin HasBox => handle[r] = None
      /\ \A d \in Boxes : registry[d] # None =>
            /\ registry[d].live \in Boxes \cup {None}
            /\ registry[d].snapshot \in Nat \cup {None}
      /\ TypeOK
  BY InvGives DEF SandboxInv
<1>1. CASE Forgets(p)
  BY <1>0, <1>1 DEF Forgets, SameWorld, HoldsNothing, Outside, Frame, HasBox
<1>2. CASE Idles(p)
  BY <1>0, <1>2 DEF Idles, SameWorld, Keeps, Outside, Frame, HasBox
<1>3. CASE Works(p)
  BY <1>0, <1>3 DEF Works, SameWorld, Keeps, Working, Frame, HasBox
<1>4. CASE Chooses(p)
  BY <1>0, <1>4 DEF Chooses, SameWorld, Outside, Frame, HasBox
<1>5. CASE ReadsRow(p)
  BY <1>0, <1>5 DEF ReadsRow, SameWorld, Frame, HasBox
<1>6. CASE Seeks(p)
  BY <1>0, <1>6 DEF Seeks, SameWorld, Frame, HasBox
<1>7. CASE Connects(p)
  BY <1>0, <1>7 DEF Connects, SameRows, Frame, HasBox
<1>8. CASE Creates(p)
  BY <1>0, <1>8 DEF Creates, SameRows, Keeps, HoldsNothing, Outside, Frame, HasBox
<1>9. CASE Marks(p)
  BY <1>0, <1>9 DEF Marks, SameBoxes, Keeps, Frame, HasBox
<1>10. CASE Inserts(p)
  BY <1>0, <1>10 DEF Inserts, SameBoxes, Frame, HasBox
<1>11. CASE Undoes(p)
  BY <1>0, <1>11 DEF Undoes, SameRows, HoldsNothing, Outside, Frame, HasBox
<1>12. CASE Pauses(p)
  BY <1>0, <1>12 DEF Pauses, SameRows, Frame, HasBox
<1>13. CASE Stores(p)
  BY <1>0, <1>13 DEF Stores, Frame, HasBox
<1>14. CASE Removes(p)
  BY <1>0, <1>14 DEF Removes, SameRows, Keeps, Frame, HasBox
<1>15. CASE Parks(p)
  BY <1>0, <1>15 DEF Parks, SameBoxes, HoldsNothing, Outside, Frame, HasBox
<1>16. CASE Kills(p)
  BY <1>0, <1>16 DEF Kills, SameRows, Keeps, Frame, HasBox
<1>17. CASE Unstores(p)
  BY <1>0, <1>17 DEF Unstores, Keeps, Frame, HasBox
<1>18. CASE Unregisters(p)
  BY <1>0, <1>18 DEF Unregisters, SameBoxes, HoldsNothing, Outside, Frame, HasBox
<1>. QED
  BY <1>1, <1>2, <1>3, <1>4, <1>5, <1>6, <1>7, <1>8, <1>9, <1>10, <1>11, <1>12,
     <1>13, <1>14, <1>15, <1>16, <1>17, <1>18
     DEF Effect

\* A sandbox is unknown until its creator has registered it.
LEMMA NewStep ==
    ASSUME SandboxInv, NEW p \in Callers, Frame(p), Effect(p)
    PROVE  NewIsUnknown'
<1>1. NewIsUnknown /\ PlacesAreKnown
  BY DEF SandboxInv
<1>2. ASSUME NEW b \in Boxes, state'[b] = "none"
      PROVE  Unknown(b)' /\ \A q \in Callers : handle'[q] # b
  <2>1. state[b] = "none"
    BY <1>2, BoxesStay
  <2>2. Unknown(b) /\ \A q \in Callers : handle[q] # b
    BY <1>1, <2>1 DEF NewIsUnknown
  <2>. QED
    BY <1>2, <2>2, UnknownStays DEF Frame
<1>3. ASSUME NEW q \in Callers, pc'[q] = "insert"
      PROVE  /\ state'[handle'[q]] = "running" /\ Unknown(handle[q])'
             /\ \A r \in Callers \ {q} : handle'[r] # handle'[q]
  <2>1. CASE q = p
    <3>1. Creates(p)
      BY <1>3, <2>1
         DEF Effect, Forgets, Idles, Works, Chooses, ReadsRow, Seeks, Connects,
             Marks, Inserts, Undoes, Pauses, Stores, Removes, Parks, Kills,
             Unstores, Unregisters, Outside, Working
    <3>2. PICK b \in Boxes : state[b] = "none" /\ handle'[p] = b
      BY <1>3, <2>1, <3>1 DEF Creates, Outside
    <3>3. Unknown(b) /\ \A r \in Callers : handle[r] # b
      BY <1>1, <3>2 DEF NewIsUnknown
    <3>4. Unknown(b)' /\ state'[b] = "running"
      BY <3>2, <3>3, UnknownStays
    <3>5. \A r \in Callers \ {p} : handle'[r] # b
      BY <3>3 DEF Frame
    <3>. QED
      BY <2>1, <3>2, <3>4, <3>5 DEF Unknown
  <2>2. CASE q # p
    <3>1. pc[q] = "insert" /\ handle'[q] = handle[q]
      BY <1>3, <2>2 DEF Frame
    <3>2. handle[q] \in Boxes
      BY <3>1, InvGives DEF HasBox
    <3>3. /\ state[handle[q]] = "running" /\ Unknown(handle[q])
          /\ \A r \in Callers \ {q} : handle[r] # handle[q]
      BY <1>1, <3>1 DEF NewIsUnknown
    <3>4. PICK b \in Boxes : b = handle[q]
      BY <3>2
    <3>5. Unknown(b)' /\ state'[b] = state[b] /\ handle'[p] # b
      BY <2>2, <3>3, <3>4, UnknownStays
    <3>6. \A r \in Callers \ {q} : handle'[r] # b
      BY <3>3, <3>4, <3>5 DEF Frame
    <3>. QED
      BY <3>1, <3>3, <3>4, <3>5, <3>6 DEF Unknown
  <2>. QED
    BY <2>1, <2>2
<1>. QED
  BY <1>2, <1>3 DEF NewIsUnknown

\* A sandbox belongs to one row.
LEMMA OwnStep ==
    ASSUME SandboxInv, NEW p \in Callers, Frame(p), Effect(p)
    PROVE  OwnBoxes'
<1>0. /\ None \notin Boxes /\ None \notin Nat /\ Nothing.live = None
      /\ Nothing.snapshot = None /\ sandboxId \in Boxes \cup {None}
      /\ backend \in {"pause", "store"}
      /\ uuid[p] \in Boxes \cup {None} /\ handle[p] \in Boxes \cup {None}
      /\ row[p].live \in Boxes \cup {None} /\ row[p].snapshot \in Nat \cup {None}
      /\ \A r \in Callers :
            /\ pc[r] \in HasRow => uuid[r] \in Boxes
            /\ pc[r] \in HasBox => handle[r] \in Boxes
            /\ pc[r] \notin HasBox => handle[r] = None
      /\ \A d \in Boxes : registry[d] # None =>
            /\ registry[d].live \in Boxes \cup {None}
            /\ registry[d].snapshot \in Nat \cup {None}
      /\ NewIsUnknown /\ OwnBoxes /\ PausedInPlace
  BY InvGives DEF SandboxInv
<1>1. CASE Forgets(p)
  BY <1>0, <1>1
     DEF Forgets, SameWorld, HoldsNothing, Outside, Frame, OwnBoxes,
         NewIsUnknown, Unknown, Reads, HasRow, HasBox
<1>2. CASE Idles(p)
  BY <1>0, <1>2
     DEF Idles, SameWorld, Keeps, Outside, Frame, OwnBoxes, NewIsUnknown,
         Unknown, Reads, HasRow, HasBox
<1>3. CASE Works(p)
  BY <1>0, <1>3
     DEF Works, SameWorld, Keeps, Working, Frame, OwnBoxes, NewIsUnknown,
         Unknown, Reads, HasRow, HasBox
<1>4. CASE Chooses(p)
  BY <1>0, <1>4
     DEF Chooses, SameWorld, Outside, Frame, OwnBoxes, NewIsUnknown, Unknown,
         Reads, HasRow, HasBox
<1>5. CASE ReadsRow(p)
  BY <1>0, <1>5
     DEF ReadsRow, SameWorld, Frame, OwnBoxes, NewIsUnknown, Unknown, Reads,
         HasRow, HasBox
<1>6. CASE Seeks(p)
  BY <1>0, <1>6
     DEF Seeks, SameWorld, Frame, OwnBoxes, NewIsUnknown, Unknown, Reads,
         HasRow, HasBox
<1>7. CASE Connects(p)
  <2>1. handle'[p] \in Boxes /\ registry[handle'[p]] # None => uuid[p] = handle'[p]
    <3>1. CASE pc[p] = "connect"
      BY <1>0, <1>7, <3>1 DEF Connects, OwnBoxes
    <3>2. CASE pc[p] = "resume" /\ row[p].snapshot = None
      BY <1>0, <1>7, <3>2 DEF Connects, OwnBoxes, Reads
    <3>3. CASE pc[p] = "resume" /\ row[p].snapshot # None
      BY <1>0, <1>7, <3>3 DEF Connects, PausedInPlace, Restores, Reads, Nothing
    <3>. QED
      BY <1>7, <3>1, <3>2, <3>3 DEF Connects
  <2>. QED
    BY <1>0, <1>7, <2>1 DEF Connects, SameRows, Frame, OwnBoxes, Reads
<1>8. CASE Creates(p)
  BY <1>0, <1>8
     DEF Creates, SameRows, Keeps, HoldsNothing, Outside, Frame, OwnBoxes,
         NewIsUnknown, Unknown, Reads, HasRow, HasBox
<1>9. CASE Marks(p)
  BY <1>0, <1>9
     DEF Marks, SameBoxes, Keeps, Frame, OwnBoxes, NewIsUnknown, Unknown,
         Reads, HasRow, HasBox
<1>10. CASE Inserts(p)
  BY <1>0, <1>10
     DEF Inserts, SameBoxes, Frame, OwnBoxes, NewIsUnknown, Unknown, Reads,
         HasRow, HasBox
<1>11. CASE Undoes(p)
  BY <1>0, <1>11
     DEF Undoes, SameRows, HoldsNothing, Outside, Frame, OwnBoxes,
         NewIsUnknown, Unknown, Reads, HasRow, HasBox
<1>12. CASE Pauses(p)
  BY <1>0, <1>12
     DEF Pauses, SameRows, Frame, OwnBoxes, NewIsUnknown, Unknown, Reads,
         HasRow, HasBox
<1>13. CASE Stores(p)
  BY <1>0, <1>13
     DEF Stores, Frame, OwnBoxes, NewIsUnknown, Unknown, Reads, HasRow, HasBox
<1>14. CASE Removes(p)
  BY <1>0, <1>14
     DEF Removes, SameRows, Keeps, Frame, OwnBoxes, NewIsUnknown, Unknown,
         Reads, HasRow, HasBox
<1>15. CASE Parks(p)
  BY <1>0, <1>15
     DEF Parks, SameBoxes, HoldsNothing, Outside, Frame, OwnBoxes,
         NewIsUnknown, Unknown, Reads, HasRow, HasBox
<1>16. CASE Kills(p)
  BY <1>0, <1>16
     DEF Kills, SameRows, Keeps, Frame, OwnBoxes, NewIsUnknown, Unknown, Reads,
         HasRow, HasBox
<1>17. CASE Unstores(p)
  BY <1>0, <1>17
     DEF Unstores, Keeps, Frame, OwnBoxes, NewIsUnknown, Unknown, Reads,
         HasRow, HasBox
<1>18. CASE Unregisters(p)
  BY <1>0, <1>18
     DEF Unregisters, SameBoxes, HoldsNothing, Outside, Frame, OwnBoxes,
         NewIsUnknown, Unknown, Reads, HasRow, HasBox
<1>. QED
  BY <1>1, <1>2, <1>3, <1>4, <1>5, <1>6, <1>7, <1>8, <1>9, <1>10, <1>11, <1>12,
     <1>13, <1>14, <1>15, <1>16, <1>17, <1>18
     DEF Effect

\* Who has suspended a sandbox has a snapshot.
TakesOne == \A q \in Callers : pc[q] = "park" => taken[q] # None

\* A suspension about to mark its row has a snapshot.
LEMMA TakesOneHolds ==
    ASSUME SandboxInv
    PROVE  TakesOne
<1>1. backend \in {"pause", "store"}
  BY SandboxAssumption DEF SandboxInv, TypeOK, SandboxAssumption
<1>2. PlacesAreKnown /\ PausedInPlace /\ SnapshotsAreOwn
  BY DEF SandboxInv
<1>. QED
  BY <1>1, <1>2, NoneIsNoRow
     DEF TakesOne, PlacesAreKnown, PausedInPlace, SnapshotsAreOwn, HasBox

\* Before its first snapshot a row names its first sandbox.
LEMMA FirstStep ==
    ASSUME SandboxInv, NEW p \in Callers, Frame(p), Effect(p)
    PROVE  FirstIsKept'
<1>z. TakesOne
  BY TakesOneHolds
<1>0. /\ None \notin Boxes /\ None \notin Nat /\ Nothing.live = None
      /\ Nothing.snapshot = None /\ sandboxId \in Boxes \cup {None}
      /\ backend \in {"pause", "store"}
      /\ uuid[p] \in Boxes \cup {None} /\ handle[p] \in Boxes \cup {None}
      /\ row[p].live \in Boxes \cup {None} /\ row[p].snapshot \in Nat \cup {None}
      /\ \A r \in Callers :
            /\ pc[r] \in HasRow => uuid[r] \in Boxes
            /\ pc[r] \in HasBox => handle[r] \in Boxes
            /\ pc[r] \notin HasBox => handle[r] = None
      /\ \A d \in Boxes : registry[d] # None =>
            /\ registry[d].live \in Boxes \cup {None}
            /\ registry[d].snapshot \in Nat \cup {None}
      /\ FirstIsKept /\ SnapshotsStay /\ TakesOne
  BY <1>z, InvGives DEF SandboxInv
<1>1. CASE Forgets(p)
  BY <1>0, <1>1
     DEF Forgets, SameWorld, HoldsNothing, Outside, Frame, FirstIsKept, Reads,
         HasRow, HasBox
<1>2. CASE Idles(p)
  BY <1>0, <1>2
     DEF Idles, SameWorld, Keeps, Outside, Frame, FirstIsKept, Reads, HasRow,
         HasBox
<1>3. CASE Works(p)
  BY <1>0, <1>3
     DEF Works, SameWorld, Keeps, Working, Frame, FirstIsKept, Reads, HasRow,
         HasBox
<1>4. CASE Chooses(p)
  BY <1>0, <1>4
     DEF Chooses, SameWorld, Outside, Frame, FirstIsKept, Reads, HasRow, HasBox
<1>5. CASE ReadsRow(p)
  BY <1>0, <1>5 DEF ReadsRow, SameWorld, Frame, FirstIsKept, Reads, HasRow, HasBox
<1>6. CASE Seeks(p)
  BY <1>0, <1>6 DEF Seeks, SameWorld, Frame, FirstIsKept, Reads, HasRow, HasBox
<1>7. CASE Connects(p)
  BY <1>0, <1>7 DEF Connects, SameRows, Frame, FirstIsKept, Reads, HasRow, HasBox
<1>8. CASE Creates(p)
  BY <1>0, <1>8
     DEF Creates, SameRows, Keeps, HoldsNothing, Outside, Frame, FirstIsKept,
         Reads, HasRow, HasBox
<1>9. CASE Marks(p)
  BY <1>0, <1>9 DEF Marks, SameBoxes, Keeps, Frame, FirstIsKept, SnapshotsStay, Reads, HasRow
<1>10. CASE Inserts(p)
  BY <1>0, <1>10 DEF Inserts, SameBoxes, Frame, FirstIsKept, Reads, HasRow, HasBox
<1>11. CASE Undoes(p)
  BY <1>0, <1>11
     DEF Undoes, SameRows, HoldsNothing, Outside, Frame, FirstIsKept, Reads,
         HasRow, HasBox
<1>12. CASE Pauses(p)
  BY <1>0, <1>12 DEF Pauses, SameRows, Frame, FirstIsKept, Reads, HasRow, HasBox
<1>13. CASE Stores(p)
  BY <1>0, <1>13 DEF Stores, Frame, FirstIsKept, Reads, HasRow, HasBox
<1>14. CASE Removes(p)
  BY <1>0, <1>14
     DEF Removes, SameRows, Keeps, Frame, FirstIsKept, Reads, HasRow, HasBox
<1>15. CASE Parks(p)
  BY <1>0, <1>15 DEF Parks, SameBoxes, HoldsNothing, Outside, Frame, FirstIsKept, TakesOne, Reads
<1>16. CASE Kills(p)
  BY <1>0, <1>16
     DEF Kills, SameRows, Keeps, Frame, FirstIsKept, Reads, HasRow, HasBox
<1>17. CASE Unstores(p)
  BY <1>0, <1>17 DEF Unstores, Keeps, Frame, FirstIsKept, Reads, HasRow, HasBox
<1>18. CASE Unregisters(p)
  BY <1>0, <1>18
     DEF Unregisters, SameBoxes, HoldsNothing, Outside, Frame, FirstIsKept,
         Reads, HasRow, HasBox
<1>. QED
  BY <1>1, <1>2, <1>3, <1>4, <1>5, <1>6, <1>7, <1>8, <1>9, <1>10, <1>11, <1>12,
     <1>13, <1>14, <1>15, <1>16, <1>17, <1>18
     DEF Effect

\* A row that has had a snapshot has one.
LEMMA SnapshotsStep ==
    ASSUME SandboxInv, NEW p \in Callers, Frame(p), Effect(p)
    PROVE  SnapshotsStay'
<1>z. TakesOne
  BY TakesOneHolds
<1>0. /\ None \notin Boxes /\ None \notin Nat /\ Nothing.live = None
      /\ Nothing.snapshot = None /\ sandboxId \in Boxes \cup {None}
      /\ backend \in {"pause", "store"}
      /\ uuid[p] \in Boxes \cup {None} /\ handle[p] \in Boxes \cup {None}
      /\ row[p].live \in Boxes \cup {None} /\ row[p].snapshot \in Nat \cup {None}
      /\ \A r \in Callers :
            /\ pc[r] \in HasRow => uuid[r] \in Boxes
            /\ pc[r] \in HasBox => handle[r] \in Boxes
            /\ pc[r] \notin HasBox => handle[r] = None
      /\ \A d \in Boxes : registry[d] # None =>
            /\ registry[d].live \in Boxes \cup {None}
            /\ registry[d].snapshot \in Nat \cup {None}
      /\ SnapshotsStay /\ FirstIsKept /\ PausedInPlace /\ NewIsUnknown /\ TakesOne
  BY <1>z, InvGives DEF SandboxInv
<1>1. CASE Forgets(p)
  BY <1>0, <1>1
     DEF Forgets, SameWorld, HoldsNothing, Outside, Frame, SnapshotsStay,
         Reads, HasRow, HasBox
<1>2. CASE Idles(p)
  BY <1>0, <1>2
     DEF Idles, SameWorld, Keeps, Outside, Frame, SnapshotsStay, Reads, HasRow,
         HasBox
<1>3. CASE Works(p)
  BY <1>0, <1>3
     DEF Works, SameWorld, Keeps, Working, Frame, SnapshotsStay, Reads, HasRow,
         HasBox
<1>4. CASE Chooses(p)
  BY <1>0, <1>4
     DEF Chooses, SameWorld, Outside, Frame, SnapshotsStay, Reads, HasRow,
         HasBox
<1>5. CASE ReadsRow(p)
  BY <1>0, <1>5
     DEF ReadsRow, SameWorld, Frame, SnapshotsStay, Reads, HasRow, HasBox
<1>6. CASE Seeks(p)
  BY <1>0, <1>6 DEF Seeks, SameWorld, Frame, SnapshotsStay, Reads, HasRow, HasBox
<1>7. CASE Connects(p)
  <2>1. pc[p] = "resume" => handle'[p] = uuid[p]
    <3>1. CASE pc[p] = "resume" /\ row[p].snapshot = None
      BY <1>0, <1>7, <3>1 DEF Connects, FirstIsKept, Reads
    <3>2. CASE pc[p] = "resume" /\ row[p].snapshot # None
      BY <1>0, <1>7, <3>2 DEF Connects, PausedInPlace, Restores, Reads, Nothing
    <3>. QED
      BY <3>1, <3>2
  <2>. QED
    BY <1>0, <1>7, <2>1 DEF Connects, SameRows, Frame, SnapshotsStay, Reads
<1>8. CASE Creates(p)
  BY <1>0, <1>8
     DEF Creates, SameRows, Keeps, HoldsNothing, Outside, Frame, SnapshotsStay,
         Reads, HasRow, HasBox
<1>9. CASE Marks(p)
  BY <1>0, <1>9
     DEF Marks, SameBoxes, Keeps, Frame, SnapshotsStay, Reads, HasRow, HasBox
<1>10. CASE Inserts(p)
  BY <1>0, <1>10 DEF Inserts, SameBoxes, Frame, SnapshotsStay, NewIsUnknown,
     Unknown, Reads, HasRow, HasBox
<1>11. CASE Undoes(p)
  BY <1>0, <1>11
     DEF Undoes, SameRows, HoldsNothing, Outside, Frame, SnapshotsStay, Reads,
         HasRow, HasBox
<1>12. CASE Pauses(p)
  BY <1>0, <1>12 DEF Pauses, SameRows, Frame, SnapshotsStay, Reads, HasRow, HasBox
<1>13. CASE Stores(p)
  BY <1>0, <1>13 DEF Stores, Frame, SnapshotsStay, Reads, HasRow, HasBox
<1>14. CASE Removes(p)
  BY <1>0, <1>14
     DEF Removes, SameRows, Keeps, Frame, SnapshotsStay, Reads, HasRow, HasBox
<1>15. CASE Parks(p)
  BY <1>0, <1>15 DEF Parks, SameBoxes, HoldsNothing, Outside, Frame,
     SnapshotsStay, TakesOne, Reads, HasRow
<1>16. CASE Kills(p)
  BY <1>0, <1>16
     DEF Kills, SameRows, Keeps, Frame, SnapshotsStay, Reads, HasRow, HasBox
<1>17. CASE Unstores(p)
  BY <1>0, <1>17 DEF Unstores, Keeps, Frame, SnapshotsStay, Reads, HasRow, HasBox
<1>18. CASE Unregisters(p)
  BY <1>0, <1>18
     DEF Unregisters, SameBoxes, HoldsNothing, Outside, Frame, SnapshotsStay,
         Reads, HasRow, HasBox
<1>. QED
  BY <1>1, <1>2, <1>3, <1>4, <1>5, <1>6, <1>7, <1>8, <1>9, <1>10, <1>11, <1>12,
     <1>13, <1>14, <1>15, <1>16, <1>17, <1>18
     DEF Effect

\* A provider that pauses knows one sandbox of a row.
LEMMA InPlaceStep ==
    ASSUME SandboxInv, NEW p \in Callers, Frame(p), Effect(p)
    PROVE  PausedInPlace'
<1>0. /\ None \notin Boxes /\ None \notin Nat /\ Nothing.live = None
      /\ Nothing.snapshot = None /\ sandboxId \in Boxes \cup {None}
      /\ backend \in {"pause", "store"}
      /\ uuid[p] \in Boxes \cup {None} /\ handle[p] \in Boxes \cup {None}
      /\ row[p].live \in Boxes \cup {None} /\ row[p].snapshot \in Nat \cup {None}
      /\ \A r \in Callers :
            /\ pc[r] \in HasRow => uuid[r] \in Boxes
            /\ pc[r] \in HasBox => handle[r] \in Boxes
            /\ pc[r] \notin HasBox => handle[r] = None
      /\ \A d \in Boxes : registry[d] # None =>
            /\ registry[d].live \in Boxes \cup {None}
            /\ registry[d].snapshot \in Nat \cup {None}
      /\ PausedInPlace
  BY InvGives DEF SandboxInv
<1>1. CASE Forgets(p)
  BY <1>0, <1>1
     DEF Forgets, SameWorld, HoldsNothing, Outside, Frame, PausedInPlace,
         Reads, HasRow, HasBox
<1>2. CASE Idles(p)
  BY <1>0, <1>2
     DEF Idles, SameWorld, Keeps, Outside, Frame, PausedInPlace, Reads, HasRow,
         HasBox
<1>3. CASE Works(p)
  BY <1>0, <1>3
     DEF Works, SameWorld, Keeps, Working, Frame, PausedInPlace, Reads, HasRow,
         HasBox
<1>4. CASE Chooses(p)
  BY <1>0, <1>4
     DEF Chooses, SameWorld, Outside, Frame, PausedInPlace, Reads, HasRow,
         HasBox
<1>5. CASE ReadsRow(p)
  BY <1>0, <1>5
     DEF ReadsRow, SameWorld, Frame, PausedInPlace, Reads, HasRow, HasBox
<1>6. CASE Seeks(p)
  BY <1>0, <1>6 DEF Seeks, SameWorld, Frame, PausedInPlace, Reads, HasRow, HasBox
<1>7. CASE Connects(p)
  BY <1>0, <1>7
     DEF Connects, SameRows, Frame, PausedInPlace, Reads, HasRow, HasBox
<1>8. CASE Creates(p)
  BY <1>0, <1>8
     DEF Creates, SameRows, Keeps, HoldsNothing, Outside, Frame, PausedInPlace,
         Reads, HasRow, HasBox
<1>9. CASE Marks(p)
  BY <1>0, <1>9
     DEF Marks, SameBoxes, Keeps, Frame, PausedInPlace, Reads, HasRow, HasBox
<1>10. CASE Inserts(p)
  BY <1>0, <1>10
     DEF Inserts, SameBoxes, Frame, PausedInPlace, Reads, HasRow, HasBox
<1>11. CASE Undoes(p)
  BY <1>0, <1>11
     DEF Undoes, SameRows, HoldsNothing, Outside, Frame, PausedInPlace, Reads,
         HasRow, HasBox
<1>12. CASE Pauses(p)
  BY <1>0, <1>12 DEF Pauses, SameRows, Frame, PausedInPlace, Reads, HasRow, HasBox
<1>13. CASE Stores(p)
  BY <1>0, <1>13 DEF Stores, Frame, PausedInPlace, Reads, HasRow, HasBox
<1>14. CASE Removes(p)
  BY <1>0, <1>14
     DEF Removes, SameRows, Keeps, Frame, PausedInPlace, Reads, HasRow, HasBox
<1>15. CASE Parks(p)
  BY <1>0, <1>15
     DEF Parks, SameBoxes, HoldsNothing, Outside, Frame, PausedInPlace, Reads,
         HasRow, HasBox
<1>16. CASE Kills(p)
  BY <1>0, <1>16
     DEF Kills, SameRows, Keeps, Frame, PausedInPlace, Reads, HasRow, HasBox
<1>17. CASE Unstores(p)
  BY <1>0, <1>17 DEF Unstores, Keeps, Frame, PausedInPlace, Reads, HasRow, HasBox
<1>18. CASE Unregisters(p)
  BY <1>0, <1>18
     DEF Unregisters, SameBoxes, HoldsNothing, Outside, Frame, PausedInPlace,
         Reads, HasRow, HasBox
<1>. QED
  BY <1>1, <1>2, <1>3, <1>4, <1>5, <1>6, <1>7, <1>8, <1>9, <1>10, <1>11, <1>12,
     <1>13, <1>14, <1>15, <1>16, <1>17, <1>18
     DEF Effect

\* A provider that pauses: what runs is registered, or about to be.
LEMMA AliveStep ==
    ASSUME SandboxInv, NEW p \in Callers, Frame(p), Effect(p),
           backend = "pause", NEW b \in Boxes \ lost', Alive(b)'
    PROVE  \/ registry'[b] # None
           \/ \E q \in Callers : pc'[q] = "insert" /\ handle'[q] = b
<1>0. /\ None \notin Boxes /\ None \notin Nat /\ Nothing.live = None
      /\ Nothing.snapshot = None /\ sandboxId \in Boxes \cup {None}
      /\ backend \in {"pause", "store"}
      /\ uuid[p] \in Boxes \cup {None} /\ handle[p] \in Boxes \cup {None}
      /\ row[p].live \in Boxes \cup {None} /\ row[p].snapshot \in Nat \cup {None}
      /\ \A r \in Callers :
            /\ pc[r] \in HasRow => uuid[r] \in Boxes
            /\ pc[r] \in HasBox => handle[r] \in Boxes
            /\ pc[r] \notin HasBox => handle[r] = None
      /\ \A d \in Boxes : registry[d] # None =>
            /\ registry[d].live \in Boxes \cup {None}
            /\ registry[d].snapshot \in Nat \cup {None}
      /\ PausedIsRegistered /\ PausedInPlace /\ NewIsUnknown
  BY InvGives DEF SandboxInv
<1>1. CASE Forgets(p)
  BY <1>0, <1>1
     DEF Forgets, SameWorld, HoldsNothing, Outside, Frame, PausedIsRegistered,
         Alive, HasRow, HasBox
<1>2. CASE Idles(p)
  BY <1>0, <1>2
     DEF Idles, SameWorld, Keeps, Outside, Frame, PausedIsRegistered, Alive,
         HasRow, HasBox
<1>3. CASE Works(p)
  BY <1>0, <1>3
     DEF Works, SameWorld, Keeps, Working, Frame, PausedIsRegistered, Alive,
         HasRow, HasBox
<1>4. CASE Chooses(p)
  BY <1>0, <1>4
     DEF Chooses, SameWorld, Outside, Frame, PausedIsRegistered, Alive, HasRow,
         HasBox
<1>5. CASE ReadsRow(p)
  BY <1>0, <1>5
     DEF ReadsRow, SameWorld, Frame, PausedIsRegistered, Alive, HasRow, HasBox
<1>6. CASE Seeks(p)
  BY <1>0, <1>6
     DEF Seeks, SameWorld, Frame, PausedIsRegistered, Alive, HasRow, HasBox
<1>7. CASE Connects(p)
  BY <1>0, <1>7
     DEF Connects, SameRows, Frame, PausedIsRegistered, Alive, HasRow, HasBox
<1>8. CASE Creates(p)
  BY <1>0, <1>8
     DEF Creates, SameRows, Keeps, HoldsNothing, Outside, Frame,
         PausedIsRegistered, Alive, HasRow, HasBox
<1>9. CASE Marks(p)
  BY <1>0, <1>9
     DEF Marks, SameBoxes, Keeps, Frame, PausedIsRegistered, Alive, HasRow,
         HasBox
<1>10. CASE Inserts(p)
  BY <1>0, <1>10
     DEF Inserts, SameBoxes, Frame, PausedIsRegistered, Alive, HasRow, HasBox
<1>11. CASE Undoes(p)
  BY <1>0, <1>11
     DEF Undoes, SameRows, HoldsNothing, Outside, Frame, PausedIsRegistered,
         Alive, HasRow, HasBox
<1>12. CASE Pauses(p)
  BY <1>0, <1>12
     DEF Pauses, SameRows, Frame, PausedIsRegistered, Alive, HasRow, HasBox
<1>13. CASE Stores(p)
  BY <1>0, <1>13 DEF Stores, Frame, PausedIsRegistered, Alive, HasRow, HasBox
<1>14. CASE Removes(p)
  BY <1>0, <1>14
     DEF Removes, SameRows, Keeps, Frame, PausedIsRegistered, Alive, HasRow,
         HasBox
<1>15. CASE Parks(p)
  BY <1>0, <1>15
     DEF Parks, SameBoxes, HoldsNothing, Outside, Frame, PausedIsRegistered,
         Alive, HasRow, HasBox
<1>16. CASE Kills(p)
  BY <1>0, <1>16
     DEF Kills, SameRows, Keeps, Frame, PausedIsRegistered, Alive, HasRow,
         HasBox
<1>17. CASE Unstores(p)
  BY <1>0, <1>17
     DEF Unstores, Keeps, Frame, PausedIsRegistered, Alive, HasRow, HasBox
<1>18. CASE Unregisters(p)
  BY <1>0, <1>18
     DEF Unregisters, SameBoxes, HoldsNothing, Outside, Frame,
         PausedIsRegistered, Alive, HasRow, HasBox
<1>. QED
  BY <1>1, <1>2, <1>3, <1>4, <1>5, <1>6, <1>7, <1>8, <1>9, <1>10, <1>11, <1>12,
     <1>13, <1>14, <1>15, <1>16, <1>17, <1>18
     DEF Effect

\* What is registered is there, or somebody removed it.
LEMMA RegisteredStep ==
    ASSUME SandboxInv, NEW p \in Callers, Frame(p), Effect(p),
           backend = "pause", NEW b \in Boxes \ lost', registry'[b] # None
    PROVE  \/ Alive(b)'
           \/ \E q \in Callers : uuid'[q] = b /\ pc'[q] \in {"unstore", "unregister"}
<1>0. /\ None \notin Boxes /\ None \notin Nat /\ Nothing.live = None
      /\ Nothing.snapshot = None /\ sandboxId \in Boxes \cup {None}
      /\ backend \in {"pause", "store"}
      /\ uuid[p] \in Boxes \cup {None} /\ handle[p] \in Boxes \cup {None}
      /\ row[p].live \in Boxes \cup {None} /\ row[p].snapshot \in Nat \cup {None}
      /\ \A r \in Callers :
            /\ pc[r] \in HasRow => uuid[r] \in Boxes
            /\ pc[r] \in HasBox => handle[r] \in Boxes
            /\ pc[r] \notin HasBox => handle[r] = None
      /\ \A d \in Boxes : registry[d] # None =>
            /\ registry[d].live \in Boxes \cup {None}
            /\ registry[d].snapshot \in Nat \cup {None}
      /\ PausedIsRegistered /\ PausedInPlace /\ NewIsUnknown
  BY InvGives DEF SandboxInv
<1>1. CASE Forgets(p)
  BY <1>0, <1>1
     DEF Forgets, SameWorld, HoldsNothing, Outside, Frame, PausedIsRegistered,
         Alive, Between
<1>2. CASE Idles(p)
  BY <1>0, <1>2
     DEF Idles, SameWorld, Keeps, Outside, Frame, PausedIsRegistered, Alive,
         HasRow, HasBox
<1>3. CASE Works(p)
  BY <1>0, <1>3
     DEF Works, SameWorld, Keeps, Working, Frame, PausedIsRegistered, Alive,
         HasRow, HasBox
<1>4. CASE Chooses(p)
  BY <1>0, <1>4
     DEF Chooses, SameWorld, Outside, Frame, PausedIsRegistered, Alive, HasRow,
         HasBox
<1>5. CASE ReadsRow(p)
  BY <1>0, <1>5
     DEF ReadsRow, SameWorld, Frame, PausedIsRegistered, Alive, HasRow, HasBox
<1>6. CASE Seeks(p)
  BY <1>0, <1>6
     DEF Seeks, SameWorld, Frame, PausedIsRegistered, Alive, HasRow, HasBox
<1>7. CASE Connects(p)
  BY <1>0, <1>7
     DEF Connects, SameRows, Frame, PausedIsRegistered, Alive, HasRow, HasBox
<1>8. CASE Creates(p)
  BY <1>0, <1>8
     DEF Creates, SameRows, Keeps, HoldsNothing, Outside, Frame,
         PausedIsRegistered, Alive, HasRow, HasBox
<1>9. CASE Marks(p)
  BY <1>0, <1>9
     DEF Marks, SameBoxes, Keeps, Frame, PausedIsRegistered, Alive, HasRow,
         HasBox
<1>10. CASE Inserts(p)
  BY <1>0, <1>10
     DEF Inserts, SameBoxes, Frame, PausedIsRegistered, Alive, HasBox,
         NewIsUnknown
<1>11. CASE Undoes(p)
  BY <1>0, <1>11
     DEF Undoes, SameRows, HoldsNothing, Outside, Frame, PausedIsRegistered,
         Alive, HasBox, NewIsUnknown, Unknown
<1>12. CASE Pauses(p)
  BY <1>0, <1>12
     DEF Pauses, SameRows, Frame, PausedIsRegistered, Alive, HasRow, HasBox
<1>13. CASE Stores(p)
  BY <1>0, <1>13 DEF Stores, Frame, PausedIsRegistered, Alive, HasRow, HasBox
<1>14. CASE Removes(p)
  BY <1>0, <1>14 DEF Removes, SameRows, Keeps, Frame, PausedInPlace
<1>15. CASE Parks(p)
  BY <1>0, <1>15
     DEF Parks, SameBoxes, HoldsNothing, Outside, Frame, PausedIsRegistered,
         Alive, HasRow, HasBox
<1>16. CASE Kills(p)
  BY <1>0, <1>16
     DEF Kills, SameRows, Keeps, Frame, PausedIsRegistered, Alive,
         PausedInPlace, Reads
<1>17. CASE Unstores(p)
  BY <1>0, <1>17
     DEF Unstores, Keeps, Frame, PausedIsRegistered, Alive, HasRow, HasBox
<1>18. CASE Unregisters(p)
  BY <1>0, <1>18
     DEF Unregisters, SameBoxes, HoldsNothing, Outside, Frame,
         PausedIsRegistered, Alive, HasRow, HasBox
<1>. QED
  BY <1>1, <1>2, <1>3, <1>4, <1>5, <1>6, <1>7, <1>8, <1>9, <1>10, <1>11, <1>12,
     <1>13, <1>14, <1>15, <1>16, <1>17, <1>18
     DEF Effect

\* What is being unregistered is gone.
LEMMA GoneStep ==
    ASSUME SandboxInv, NEW p \in Callers, Frame(p), Effect(p),
           backend = "pause", NEW q \in Callers, uuid'[q] \notin lost',
           \/ pc'[q] \in {"unstore", "unregister"}
           \/ pc'[q] = "kill" /\ row'[q] = Nothing
    PROVE  state'[uuid'[q]] = "gone"
<1>0. /\ None \notin Boxes /\ None \notin Nat /\ Nothing.live = None
      /\ Nothing.snapshot = None /\ sandboxId \in Boxes \cup {None}
      /\ backend \in {"pause", "store"}
      /\ uuid[p] \in Boxes \cup {None} /\ handle[p] \in Boxes \cup {None}
      /\ row[p].live \in Boxes \cup {None} /\ row[p].snapshot \in Nat \cup {None}
      /\ \A r \in Callers :
            /\ pc[r] \in HasRow => uuid[r] \in Boxes
            /\ pc[r] \in HasBox => handle[r] \in Boxes
            /\ pc[r] \notin HasBox => handle[r] = None
      /\ \A d \in Boxes : registry[d] # None =>
            /\ registry[d].live \in Boxes \cup {None}
            /\ registry[d].snapshot \in Nat \cup {None}
      /\ PausedIsRegistered /\ PausedInPlace /\ NewIsUnknown
  BY InvGives DEF SandboxInv
<1>1. CASE Forgets(p)
  BY <1>0, <1>1
     DEF Forgets, SameWorld, HoldsNothing, Outside, Frame, PausedIsRegistered,
         Alive, HasRow, HasBox
<1>2. CASE Idles(p)
  BY <1>0, <1>2
     DEF Idles, SameWorld, Keeps, Outside, Frame, PausedIsRegistered, Alive,
         HasRow, HasBox
<1>3. CASE Works(p)
  BY <1>0, <1>3
     DEF Works, SameWorld, Keeps, Working, Frame, PausedIsRegistered, Alive,
         HasRow, HasBox
<1>4. CASE Chooses(p)
  BY <1>0, <1>4
     DEF Chooses, SameWorld, Outside, Frame, PausedIsRegistered, Alive, HasRow,
         HasBox
<1>5. CASE ReadsRow(p)
  <2>1. CASE q = p /\ pc'[p] = "kill" /\ row'[p] = Nothing
    <3>1. pc[p] = "doom" /\ uuid[p] \in Boxes
      BY <1>0, <1>5, <2>1 DEF ReadsRow, HasRow
    <3>2. registry[uuid[p]] = None
      BY <1>0, <1>5, <2>1, <3>1 DEF ReadsRow, PausedInPlace
    <3>3. ~Alive(uuid[p])
      <4>1. uuid[p] \notin lost
        BY <1>5, <2>1 DEF ReadsRow, Frame
      <4>. QED
        BY <1>0, <1>5, <3>1, <3>2, <4>1 DEF PausedIsRegistered, NewIsUnknown, Unknown
    <3>4. state[uuid[p]] # "none"
      BY <1>0, <3>1 DEF NewIsUnknown, Unknown
    <3>5. state[uuid[p]] \in {"none", "running", "paused", "gone"}
      BY <3>1 DEF SandboxInv, TypeOK
    <3>. QED
      BY <1>5, <2>1, <3>3, <3>4, <3>5 DEF ReadsRow, SameWorld, Alive
  <2>2. CASE q # p
    BY <1>0, <1>5, <2>2 DEF ReadsRow, SameWorld, Frame, PausedIsRegistered
  <2>. QED
    BY <1>5, <2>1, <2>2 DEF ReadsRow
<1>6. CASE Seeks(p)
  BY <1>0, <1>6
     DEF Seeks, SameWorld, Frame, PausedIsRegistered, Alive, HasRow, HasBox
<1>7. CASE Connects(p)
  BY <1>0, <1>7
     DEF Connects, SameRows, Frame, PausedIsRegistered, Alive, HasRow, HasBox
<1>8. CASE Creates(p)
  BY <1>0, <1>8
     DEF Creates, SameRows, Keeps, HoldsNothing, Outside, Frame,
         PausedIsRegistered, Alive, HasRow, HasBox
<1>9. CASE Marks(p)
  BY <1>0, <1>9
     DEF Marks, SameBoxes, Keeps, Frame, PausedIsRegistered, Alive, HasRow,
         HasBox
<1>10. CASE Inserts(p)
  BY <1>0, <1>10
     DEF Inserts, SameBoxes, Frame, PausedIsRegistered, Alive, HasRow, HasBox
<1>11. CASE Undoes(p)
  BY <1>0, <1>11
     DEF Undoes, SameRows, HoldsNothing, Outside, Frame, PausedIsRegistered,
         Alive, HasRow, HasBox
<1>12. CASE Pauses(p)
  BY <1>0, <1>12
     DEF Pauses, SameRows, Frame, PausedIsRegistered, Alive, HasRow, HasBox
<1>13. CASE Stores(p)
  BY <1>0, <1>13 DEF Stores, Frame, PausedIsRegistered, Alive, HasRow, HasBox
<1>14. CASE Removes(p)
  BY <1>0, <1>14
     DEF Removes, SameRows, Keeps, Frame, PausedIsRegistered, Alive, HasRow,
         HasBox
<1>15. CASE Parks(p)
  BY <1>0, <1>15
     DEF Parks, SameBoxes, HoldsNothing, Outside, Frame, PausedIsRegistered,
         Alive, HasRow, HasBox
<1>16. CASE Kills(p)
  <2>1. uuid'[q] \in Boxes /\ uuid'[q] = uuid[q]
    BY <1>0, <1>16 DEF Kills, Keeps, Frame, HasRow
  <2>2. CASE state[uuid[q]] = "gone"
    BY <1>16, <2>1, <2>2 DEF Kills
  <2>3. CASE state[uuid[q]] # "gone"
    <3>1. q = p /\ row[p] # Nothing
      BY <1>0, <1>16, <2>3 DEF Kills, Keeps, Frame, PausedIsRegistered
    <3>2. row[p].live = uuid[p]
      BY <1>0, <1>16, <3>1 DEF Kills, PausedInPlace, Reads
    <3>. QED
      BY <1>0, <1>16, <2>1, <3>1, <3>2 DEF Kills
  <2>. QED
    BY <2>2, <2>3
<1>17. CASE Unstores(p)
  BY <1>0, <1>17
     DEF Unstores, Keeps, Frame, PausedIsRegistered, Alive, HasRow, HasBox
<1>18. CASE Unregisters(p)
  BY <1>0, <1>18
     DEF Unregisters, SameBoxes, HoldsNothing, Outside, Frame,
         PausedIsRegistered, Alive, HasRow, HasBox
<1>. QED
  BY <1>1, <1>2, <1>3, <1>4, <1>5, <1>6, <1>7, <1>8, <1>9, <1>10, <1>11, <1>12,
     <1>13, <1>14, <1>15, <1>16, <1>17, <1>18
     DEF Effect

\* What runs is registered, and what is registered is there.
LEMMA PausedStep ==
    ASSUME SandboxInv, NEW p \in Callers, Frame(p), Effect(p)
    PROVE  PausedIsRegistered'
  BY AliveStep, RegisteredStep, GoneStep DEF PausedIsRegistered, Frame

\* A new snapshot has a number that no snapshot has had.
LEMMA SavesAre ==
    ASSUME SandboxInv
    PROVE  saves \in Nat /\ 1 .. saves \subseteq Snapshots
  BY SandboxAssumption DEF SandboxInv, TypeOK, SandboxAssumption, Snapshots

\* A snapshot belongs to one row.
LEMMA OwnSnapshotsStep ==
    ASSUME SandboxInv, NEW p \in Callers, Frame(p), Effect(p), backend = "store"
    PROVE  SnapshotsAreOwn'
<1>z. saves \in Nat /\ 1 .. saves \subseteq Snapshots
  BY SavesAre
<1>0. /\ None \notin Boxes /\ None \notin Nat /\ Nothing.live = None
      /\ Nothing.snapshot = None /\ sandboxId \in Boxes \cup {None}
      /\ backend \in {"pause", "store"}
      /\ uuid[p] \in Boxes \cup {None} /\ handle[p] \in Boxes \cup {None}
      /\ row[p].live \in Boxes \cup {None} /\ row[p].snapshot \in Nat \cup {None}
      /\ \A r \in Callers :
            /\ pc[r] \in HasRow => uuid[r] \in Boxes
            /\ pc[r] \in HasBox => handle[r] \in Boxes
            /\ pc[r] \notin HasBox => handle[r] = None
      /\ \A d \in Boxes : registry[d] # None =>
            /\ registry[d].live \in Boxes \cup {None}
            /\ registry[d].snapshot \in Nat \cup {None}
      /\ SnapshotsAreOwn /\ saves \in Nat /\ 1 .. saves \subseteq Snapshots
  BY <1>z, InvGives DEF SandboxInv
<1>1. CASE Forgets(p)
  BY <1>0, <1>1
     DEF Forgets, SameWorld, HoldsNothing, Outside, Frame, SnapshotsAreOwn,
         Reads, HasRow, HasBox
<1>2. CASE Idles(p)
  BY <1>0, <1>2
     DEF Idles, SameWorld, Keeps, Outside, Frame, SnapshotsAreOwn, Reads,
         HasRow, HasBox
<1>3. CASE Works(p)
  BY <1>0, <1>3
     DEF Works, SameWorld, Keeps, Working, Frame, SnapshotsAreOwn, Reads,
         HasRow, HasBox
<1>4. CASE Chooses(p)
  BY <1>0, <1>4
     DEF Chooses, SameWorld, Outside, Frame, SnapshotsAreOwn, Reads, HasRow,
         HasBox
<1>5. CASE ReadsRow(p)
  BY <1>0, <1>5
     DEF ReadsRow, SameWorld, Frame, SnapshotsAreOwn, Reads, HasRow, HasBox
<1>6. CASE Seeks(p)
  BY <1>0, <1>6
     DEF Seeks, SameWorld, Frame, SnapshotsAreOwn, Reads, HasRow, HasBox
<1>7. CASE Connects(p)
  BY <1>0, <1>7
     DEF Connects, SameRows, Frame, SnapshotsAreOwn, Reads, HasRow, HasBox
<1>8. CASE Creates(p)
  BY <1>0, <1>8
     DEF Creates, SameRows, Keeps, HoldsNothing, Outside, Frame,
         SnapshotsAreOwn, Reads, HasRow, HasBox
<1>9. CASE Marks(p)
  BY <1>0, <1>9
     DEF Marks, SameBoxes, Keeps, Frame, SnapshotsAreOwn, Reads, HasRow, HasBox
<1>10. CASE Inserts(p)
  BY <1>0, <1>10
     DEF Inserts, SameBoxes, Frame, SnapshotsAreOwn, Reads, HasRow, HasBox
<1>11. CASE Undoes(p)
  BY <1>0, <1>11
     DEF Undoes, SameRows, HoldsNothing, Outside, Frame, SnapshotsAreOwn,
         Reads, HasRow, HasBox
<1>12. CASE Pauses(p)
  BY <1>0, <1>12
     DEF Pauses, SameRows, Frame, SnapshotsAreOwn, Reads, HasRow, HasBox
<1>13. CASE Stores(p)
  <2>1. \A b \in Boxes : registry'[b] = registry[b]
    BY <1>13 DEF Stores
  <2>2. \A q \in Callers : row'[q] = row[q] /\ uuid'[q] = uuid[q]
    BY <1>13 DEF Stores, Frame
  <2>3. \A q \in Callers : pc'[q] \in Reads => pc[q] \in Reads
    BY <1>13 DEF Stores, Frame, Reads
  <2>4. saves' = saves + 1 /\ \A n \in 1 .. saves : n \in 1 .. saves' /\ n # saves'
    BY <1>0, <1>13 DEF Stores
  <2>5. \A b \in Boxes : registry'[b] # None /\ registry'[b].snapshot # None =>
          /\ registry'[b].snapshot \in 1 .. saves'
          /\ \A d \in Boxes :
                registry'[d] # None /\ registry'[d].snapshot = registry'[b].snapshot
                    => d = b
          /\ \A q \in Callers :
                pc'[q] \in Reads /\ row'[q].snapshot = registry'[b].snapshot
                    => uuid'[q] = b
    BY <1>0, <2>1, <2>2, <2>3, <2>4 DEF SnapshotsAreOwn
  <2>6. \A q \in Callers : pc'[q] \in Reads /\ row'[q].snapshot # None =>
          row'[q].snapshot \in 1 .. saves'
    BY <1>0, <2>2, <2>3, <2>4 DEF SnapshotsAreOwn
  <2>7. ASSUME NEW q \in Callers, pc'[q] \in {"remove", "park"}
        PROVE  /\ taken'[q] \in 1 .. saves' /\ stored'[taken'[q]] # None
               /\ \A b \in Boxes : registry'[b] # None => registry'[b].snapshot # taken'[q]
               /\ \A r \in Callers :
                     /\ pc'[r] \in Reads => row'[r].snapshot # taken'[q]
                     /\ r # q /\ pc'[r] \in {"remove", "park"} => taken'[r] # taken'[q]
    <3>1. \A r \in Callers : r # p => pc'[r] = pc[r] /\ taken'[r] = taken[r]
      BY <1>13 DEF Frame
    <3>2. taken'[p] = saves' /\ stored'[saves'] # None
      BY <1>13 DEF Stores
    <3>3. saves' \in 1 .. saves'
      BY <1>0, <2>4
    <3>4. CASE q = p
      <4>1. \A r \in Callers \ {p} : pc'[r] \in {"remove", "park"} => taken'[r] \in 1 .. saves
        BY <1>0, <3>1 DEF SnapshotsAreOwn
      <4>2. \A b \in Boxes : registry'[b] # None => registry'[b].snapshot # saves'
        BY <1>0, <2>1, <2>4 DEF SnapshotsAreOwn
      <4>3. \A r \in Callers : pc'[r] \in Reads => row'[r].snapshot # saves'
        BY <1>0, <2>2, <2>3, <2>4 DEF SnapshotsAreOwn
      <4>. QED
        BY <2>4, <3>2, <3>3, <3>4, <4>1, <4>2, <4>3
    <3>5. CASE q # p
      <4>1. /\ pc[q] \in {"remove", "park"} /\ taken'[q] = taken[q]
            /\ taken[q] \in 1 .. saves /\ stored[taken[q]] # None
        BY <1>0, <2>7, <3>1, <3>5 DEF SnapshotsAreOwn
      <4>2. stored'[taken[q]] # None
        BY <1>0, <1>13, <2>4, <4>1 DEF Stores
      <4>3. \A b \in Boxes : registry'[b] # None => registry'[b].snapshot # taken[q]
        BY <1>0, <2>1, <4>1 DEF SnapshotsAreOwn
      <4>4. \A r \in Callers : pc'[r] \in Reads => row'[r].snapshot # taken[q]
        BY <1>0, <2>2, <2>3, <4>1 DEF SnapshotsAreOwn
      <4>5. \A r \in Callers \ {p} :
               r # q /\ pc'[r] \in {"remove", "park"} => taken'[r] # taken[q]
        BY <1>0, <3>1, <4>1 DEF SnapshotsAreOwn
      <4>. QED
        BY <2>4, <3>2, <4>1, <4>2, <4>3, <4>4, <4>5
    <3>. QED
      BY <3>4, <3>5
  <2>. QED
    BY <2>5, <2>6, <2>7 DEF SnapshotsAreOwn
<1>14. CASE Removes(p)
  BY <1>0, <1>14
     DEF Removes, SameRows, Keeps, Frame, SnapshotsAreOwn, Reads, HasRow,
         HasBox
<1>15. CASE Parks(p)
  BY <1>0, <1>15
     DEF Parks, SameBoxes, HoldsNothing, Outside, Frame, SnapshotsAreOwn,
         Reads, HasRow, HasBox
<1>16. CASE Kills(p)
  BY <1>0, <1>16
     DEF Kills, SameRows, Keeps, Frame, SnapshotsAreOwn, Reads, HasRow, HasBox
<1>17. CASE Unstores(p)
  BY <1>0, <1>17
     DEF Unstores, Keeps, Frame, SnapshotsAreOwn, Reads, HasRow, HasBox
<1>18. CASE Unregisters(p)
  BY <1>0, <1>18
     DEF Unregisters, SameBoxes, HoldsNothing, Outside, Frame, SnapshotsAreOwn,
         Reads, HasRow, HasBox
<1>. QED
  BY <1>1, <1>2, <1>3, <1>4, <1>5, <1>6, <1>7, <1>8, <1>9, <1>10, <1>11, <1>12,
     <1>13, <1>14, <1>15, <1>16, <1>17, <1>18
     DEF Effect

\* What a row names is stored, or somebody removed it.
LEMMA StoredStep ==
    ASSUME SandboxInv, NEW p \in Callers, Frame(p), Effect(p),
           backend = "store", NEW b \in Boxes \ lost',
           registry'[b] # None, registry'[b].snapshot # None
    PROVE  \/ stored'[registry'[b].snapshot] # None
           \/ \E q \in Callers : uuid'[q] = b /\ pc'[q] = "unregister"
<1>z. saves \in Nat /\ 1 .. saves \subseteq Snapshots
  BY SavesAre
<1>0. /\ None \notin Boxes /\ None \notin Nat /\ Nothing.live = None
      /\ Nothing.snapshot = None /\ sandboxId \in Boxes \cup {None}
      /\ backend \in {"pause", "store"}
      /\ uuid[p] \in Boxes \cup {None} /\ handle[p] \in Boxes \cup {None}
      /\ row[p].live \in Boxes \cup {None} /\ row[p].snapshot \in Nat \cup {None}
      /\ \A r \in Callers :
            /\ pc[r] \in HasRow => uuid[r] \in Boxes
            /\ pc[r] \in HasBox => handle[r] \in Boxes
            /\ pc[r] \notin HasBox => handle[r] = None
      /\ \A d \in Boxes : registry[d] # None =>
            /\ registry[d].live \in Boxes \cup {None}
            /\ registry[d].snapshot \in Nat \cup {None}
      /\ StoredIsThere /\ SnapshotsAreOwn /\ saves \in Nat /\ 1 .. saves \subseteq Snapshots
  BY <1>z, InvGives DEF SandboxInv
<1>1. CASE Forgets(p)
  BY <1>0, <1>1
     DEF Forgets, SameWorld, HoldsNothing, Outside, Frame, StoredIsThere,
         Between
<1>2. CASE Idles(p)
  BY <1>0, <1>2
     DEF Idles, SameWorld, Keeps, Outside, Frame, StoredIsThere,
         SnapshotsAreOwn, HasRow
<1>3. CASE Works(p)
  BY <1>0, <1>3
     DEF Works, SameWorld, Keeps, Working, Frame, StoredIsThere,
         SnapshotsAreOwn, HasRow
<1>4. CASE Chooses(p)
  BY <1>0, <1>4
     DEF Chooses, SameWorld, Outside, Frame, StoredIsThere, SnapshotsAreOwn,
         HasRow
<1>5. CASE ReadsRow(p)
  BY <1>0, <1>5
     DEF ReadsRow, SameWorld, Frame, StoredIsThere, SnapshotsAreOwn, HasRow
<1>6. CASE Seeks(p)
  BY <1>0, <1>6
     DEF Seeks, SameWorld, Frame, StoredIsThere, SnapshotsAreOwn, HasRow
<1>7. CASE Connects(p)
  BY <1>0, <1>7
     DEF Connects, SameRows, Frame, StoredIsThere, SnapshotsAreOwn, HasRow
<1>8. CASE Creates(p)
  BY <1>0, <1>8
     DEF Creates, SameRows, Keeps, HoldsNothing, Outside, Frame, StoredIsThere,
         SnapshotsAreOwn, HasRow
<1>9. CASE Marks(p)
  BY <1>0, <1>9
     DEF Marks, SameBoxes, Keeps, Frame, StoredIsThere, SnapshotsAreOwn, HasRow
<1>10. CASE Inserts(p)
  BY <1>0, <1>10 DEF Inserts, SameBoxes, Frame, StoredIsThere
<1>11. CASE Undoes(p)
  BY <1>0, <1>11 DEF Undoes, SameRows, HoldsNothing, Outside, Frame, StoredIsThere
<1>12. CASE Pauses(p)
  BY <1>0, <1>12
     DEF Pauses, SameRows, Frame, StoredIsThere, SnapshotsAreOwn, HasRow
<1>13. CASE Stores(p)
  <2>1. registry[b] # None /\ registry[b].snapshot # None /\ registry'[b] = registry[b]
    BY <1>13 DEF Stores
  <2>2. registry[b].snapshot \in Snapshots /\ registry[b].snapshot # saves'
    BY <1>0, <1>13, <2>1 DEF Stores, SnapshotsAreOwn
  <2>. QED
    BY <1>0, <1>13, <2>1, <2>2 DEF Stores, Frame, StoredIsThere
<1>14. CASE Removes(p)
  BY <1>0, <1>14
     DEF Removes, SameRows, Keeps, Frame, StoredIsThere, SnapshotsAreOwn,
         HasRow
<1>15. CASE Parks(p)
  BY <1>0, <1>15
     DEF Parks, SameBoxes, HoldsNothing, Outside, Frame, StoredIsThere,
         SnapshotsAreOwn, HasRow
<1>16. CASE Kills(p)
  BY <1>0, <1>16
     DEF Kills, SameRows, Keeps, Frame, StoredIsThere, SnapshotsAreOwn, HasRow
<1>17. CASE Unstores(p)
  <2>1. registry[b] # None /\ registry[b].snapshot # None /\ registry'[b] = registry[b]
    BY <1>17 DEF Unstores
  <2>2. registry[b].snapshot \in Snapshots
    BY <1>0, <1>17, <2>1 DEF SnapshotsAreOwn
  <2>3. CASE Restores(row[p]) /\ registry[b].snapshot = row[p].snapshot
    BY <1>0, <1>17, <2>1, <2>3 DEF Unstores, Keeps, SnapshotsAreOwn, Reads
  <2>4. CASE stored'[registry[b].snapshot] = stored[registry[b].snapshot]
    BY <1>0, <1>17, <2>1, <2>4 DEF Unstores, Keeps, Frame, StoredIsThere
  <2>. QED
    BY <1>17, <2>2, <2>3, <2>4 DEF Unstores
<1>18. CASE Unregisters(p)
  BY <1>0, <1>18
     DEF Unregisters, SameBoxes, HoldsNothing, Outside, Frame, StoredIsThere,
         SnapshotsAreOwn, HasRow
<1>. QED
  BY <1>1, <1>2, <1>3, <1>4, <1>5, <1>6, <1>7, <1>8, <1>9, <1>10, <1>11, <1>12,
     <1>13, <1>14, <1>15, <1>16, <1>17, <1>18
     DEF Effect

\* A row without a snapshot has its sandbox, or somebody removed it.
LEMMA RunsStep ==
    ASSUME SandboxInv, NEW p \in Callers, Frame(p), Effect(p),
           backend = "store", NEW b \in Boxes \ lost',
           registry'[b] # None, registry'[b].snapshot = None
    PROVE  \/ Alive(b)'
           \/ \E q \in Callers : uuid'[q] = b /\ pc'[q] \in Between
<1>z. TakesOne
  BY TakesOneHolds
<1>0. /\ None \notin Boxes /\ None \notin Nat /\ Nothing.live = None
      /\ Nothing.snapshot = None /\ sandboxId \in Boxes \cup {None}
      /\ backend \in {"pause", "store"}
      /\ uuid[p] \in Boxes \cup {None} /\ handle[p] \in Boxes \cup {None}
      /\ row[p].live \in Boxes \cup {None} /\ row[p].snapshot \in Nat \cup {None}
      /\ \A r \in Callers :
            /\ pc[r] \in HasRow => uuid[r] \in Boxes
            /\ pc[r] \in HasBox => handle[r] \in Boxes
            /\ pc[r] \notin HasBox => handle[r] = None
      /\ \A d \in Boxes : registry[d] # None =>
            /\ registry[d].live \in Boxes \cup {None}
            /\ registry[d].snapshot \in Nat \cup {None}
      /\ StoredIsThere /\ SnapshotsStay /\ OwnBoxes /\ NewIsUnknown
      /\ TakesOne
  BY <1>z, InvGives DEF SandboxInv
<1>1. CASE Forgets(p)
  BY <1>0, <1>1
     DEF Forgets, SameWorld, HoldsNothing, Outside, Frame, StoredIsThere,
         Alive, SnapshotsStay, Between, Reads, HasRow
<1>2. CASE Idles(p)
  BY <1>0, <1>2
     DEF Idles, SameWorld, Keeps, Outside, Frame, StoredIsThere, Alive,
         Between, HasRow
<1>3. CASE Works(p)
  BY <1>0, <1>3
     DEF Works, SameWorld, Keeps, Working, Frame, StoredIsThere, Alive,
         Between, HasRow
<1>4. CASE Chooses(p)
  BY <1>0, <1>4
     DEF Chooses, SameWorld, Outside, Frame, StoredIsThere, Alive, Between,
         HasRow
<1>5. CASE ReadsRow(p)
  BY <1>0, <1>5
     DEF ReadsRow, SameWorld, Frame, StoredIsThere, Alive, Between, HasRow
<1>6. CASE Seeks(p)
  BY <1>0, <1>6 DEF Seeks, SameWorld, Frame, StoredIsThere, Alive, Between, HasRow
<1>7. CASE Connects(p)
  BY <1>0, <1>7
     DEF Connects, SameRows, Frame, StoredIsThere, Alive, Between, HasRow
<1>8. CASE Creates(p)
  BY <1>0, <1>8
     DEF Creates, SameRows, Keeps, HoldsNothing, Outside, Frame, StoredIsThere,
         Alive, Between, HasRow
<1>9. CASE Marks(p)
  BY <1>0, <1>9
     DEF Marks, SameBoxes, Keeps, Frame, StoredIsThere, Alive, Between, HasRow
<1>10. CASE Inserts(p)
  <2>1. CASE b = handle[p]
    BY <1>0, <1>10, <2>1 DEF Inserts, SameBoxes, Alive, NewIsUnknown
  <2>2. CASE b # handle[p]
    <3>1. /\ registry[b] # None /\ registry[b].snapshot = None
          /\ state'[b] = state[b] /\ b \notin lost
      BY <1>10, <2>2 DEF Inserts, SameBoxes, Frame
    <3>2. \A q \in Callers : pc[q] \in Between => pc'[q] = pc[q] /\ uuid'[q] = uuid[q]
      BY <1>10 DEF Inserts, Frame, Between
    <3>. QED
      BY <1>0, <3>1, <3>2 DEF StoredIsThere, Alive
  <2>. QED
    BY <2>1, <2>2
<1>11. CASE Undoes(p)
  BY <1>0, <1>11
     DEF Undoes, SameRows, HoldsNothing, Outside, Frame, StoredIsThere, Alive,
         Between, HasBox, NewIsUnknown, Unknown
<1>12. CASE Pauses(p)
  BY <1>0, <1>12
     DEF Pauses, SameRows, Frame, StoredIsThere, Alive, Between, HasRow
<1>13. CASE Stores(p)
  BY <1>0, <1>13 DEF Stores, Frame, StoredIsThere, Alive, Between, HasRow
<1>14. CASE Removes(p)
  BY <1>0, <1>14
     DEF Removes, SameRows, Keeps, Frame, StoredIsThere, Alive, Between,
         OwnBoxes
<1>15. CASE Parks(p)
  BY <1>0, <1>15
     DEF Parks, SameBoxes, HoldsNothing, Outside, Frame, StoredIsThere, Alive,
         Between, TakesOne
<1>16. CASE Kills(p)
  BY <1>0, <1>16
     DEF Kills, SameRows, Keeps, Frame, StoredIsThere, Alive, Between,
         OwnBoxes, Reads
<1>17. CASE Unstores(p)
  BY <1>0, <1>17 DEF Unstores, Keeps, Frame, StoredIsThere, Alive, Between, HasRow
<1>18. CASE Unregisters(p)
  BY <1>0, <1>18
     DEF Unregisters, SameBoxes, HoldsNothing, Outside, Frame, StoredIsThere,
         Alive, Between, HasRow
<1>. QED
  BY <1>1, <1>2, <1>3, <1>4, <1>5, <1>6, <1>7, <1>8, <1>9, <1>10, <1>11, <1>12,
     <1>13, <1>14, <1>15, <1>16, <1>17, <1>18
     DEF Effect

\* Snapshots are owned and stored as rows say.
LEMMA SnapshotsStored ==
    ASSUME SandboxInv, NEW p \in Callers, Frame(p), Effect(p)
    PROVE  SnapshotsAreOwn' /\ StoredIsThere'
<1>1. SnapshotsAreOwn'
  BY OwnSnapshotsStep DEF SnapshotsAreOwn, Frame
<1>2. StoredIsThere'
  <2>. SUFFICES ASSUME backend = "store", NEW b \in Boxes \ lost', registry'[b] # None
                PROVE  IF registry'[b].snapshot # None
                       THEN \/ stored'[registry'[b].snapshot] # None
                            \/ \E q \in Callers : uuid'[q] = b /\ pc'[q] = "unregister"
                       ELSE \/ Alive(b)'
                            \/ \E q \in Callers : uuid'[q] = b /\ pc'[q] \in Between
    BY DEF StoredIsThere, Frame, Between
  <2>. QED
    BY StoredStep, RunsStep
<1>. QED
  BY <1>1, <1>2

(***************************************************************************)
(* The theorems.                                                           *)
(***************************************************************************)
\* The initial state satisfies the inductive invariant.
LEMMA InvInit == Init => SandboxInv
<1>. SUFFICES ASSUME Init PROVE SandboxInv
  OBVIOUS
<1>. USE SandboxAssumption DEF SandboxAssumption, Init, Nothing
<1>1. TypeOK
  <2>1. AppTypes
    <3>1. deleted \in BOOLEAN
      BY Zenon
    <3>2. 0 \in 0 .. MaxAttempts
      BY DEF MaxAttempts
    <3>3. /\ status \in [Turns -> Statuses] /\ attempts \in [Turns -> 0 .. MaxAttempts]
          /\ published \in [Turns -> SUBSET Turns]
      BY <3>2 DEF Statuses
    <3>4. deletion \in Deletions \cup {"none"} /\ sandboxId \in Boxes \cup {None}
      OBVIOUS
    <3>. QED
      BY <3>1, <3>3, <3>4 DEF AppTypes
  <2>2. StoreTypes
    BY DEF StoreTypes
  <2>3. CallerTypes
    BY DEF CallerTypes, Places, Rows
  <2>4. BoundTypes
    BY DEF BoundTypes
  <2>. QED
    BY <2>1, <2>2, <2>3, <2>4, TypesAre
<1>2. PlacesAreKnown /\ JobsAreCounted
  BY CallersAre DEF PlacesAreKnown, JobsAreCounted, HasRow, HasBox, MaxAttempts
<1>3. NewIsUnknown
  BY NoneIsNoRow DEF NewIsUnknown, Unknown
<1>4. OwnBoxes /\ FirstIsKept /\ SnapshotsStay
  BY DEF OwnBoxes, FirstIsKept, SnapshotsStay, Reads
<1>5. PausedInPlace /\ PausedIsRegistered
  BY DEF PausedInPlace, PausedIsRegistered, Reads, Alive
<1>6. SnapshotsAreOwn /\ StoredIsThere
  BY DEF SnapshotsAreOwn, StoredIsThere, Reads
<1>. QED
  BY <1>1, <1>2, <1>3, <1>4, <1>5, <1>6 DEF SandboxInv

\* Every step of the specification preserves the inductive invariant.
LEMMA InvNext == SandboxInv /\ [Next]_vars => SandboxInv'
<1>. SUFFICES ASSUME SandboxInv, [Next]_vars PROVE SandboxInv'
  OBVIOUS
<1>1. Basis
  BY DEF SandboxInv, Basis
<1>2. /\ TypeOK' /\ JobsAreCounted'
      /\ \/ UNCHANGED vars
         \/ \E p \in Callers : Frame(p) /\ Effect(p)
  BY <1>1, StepEffects
<1>3. CASE UNCHANGED vars
  <2>1. UNCHANGED <<backend, status, attempts, sandboxId, deleted, registry,
                    state, stored, saves, pc, uuid, row, handle, taken, lost>>
    BY <1>3
       DEF vars, app, removal, provider, snapshots, caller, bounds
  <2>2. PlacesAreKnown' /\ NewIsUnknown' /\ OwnBoxes'
    BY <2>1 DEF SandboxInv, PlacesAreKnown, NewIsUnknown, Unknown, OwnBoxes
  <2>3. FirstIsKept' /\ SnapshotsStay' /\ PausedInPlace'
    BY <2>1 DEF SandboxInv, FirstIsKept, SnapshotsStay, PausedInPlace
  <2>4. PausedIsRegistered' /\ SnapshotsAreOwn' /\ StoredIsThere'
    BY <2>1
       DEF SandboxInv, PausedIsRegistered, SnapshotsAreOwn, StoredIsThere, Alive,
           Between
  <2>. QED
    BY <1>2, <2>2, <2>3, <2>4 DEF SandboxInv
<1>4. CASE \E p \in Callers : Frame(p) /\ Effect(p)
  BY <1>2, <1>4, PlacesStep, NewStep, OwnStep, FirstStep, SnapshotsStep,
     InPlaceStep, PausedStep, SnapshotsStored
     DEF SandboxInv
<1>. QED
  BY <1>2, <1>3, <1>4

\* The sandboxes that rows name and callers hold are kept apart, whoever works
\* on a row and whatever fails; what is neither there nor being removed is lost,
\* by a death or by a call of the registry or the provider that failed.
THEOREM InvHolds == Spec => []SandboxInv
  BY InvInit, InvNext, PTL DEF Spec

\* Every variable has its type.
THEOREM TypeCorrect == Spec => []TypeOK
<1>1. SandboxInv => TypeOK
  BY DEF SandboxInv
<1>. QED
  BY <1>1, InvHolds, PTL

\* Turns, cancellations and the deletion of the app read a row, and act on what
\* they read while it changes (resume, suspend and destroy in
\* SandboxManager.ts): what a row names still exists, or somebody is between
\* the removal of it and the write that says so, or died or failed in between.
THEOREM RowsAreResumable == Spec => []RowsStayResumable
<1>1. SandboxInv => RowsStayResumable
  <2>. SUFFICES ASSUME SandboxInv, NEW b \in Boxes \ lost, registry[b] # None
                PROVE  \/ CanResume(registry[b])
                       \/ \E p \in Callers : uuid[p] = b /\ pc[p] \in Between
    BY DEF RowsStayResumable
  <2>1. /\ backend \in {"pause", "store"} /\ None \notin Boxes
        /\ FirstIsKept /\ PausedInPlace /\ PausedIsRegistered /\ StoredIsThere
    BY InvGives, CallersAre DEF SandboxInv
  <2>2. CASE backend = "pause"
    BY <2>1, <2>2
       DEF PausedInPlace, PausedIsRegistered, CanResume, Restores, Between
  <2>3. CASE backend = "store"
    BY <2>1, <2>3 DEF StoredIsThere, FirstIsKept, CanResume, Restores, Between
  <2>. QED
    BY <2>1, <2>2, <2>3
<1>. QED
  BY <1>1, InvHolds, PTL

\* A sandbox that a provider pauses is named by a row or held by a caller, also
\* when calls fail half-way; the others are those whose destruction failed and
\* was only logged (acquire, and destroy on Azure), and those whose creator died
\* before he registered them.
THEOREM LiveAreRegistered == Spec => []LiveIsRegistered
<1>1. SandboxInv => LiveIsRegistered
  BY DEF SandboxInv, LiveIsRegistered, PausedInPlace, PausedIsRegistered
<1>. QED
  BY <1>1, InvHolds, PTL
=============================================================================
