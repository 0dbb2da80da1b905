------------------------------ MODULE Sandbox ------------------------------
(***************************************************************************)
(* The sandbox of a data app: the SandboxManager, its registry and the     *)
(* provider below it, and the turns, cancellations and deletions of        *)
(* AppGenerateService above it.                                            *)
(*                                                                         *)
(* Every turn builds the next version of the app: it resumes the sandbox   *)
(* of the turn before, lets the coding agent work in it, publishes what is *)
(* in it, and suspends it.  A provider either pauses a sandbox in place    *)
(* (E2B, Lambda, Azure) or stores a snapshot and destroys it (Cloud Run,   *)
(* Docker).                                                                *)
(*                                                                         *)
(* A workspace is the set of turns whose work it has.  A registry row is   *)
(* named by the first sandbox that it had.                                 *)
(***************************************************************************)
EXTENDS Naturals, FiniteSets

CONSTANTS
    MaxTurns,     \* versions of the app
    Backends,     \* kinds of provider: "pause" or "store"
    None,         \* no sandbox, no snapshot, no row
    MaxBoxes,     \* bound on the sandboxes that are created
    MaxSnapshots, \* bound on the snapshots that are stored
    MaxTroubles,  \* bound on deaths, failed calls, cancellations, deletions
    Cancellable,  \* the versions that a user may cancel
    Deletions     \* how the app may be deleted: "soft" or "hard"

ASSUME SandboxAssumption ==
    /\ {MaxTurns, MaxBoxes, MaxSnapshots} \subseteq Nat \ {0}
    /\ MaxTroubles \in Nat
    /\ Backends \subseteq {"pause", "store"}
    /\ Cancellable \subseteq 1 .. MaxTurns
    /\ Deletions \subseteq {"soft", "hard"}
    /\ None \notin Nat /\ \A turns \in SUBSET (1 .. MaxTurns) : turns # None
    /\ None \notin [live : Nat \cup {None}, snapshot : Nat \cup {None}]

MaxAttempts == 2

Turns     == 1 .. MaxTurns
Boxes     == 1 .. MaxBoxes
Snapshots == 1 .. MaxSnapshots

\* Who calls the manager: the job of each turn, the request that cancels a
\* turn, and the request that deletes the app.
Canceller(t) == MaxTurns + t
Cancellers == {Canceller(t) : t \in Cancellable}
Deleter == 0
Callers == {Deleter} \cup Turns \cup Cancellers

VARIABLES
    backend,   \* the kind of provider
    status,    \* the status of each version
    attempts,  \* how often the job of each version was started
    published, \* the workspace that each version was packaged from, in S3
    sandboxId, \* app.sandbox_id
    deletion,  \* how the app is being deleted: the configuration says
    deleted,   \* the app is deleted
    registry,  \* the rows of sandbox_registry
    state,     \* the state of each sandbox
    work,      \* the workspace of each sandbox
    stored,    \* the workspace in each snapshot
    pc,        \* where each caller is
    seen,      \* the status of its version that each job began with
    uuid,      \* the registry row each caller works on
    row,       \* that row, as it was read
    handle,    \* the sandbox each caller holds
    taken,     \* the snapshot each caller took
    saves,     \* how many snapshots were stored so far
    deaths,    \* how many workers died, or failed to restore the source
    refusals,  \* how many calls of the provider, the registry, the agent failed
    lost       \* the sandboxes, and the rows named by them, that somebody
               \* died or failed before he could clean up: not in the code

removal  == <<deletion, deleted>>
app      == <<status, attempts, published, sandboxId, removal>>
snapshots == <<stored, saves>>
provider == <<state, work, snapshots>>
caller   == <<pc, seen, uuid, row, handle, taken>>
bounds   == <<deaths, refusals, lost>>
held     == <<seen, uuid, row, handle, taken>>
vars == <<backend, app, registry, provider, caller, bounds>>

\* APP_VERSION_STAGE_ORDER, without "catalog" and "building"
Order == [pending |-> 1, sandbox |-> 2, generating |-> 3, packaging |-> 4]
Stages == DOMAIN Order
Rows == [live : Boxes \cup {None}, snapshot : Nat \cup {None}]
Nothing == [live |-> None, snapshot |-> None]
Places ==
    {"idle", "cancel", "queued", "stage", "find", "resume", "mark", "create",
     "insert", "adopt", "restore", "enter", "write", "package", "build",
     "publish", "persist", "remove", "park", "seek", "connect", "doom", "kill",
     "unstore", "unregister", "drop", "dead", "ended"}

TypeOK ==
    /\ backend \in Backends
    /\ status \in [Turns -> Stages \cup {"none", "ready", "error"}]
    /\ attempts \in [Turns -> 0 .. MaxAttempts]
    /\ published \in [Turns -> SUBSET Turns]
    /\ sandboxId \in Boxes \cup {None}
    /\ deletion \in Deletions \cup {"none"}
    /\ deleted \in BOOLEAN
    /\ registry \in [Boxes -> Rows \cup {None}]
    /\ state \in [Boxes -> {"none", "running", "paused", "gone"}]
    /\ work \in [Boxes -> SUBSET Turns]
    /\ stored \in [Snapshots -> (SUBSET Turns) \cup {None}]
    /\ pc \in [Callers -> Places]
    /\ seen \in [Callers -> Stages \cup {"none"}]
    /\ uuid \in [Callers -> Boxes \cup {None}]
    /\ row \in [Callers -> Rows]
    /\ handle \in [Callers -> Boxes \cup {None}]
    /\ taken \in [Callers -> Nat \cup {None}]
    /\ saves \in 0 .. MaxSnapshots
    /\ {deaths, refusals} \subseteq 0 .. MaxTroubles
    /\ lost \subseteq Boxes

Init ==
    /\ backend \in Backends
    /\ status = [t \in Turns |-> "none"]
    /\ attempts = [t \in Turns |-> 0]
    /\ published = [t \in Turns |-> {}]
    /\ sandboxId = None
    /\ deletion = "none" /\ deleted = FALSE
    /\ registry = [b \in Boxes |-> None]
    /\ state = [b \in Boxes |-> "none"]
    /\ work = [b \in Boxes |-> {}]
    /\ stored = [s \in Snapshots |-> None]
    /\ pc = [p \in Callers |-> "idle"]
    /\ seen = [p \in Callers |-> "none"]
    /\ uuid = [p \in Callers |-> None]
    /\ row = [p \in Callers |-> Nothing]
    /\ handle = [p \in Callers |-> None]
    /\ taken = [p \in Callers |-> None]
    /\ saves = 0 /\ deaths = 0 /\ refusals = 0 /\ lost = {}

Goto(p, l) == pc' = [pc EXCEPT ![p] = l]

InProgress(t) == status[t] \in Stages

\* updateVersionStatusIfInProgress
SetStatus(t, s) ==
    status' = IF InProgress(t) THEN [status EXCEPT ![t] = s] ELSE status

\* Where a caller goes when its call of the manager is over.  A job that
\* threw, and so left its version in progress, is tried again.
Finish(p) ==
    IF p = Deleter THEN "drop"
    ELSE IF p \in Turns /\ InProgress(p) /\ attempts[p] < MaxAttempts
         THEN "queued" ELSE "ended"

\* A caller forgets what it held.
Release(p, l) ==
    /\ Goto(p, l)
    /\ uuid' = [uuid EXCEPT ![p] = None]
    /\ row' = [row EXCEPT ![p] = Nothing]
    /\ handle' = [handle EXCEPT ![p] = None]
    /\ taken' = [taken EXCEPT ![p] = None]

Leave(p, l) ==
    /\ Release(p, l)
    /\ seen' = [seen EXCEPT ![p] = "none"]

\* markError, before there is a sandbox to suspend
Abort(t) ==
    /\ SetStatus(t, "error")
    /\ Leave(t, "ended")

\* markError in runPipelineStages; the sandbox is suspended.
Fail(t) ==
    /\ SetStatus(t, "error")
    /\ Goto(t, "persist")

\* There may still be trouble.
MayFail == deaths + refusals
             + Cardinality({p \in Callers \ Turns : pc[p] # "idle"})
           < MaxTroubles

Refuse == MayFail /\ refusals' = refusals + 1

\* Between the removal of what a row names and the write that says so.
Between == IF backend = "store" THEN {"park", "unstore", "unregister"}
                                ELSE {"unstore", "unregister"}

\* What is left as it is when p gives up.
Loses(p) == IF pc[p] = "insert" THEN {handle[p]}
            ELSE IF pc[p] \in Between THEN {uuid[p]} ELSE {}

NextBox(b) == state[b] = "none" /\ \A c \in 1 .. b - 1 : state[c] # "none"

NewBox(b, w) ==
    /\ NextBox(b)
    /\ state' = [state EXCEPT ![b] = "running"]
    /\ work' = [work EXCEPT ![b] = w]

Alive(b) == state[b] \in {"running", "paused"}

\* A paused sandbox runs again when it is connected to.
Connect(b) ==
    /\ Alive(b)
    /\ state' = [state EXCEPT ![b] = "running"]
    /\ UNCHANGED <<work, snapshots>>

(***************************************************************************)
(* A turn.                                                                 *)
(***************************************************************************)

\* generateApp, iterateApp: a version is created and its job is queued.
Iterate(t) ==
    /\ status[t] = "none" /\ ~deleted
    /\ t > 1 => status[t - 1] \in {"ready", "error"}
    /\ status' = [status EXCEPT ![t] = "pending"]
    /\ Goto(t, "queued")
    /\ UNCHANGED <<backend, attempts, published, sandboxId, removal, registry,
                   provider, held, bounds>>

\* runPipeline begins, maybe for the second time.
StartPipeline(t) ==
    /\ pc[t] = "queued"
    /\ attempts' = [attempts EXCEPT ![t] = @ + 1]
    /\ \/ /\ ~InProgress(t)
          /\ Goto(t, "ended")
          /\ UNCHANGED <<status, held>>
       \/ /\ InProgress(t) /\ deleted
          /\ Abort(t)
       \/ /\ InProgress(t) /\ ~deleted
          /\ seen' = [seen EXCEPT ![t] = status[t]]
          /\ Goto(t, "stage")
          /\ UNCHANGED <<status, uuid, row, handle, taken>>
    /\ UNCHANGED <<backend, published, sandboxId, removal, registry, provider,
                   bounds>>

\* shouldRunStage
ShouldRun(t, s) == Order[seen[t]] <= Order[s]

\* The sandbox stage: the first version creates a sandbox, a later one
\* resumes that of the app, if there is one.
EnterSandboxStage(t) ==
    /\ pc[t] = "stage" /\ ShouldRun(t, "sandbox")
    /\ \/ /\ ~InProgress(t)
          /\ UNCHANGED status
          /\ Leave(t, "ended")
       \/ /\ InProgress(t) /\ t > 1 /\ deleted
          /\ Abort(t)
       \/ /\ InProgress(t) /\ (t = 1 \/ ~deleted)
          /\ SetStatus(t, "sandbox")
          /\ LET resumes == t > 1 /\ sandboxId # None
             IN  /\ Goto(t, IF resumes THEN "find" ELSE "create")
                 /\ uuid' = [uuid EXCEPT ![t] = IF resumes THEN sandboxId
                                                ELSE None]
          /\ UNCHANGED <<seen, row, handle, taken>>
    /\ UNCHANGED <<backend, attempts, published, sandboxId, removal, registry,
                   provider, bounds>>

\* A retry past the sandbox stage reconnects.  getApp throws outside of the
\* try block when the app is deleted.
Reconnect(t) ==
    /\ pc[t] = "stage" /\ ~ShouldRun(t, "sandbox")
    /\ \/ /\ deleted
          /\ UNCHANGED status
          /\ Leave(t, Finish(t))
       \/ /\ ~deleted /\ sandboxId = None
          /\ Abort(t)
       \/ /\ ~deleted /\ sandboxId # None
          /\ uuid' = [uuid EXCEPT ![t] = sandboxId]
          /\ Goto(t, "find")
          /\ UNCHANGED <<status, seen, row, handle, taken>>
    /\ UNCHANGED <<backend, attempts, published, sandboxId, removal, registry,
                   provider, bounds>>

\* Mutant: a retry may start over with a new sandbox, too.
AlwaysFallsBack(t) == Release(t, "create") /\ UNCHANGED <<status, seen>>

\* acquireSandbox falls back to a new sandbox; a reconnect gives up.
ResumeFails(t) ==
    \/ /\ ShouldRun(t, "sandbox")
       /\ Release(t, "create")
       /\ UNCHANGED <<status, seen>>
    \/ /\ ~ShouldRun(t, "sandbox")
       /\ Abort(t)

\* SandboxManager.resume reads the row.
FindRow(t) ==
    /\ pc[t] = "find"
    /\ IF registry[uuid[t]] \in {None, Nothing}
       THEN ResumeFails(t)
       ELSE /\ row' = [row EXCEPT ![t] = registry[uuid[t]]]
            /\ Goto(t, "resume")
            /\ UNCHANGED <<status, seen, uuid, handle, taken>>
    /\ UNCHANGED <<backend, attempts, published, sandboxId, removal, registry,
                   provider, bounds>>

\* A new sandbox is created from a snapshot.
Restores(r) == backend = "store" /\ r.snapshot # None

\* resumeRow: the snapshot first, which is the sandbox itself if it was
\* paused, then the sandbox that was live.
Resume(t) ==
    /\ pc[t] = "resume"
    /\ \E b \in Boxes :
          /\ \/ /\ Restores(row[t])
                /\ stored[row[t].snapshot] # None
                /\ NewBox(b, stored[row[t].snapshot])
                /\ UNCHANGED snapshots
             \/ /\ ~Restores(row[t])
                /\ b = IF row[t].snapshot # None THEN row[t].snapshot
                                                ELSE row[t].live
                /\ Connect(b)
          /\ handle' = [handle EXCEPT ![t] = b]
    /\ Goto(t, "mark")
    /\ UNCHANGED <<backend, app, registry, seen, uuid, row, taken, bounds>>

\* The provider throws.  A sandbox that it created for the snapshot is left.
ResumeThrows(t) ==
    /\ pc[t] = "resume"
    /\ LET gone == IF Restores(row[t])
                   THEN stored[row[t].snapshot] = None
                   ELSE ~Alive(IF row[t].snapshot # None THEN row[t].snapshot
                                                         ELSE row[t].live)
       IN  IF gone THEN UNCHANGED refusals ELSE Refuse
    /\ \/ UNCHANGED provider
       \/ /\ Restores(row[t])
          /\ \E b \in Boxes : NewBox(b, {})
          /\ UNCHANGED snapshots
    /\ ResumeFails(t)
    /\ UNCHANGED <<backend, attempts, published, sandboxId, removal, registry,
                   deaths, lost>>

\* Mutant: a row that runs again has no snapshot.
ForgetsSnapshot(t) ==
    /\ pc[t] = "mark"
    /\ registry' = IF registry[uuid[t]] = None THEN registry
                   ELSE [registry EXCEPT ![uuid[t]] =
                           [live |-> handle[t], snapshot |-> None]]
    /\ Goto(t, "enter")
    /\ UNCHANGED <<backend, app, provider, held, bounds>>

\* markRunning keeps the snapshot that the sandbox was restored from.
MarkRunning(t) ==
    /\ pc[t] = "mark"
    /\ registry' = IF registry[uuid[t]] = None THEN registry
                   ELSE [registry EXCEPT ![uuid[t]].live = handle[t]]
    /\ Goto(t, "enter")
    /\ UNCHANGED <<backend, app, provider, held, bounds>>

\* The sandbox runs on: the row names it, unless it is a copy of the snapshot.
MarkRunningThrows(t) ==
    /\ pc[t] = "mark"
    /\ Refuse
    /\ ResumeFails(t)
    /\ UNCHANGED <<backend, attempts, published, sandboxId, removal, registry,
                   provider, deaths, lost>>

\* SandboxManager.acquire
Create(t) ==
    /\ pc[t] = "create"
    /\ \E b \in Boxes :
          /\ NewBox(b, {})
          /\ handle' = [handle EXCEPT ![t] = b]
    /\ Goto(t, "insert")
    /\ UNCHANGED <<backend, app, registry, snapshots, seen, uuid, row, taken,
                   bounds>>

CreateThrows(t) ==
    /\ pc[t] = "create"
    /\ Refuse
    /\ Abort(t)
    /\ UNCHANGED <<backend, attempts, published, sandboxId, removal, registry,
                   provider, deaths, lost>>

InsertRow(t) ==
    /\ pc[t] = "insert"
    /\ registry' = [registry EXCEPT ![handle[t]] =
                        [live |-> handle[t], snapshot |-> None]]
    /\ uuid' = [uuid EXCEPT ![t] = handle[t]]
    /\ Goto(t, "adopt")
    /\ UNCHANGED <<backend, app, provider, seen, row, handle, taken, bounds>>

\* Mutant: the sandbox is left when its row cannot be inserted.
LeavesOrphan(t) == UNCHANGED <<state, lost>>

\* What goes wrong with it is only logged.
DestroyOrphan(t) ==
    \/ state' = [state EXCEPT ![handle[t]] = "gone"] /\ UNCHANGED lost
    \/ lost' = lost \cup Loses(t) /\ UNCHANGED state

InsertThrows(t) ==
    /\ pc[t] = "insert"
    /\ Refuse
    /\ DestroyOrphan(t)
    /\ Abort(t)
    /\ UNCHANGED <<backend, attempts, published, sandboxId, removal, registry,
                   work, snapshots, deaths>>

\* updateSandboxUuid
Adopt(t) ==
    /\ pc[t] = "adopt"
    /\ sandboxId' = IF deleted /\ deletion = "hard" THEN sandboxId ELSE uuid[t]
    /\ Goto(t, IF t = 1 THEN "enter" ELSE "restore")
    /\ UNCHANGED <<backend, status, attempts, published, removal, registry,
                   provider, held, bounds>>

\* The row stays, and the app keeps the sandbox that it had.
AdoptThrows(t) ==
    /\ pc[t] = "adopt"
    /\ Refuse
    /\ Abort(t)
    /\ UNCHANGED <<backend, attempts, published, sandboxId, removal, registry,
                   provider, deaths, lost>>

ReadyTurns == {t \in Turns : status[t] = "ready"}

\* Mutant: the new sandbox is used as it is.
StartsBlank(t) ==
    /\ pc[t] = "restore"
    /\ Goto(t, "enter")
    /\ UNCHANGED <<backend, app, registry, provider, held, bounds>>

\* The source of the latest ready version is unpacked in the new sandbox.
RestoreSource(t) ==
    /\ pc[t] = "restore"
    /\ \/ /\ ReadyTurns = {}
          /\ UNCHANGED work
       \/ /\ ReadyTurns # {} /\ state[handle[t]] = "running"
          /\ \E u \in ReadyTurns :
                /\ \A v \in ReadyTurns : v <= u
                /\ work' = [work EXCEPT ![handle[t]] = published[u]]
    /\ Goto(t, "enter")
    /\ UNCHANGED <<backend, app, registry, state, snapshots, held, bounds>>

\* The sandbox is the app's already, and is not suspended.
RestoreThrows(t) ==
    /\ pc[t] = "restore" /\ ReadyTurns # {}
    /\ IF state[handle[t]] = "running"
       THEN MayFail /\ deaths' = deaths + 1
       ELSE UNCHANGED deaths
    /\ Abort(t)
    /\ UNCHANGED <<backend, attempts, published, sandboxId, removal, registry,
                   provider, refusals, lost>>

\* runPipelineStages begins: it throws when it finds no app or no sandbox.
\* The generating stage begins, unless a run before went past it.
EnterGenerating(t) ==
    /\ pc[t] = "enter"
    /\ \/ /\ deleted \/ state[handle[t]] # "running"
          /\ UNCHANGED status
          /\ Goto(t, "persist")
       \/ /\ ~deleted /\ ~ShouldRun(t, "generating")
          /\ UNCHANGED status
          /\ Goto(t, "package")
       \/ /\ ~deleted /\ ShouldRun(t, "generating")
          /\ SetStatus(t, "generating")
          /\ Goto(t, IF InProgress(t) THEN "write" ELSE "persist")
    /\ UNCHANGED <<backend, attempts, published, sandboxId, removal, registry,
                   provider, held, bounds>>

\* The coding agent is started, and ends, in the sandbox; or it fails there.
Write(t) ==
    /\ pc[t] = "write"
    /\ \/ /\ InProgress(t) /\ state[handle[t]] = "running"
          /\ work' = [work EXCEPT ![handle[t]] = @ \cup {t}]
          /\ Goto(t, "package")
          /\ UNCHANGED <<status, refusals>>
       \/ /\ IF InProgress(t) /\ state[handle[t]] = "running"
             THEN Refuse ELSE UNCHANGED refusals
          /\ UNCHANGED work
          /\ Fail(t)
    /\ UNCHANGED <<backend, attempts, published, sandboxId, removal, registry,
                   state, snapshots, held, deaths, lost>>

EnterPackaging(t) ==
    /\ pc[t] = "package"
    /\ SetStatus(t, "packaging")
    /\ Goto(t, IF InProgress(t) THEN "build" ELSE "persist")
    /\ UNCHANGED <<backend, attempts, published, sandboxId, removal, registry,
                   provider, held, bounds>>

\* The workspace is built, packaged and uploaded, each of which may fail.
Package(t) ==
    /\ pc[t] = "build"
    /\ \/ /\ state[handle[t]] = "running"
          /\ published' = [published EXCEPT ![t] = work[handle[t]]]
          /\ Goto(t, "publish")
          /\ UNCHANGED <<status, refusals>>
       \/ /\ IF state[handle[t]] = "running" THEN Refuse
                                              ELSE UNCHANGED refusals
          /\ UNCHANGED published
          /\ Fail(t)
    /\ UNCHANGED <<backend, attempts, sandboxId, removal, registry, provider,
                   held, deaths, lost>>

Publish(t) ==
    /\ pc[t] = "publish"
    /\ SetStatus(t, "ready")
    /\ Goto(t, "persist")
    /\ UNCHANGED <<backend, attempts, published, sandboxId, removal, registry,
                   provider, held, bounds>>

\* The worker dies with the job locked.
Die(t) ==
    /\ pc[t] \notin {"idle", "queued", "dead", "ended"}
    /\ MayFail
    /\ deaths' = deaths + 1
    /\ lost' = lost \cup Loses(t)
    /\ Leave(t, "dead")
    /\ UNCHANGED <<backend, app, registry, provider, refusals>>

\* releaseStaleLocks: no progress for five minutes, and an attempt left.  The
\* job of a worker that lives is not released: its heartbeat begins after the
\* sandbox stage, which is supposed to take less than that.
Sweep(t) ==
    /\ pc[t] = "dead"
    /\ InProgress(t) /\ attempts[t] < MaxAttempts
    /\ Goto(t, "queued")
    /\ UNCHANGED <<backend, app, registry, provider, held, bounds>>

(***************************************************************************)
(* SandboxManager.suspend, of a turn, a cancellation or a soft deletion.   *)
(***************************************************************************)

\* A pause is the snapshot; else the workspace is stored.
Persist(p) ==
    /\ pc[p] = "persist"
    /\ \/ /\ backend = "pause" /\ Alive(handle[p])
          /\ state' = [state EXCEPT ![handle[p]] = "paused"]
          /\ taken' = [taken EXCEPT ![p] = handle[p]]
          /\ Goto(p, "park")
          /\ UNCHANGED snapshots
       \/ /\ backend = "store" /\ state[handle[p]] = "running"
          /\ saves < MaxSnapshots
          /\ saves' = saves + 1
          /\ stored' = [stored EXCEPT ![saves'] = work[handle[p]]]
          /\ taken' = [taken EXCEPT ![p] = saves']
          /\ Goto(p, "remove")
          /\ UNCHANGED state
    /\ UNCHANGED <<backend, app, registry, work, seen, uuid, row, handle,
                   bounds>>

\* Mutant: the sandbox is removed although it was not persisted.
RemovesAnyway(p) ==
    /\ pc[p] = "persist"
    /\ IF Alive(handle[p]) THEN Refuse ELSE UNCHANGED refusals
    /\ Goto(p, "remove")
    /\ UNCHANGED <<backend, app, registry, provider, held, deaths, lost>>

\* The suspend is given up, which is only logged.
PersistThrows(p) ==
    /\ pc[p] = "persist"
    /\ IF Alive(handle[p]) THEN Refuse ELSE UNCHANGED refusals
    /\ UNCHANGED status
    /\ Leave(p, Finish(p))
    /\ UNCHANGED <<backend, attempts, published, sandboxId, removal, registry,
                   provider, deaths, lost>>

\* The stores' destroy only logs that it failed.
Destroy(b) ==
    \/ state' = [state EXCEPT ![b] = "gone"] /\ UNCHANGED refusals
    \/ UNCHANGED state /\ Refuse

Remove(p) ==
    /\ pc[p] = "remove"
    /\ Destroy(handle[p])
    /\ Goto(p, "park")
    /\ UNCHANGED <<backend, app, registry, work, snapshots, held, deaths, lost>>

MarkSuspended(p) ==
    /\ pc[p] = "park"
    /\ registry' =
          IF registry[uuid[p]] = None THEN registry
          ELSE [registry EXCEPT ![uuid[p]] =
                  [live |-> IF backend = "pause" THEN handle[p] ELSE None,
                   snapshot |-> taken[p]]]
    /\ UNCHANGED status
    /\ Leave(p, Finish(p))
    /\ UNCHANGED <<backend, attempts, published, sandboxId, removal, provider,
                   bounds>>

\* The sandbox is paused, or is no more, and the row does not say so.
MarkSuspendedThrows(p) ==
    /\ pc[p] = "park"
    /\ Refuse
    /\ lost' = lost \cup Loses(p)
    /\ Leave(p, Finish(p))
    /\ UNCHANGED <<backend, app, registry, provider, deaths>>

(***************************************************************************)
(* The cancellation of a turn, and suspendByUuid.                          *)
(***************************************************************************)

\* cancelVersion reads the app before it ends the version.
BeginCancel(t) ==
    /\ LET p == Canceller(t)
       IN  /\ pc[p] = "idle" /\ InProgress(t) /\ ~deleted /\ MayFail
           /\ Goto(p, "cancel")
           /\ uuid' = [uuid EXCEPT ![p] = sandboxId]
    /\ UNCHANGED <<backend, app, registry, provider, seen, row, handle, taken,
                   bounds>>

Cancel(t) ==
    /\ LET p == Canceller(t)
       IN  /\ pc[p] = "cancel"
           /\ SetStatus(t, "error")
           /\ Goto(p, IF InProgress(t) /\ uuid[p] # None THEN "seek"
                                                     ELSE "ended")
    /\ UNCHANGED <<backend, attempts, published, sandboxId, removal, registry,
                   provider, held, bounds>>

\* A row without a live sandbox is destroyed.
FindOrphan(p) ==
    /\ pc[p] = "seek"
    /\ LET r == registry[uuid[p]]
       IN  IF r = None THEN Leave(p, Finish(p))
           ELSE /\ Goto(p, IF r.live = None THEN "doom" ELSE "connect")
                /\ handle' = [handle EXCEPT ![p] = r.live]
                /\ UNCHANGED <<seen, uuid, row, taken>>
    /\ UNCHANGED <<backend, app, registry, provider, bounds>>

ConnectOrphan(p) ==
    /\ pc[p] = "connect"
    /\ Connect(handle[p])
    /\ Goto(p, "persist")
    /\ UNCHANGED <<backend, app, registry, held, bounds>>

ConnectThrows(p) ==
    /\ pc[p] = "connect"
    /\ IF Alive(handle[p]) THEN Refuse ELSE UNCHANGED refusals
    /\ Leave(p, Finish(p))
    /\ UNCHANGED <<backend, app, registry, provider, deaths, lost>>

(***************************************************************************)
(* SandboxManager.destroy                                                  *)
(***************************************************************************)

FindDoomed(p) ==
    /\ pc[p] = "doom"
    /\ row' = [row EXCEPT ![p] = IF registry[uuid[p]] = None THEN Nothing
                                 ELSE registry[uuid[p]]]
    /\ Goto(p, "kill")
    /\ UNCHANGED <<backend, app, registry, provider, seen, uuid, handle, taken,
                   bounds>>

\* What goes wrong is only logged by a store, and by Azure, which pauses.
Kill(p) ==
    /\ pc[p] = "kill"
    /\ \/ row[p].live = None /\ UNCHANGED <<state, refusals>>
       \/ row[p].live # None /\ Destroy(row[p].live)
    /\ lost' = IF backend = "pause" /\ refusals' # refusals
               THEN lost \cup {row[p].live} ELSE lost
    /\ Goto(p, "unstore")
    /\ UNCHANGED <<backend, app, registry, work, snapshots, held, deaths>>

\* The others that pause throw it.
KillThrows(p) ==
    /\ pc[p] = "kill" /\ row[p].live # None
    /\ backend = "pause"
    /\ Refuse
    /\ Leave(p, Finish(p))
    /\ UNCHANGED <<backend, app, registry, provider, deaths, lost>>

\* A paused sandbox has no snapshot of its own.
DeleteSnapshot(p) ==
    /\ pc[p] = "unstore"
    /\ \/ /\ stored' = IF Restores(row[p])
                       THEN [stored EXCEPT ![row[p].snapshot] = None]
                       ELSE stored
          /\ Goto(p, "unregister")
          /\ UNCHANGED <<refusals, held>>
       \/ /\ Restores(row[p])
          /\ Refuse
          /\ Leave(p, Finish(p))
          /\ UNCHANGED stored
    /\ UNCHANGED <<backend, app, registry, state, work, saves, deaths, lost>>

Unregister(p) ==
    /\ pc[p] = "unregister"
    /\ registry' = [registry EXCEPT ![uuid[p]] = None]
    /\ Leave(p, Finish(p))
    /\ UNCHANGED <<backend, app, provider, bounds>>

\* The row stays without what it names.
UnregisterThrows(p) ==
    /\ pc[p] = "unregister"
    /\ Refuse
    /\ lost' = lost \cup Loses(p)
    /\ Leave(p, Finish(p))
    /\ UNCHANGED <<backend, app, registry, provider, deaths>>

(***************************************************************************)
(* The deletion of the app.                                                *)
(***************************************************************************)

\* deleteApp
BeginDelete ==
    /\ pc[Deleter] = "idle" /\ status[1] # "none" /\ MayFail
    /\ deletion' \in Deletions
    /\ uuid' = [uuid EXCEPT ![Deleter] = sandboxId]
    /\ Goto(Deleter, IF sandboxId = None THEN "drop"
                     ELSE IF deletion' = "soft" THEN "seek" ELSE "doom")
    /\ UNCHANGED <<backend, status, attempts, published, sandboxId, deleted,
                   registry, provider, seen, row, handle, taken, bounds>>

\* A hard deletion removes the files and the versions with the app.
Drop ==
    /\ pc[Deleter] = "drop"
    /\ deleted' = TRUE
    /\ IF deletion = "soft" THEN UNCHANGED <<status, published, sandboxId>>
       ELSE /\ status' = [t \in Turns |-> "none"]
            /\ published' = [t \in Turns |-> {}]
            /\ sandboxId' = None
    /\ Leave(Deleter, "ended")
    /\ UNCHANGED <<backend, attempts, deletion, registry, provider, bounds>>

(***************************************************************************)
(* The specification.                                                      *)
(***************************************************************************)

Advance(t) ==
    \/ StartPipeline(t) \/ EnterSandboxStage(t) \/ Reconnect(t)
    \/ FindRow(t) \/ Resume(t) \/ ResumeThrows(t)
    \/ MarkRunning(t) \/ MarkRunningThrows(t)
    \/ Create(t) \/ CreateThrows(t) \/ InsertRow(t) \/ InsertThrows(t)
    \/ Adopt(t) \/ AdoptThrows(t) \/ RestoreSource(t) \/ RestoreThrows(t)
    \/ EnterGenerating(t) \/ Write(t) \/ EnterPackaging(t) \/ Package(t)
    \/ Publish(t)

Manage(p) ==
    \/ Persist(p) \/ PersistThrows(p) \/ Remove(p)
    \/ MarkSuspended(p) \/ MarkSuspendedThrows(p)
    \/ FindOrphan(p) \/ ConnectOrphan(p) \/ ConnectThrows(p)
    \/ FindDoomed(p) \/ Kill(p) \/ KillThrows(p) \/ DeleteSnapshot(p)
    \/ Unregister(p) \/ UnregisterThrows(p)

Job(t) == Advance(t) \/ Manage(t) \/ Die(t) \/ Sweep(t)
Cancellation(t) == BeginCancel(t) \/ Cancel(t) \/ Manage(Canceller(t))
Deletion == BeginDelete \/ Manage(Deleter) \/ Drop

Next ==
    \/ \E t \in Turns : Iterate(t) \/ Job(t)
    \/ \E t \in Cancellable : Cancellation(t)
    \/ Deletion

Spec == Init /\ [][Next]_vars

(***************************************************************************)
(* Properties.                                                             *)
(***************************************************************************)

\* Nobody cancelled a turn or deleted the app.
Calm == \A p \in Callers \ Turns : pc[p] = "idle"

\* What was built before a ready version.
ReadyBefore(t) == {u \in Turns : u < t /\ status[u] = "ready"}

\* A version that is ready was packaged from a workspace in which its own
\* prompt was carried out, although a retry skips the stages that were done
\* and resumes whatever the row names: a retry must not get another sandbox.
\* A snapshot may be older than the work that a dead worker left behind.
OwnWorkIsPublished ==
    Calm /\ (backend = "pause" \/ deaths = 0)
        => \A t \in Turns : status[t] = "ready" => t \in published[t]

\* A version that is ready has the work of every ready one before it, be its
\* sandbox resumed, taken over while the turn before still suspends it, or
\* created anew.  A worker that dies, or fails, while it restores the source
\* leaves the app a blank sandbox.
EarlierWorkIsKept ==
    Calm /\ backend = "pause" /\ deaths = 0
        => \A t \in Turns :
              status[t] = "ready" => ReadyBefore(t) \subseteq published[t]

\* resume would find what the row names.
CanResume(r) == IF Restores(r) THEN stored[r.snapshot] # None
                               ELSE r.live # None /\ Alive(r.live)

\* Whatever turns, cancellations and a deletion do to one row side by side:
\* it names a snapshot or a sandbox that exists, or somebody is between the
\* removal of what it names and the write that says so, or the one who removed
\* it died, or failed, before that write.
RowsStayResumable ==
    \A b \in Boxes : registry[b] # None =>
        \/ CanResume(registry[b])
        \/ \E p \in Callers : uuid[p] = b /\ pc[p] \in Between
        \/ b \in lost

\* A provider that pauses keeps no sandbox that nobody knows, also when calls
\* fail half-way: a row names it or a caller holds it, unless its destruction
\* failed and was only logged, or its creator died before he registered it.
LiveIsRegistered ==
    backend = "pause" =>
        \A b \in Boxes : Alive(b) =>
            \/ \E c \in Boxes : registry[c] # None /\ registry[c].live = b
            \/ \E p \in Callers : handle[p] = b
            \/ b \in lost

\* The documentation says that "iteration always branches from the head".
BranchesFromHead ==
    \A t \in Turns :
        status[t] = "ready" => ReadyBefore(t) \subseteq published[t]

(***************************************************************************)
(* The inductive invariants behind RowsStayResumable and LiveIsRegistered. *)
(***************************************************************************)

\* Callers that have a registry row, that hold a sandbox, that use the row
\* they read.
HasRow == {"find", "resume", "mark", "adopt", "restore", "enter", "write",
           "package", "build", "publish", "persist", "remove", "park", "seek",
           "connect", "doom", "kill", "unstore", "unregister"}
HasBox == {"mark", "insert", "adopt", "restore", "enter", "write", "package",
           "build", "publish", "persist", "remove", "park", "connect"}
Reads  == {"resume", "kill", "unstore"}

PlacesAreKnown ==
    \A p \in Callers :
        /\ pc[p] \in HasRow => uuid[p] # None
        /\ pc[p] \in HasBox => handle[p] # None
        /\ handle[p] # None => pc[p] \in HasBox

\* A version has a job from its creation on, which is started MaxAttempts times.
JobsAreCounted ==
    \A t \in Turns :
        /\ status[t] = "none" /\ ~deleted => pc[t] = "idle"
        /\ pc[t] = "idle" => attempts[t] = 0
        /\ pc[t] = "queued" => attempts[t] < MaxAttempts

\* Nothing but a handle names the sandbox.
Unknown(b) ==
    /\ registry[b] = None /\ sandboxId # b
    /\ \A c \in Boxes : registry[c] # None => registry[c].live # b
    /\ \A p \in Callers : uuid[p] # b /\ row[p].live # b

NewIsUnknown ==
    /\ \A b \in Boxes : state[b] = "none" =>
          Unknown(b) /\ \A p \in Callers : handle[p] # b
    /\ \A p \in Callers : pc[p] = "insert" =>
          /\ state[handle[p]] = "running"
          /\ Unknown(handle[p])
          /\ \A q \in Callers \ {p} : handle[q] # handle[p]

\* A sandbox that names a row belongs to that row and to those who hold it.
OwnBoxes ==
    \A b \in Boxes : registry[b] # None =>
        /\ \A c \in Boxes : registry[c] # None /\ registry[c].live = b => c = b
        /\ \A p \in Callers :
              /\ handle[p] = b => uuid[p] = b
              /\ pc[p] \in Reads /\ row[p].live = b => uuid[p] = b

\* Before its first snapshot a row names its first sandbox.
FirstIsKept ==
    /\ \A b \in Boxes :
          registry[b] # None /\ registry[b].snapshot = None => registry[b].live = b
    /\ \A p \in Callers :
          pc[p] \in Reads /\ row[p] # Nothing /\ row[p].snapshot = None
              => row[p].live = uuid[p]

\* A row that has had a snapshot has one.
SnapshotsStay ==
    \A p \in Callers :
        /\ pc[p] \in Reads /\ row[p].snapshot # None /\ registry[uuid[p]] # None
              => registry[uuid[p]].snapshot # None
        /\ pc[p] = "mark" /\ handle[p] # uuid[p] /\ registry[uuid[p]] # None
              => registry[uuid[p]].snapshot # None

\* A provider that pauses knows one sandbox of a row, which is its snapshot.
PausedInPlace ==
    backend = "pause" =>
        /\ \A b \in Boxes : registry[b] # None =>
              registry[b].live = b /\ registry[b].snapshot \in {None, b}
        /\ \A p \in Callers :
              /\ pc[p] # "remove"
              /\ pc[p] = "park" => taken[p] = handle[p]
              /\ handle[p] # None /\ pc[p] # "insert" => handle[p] = uuid[p]
              /\ pc[p] \in Reads => \/ row[p] = Nothing
                                    \/ /\ row[p].live = uuid[p]
                                       /\ row[p].snapshot \in {None, uuid[p]}

\* A paused or running sandbox is registered, or about to be; a registered
\* one is there until the one who removed it takes the row away; the others
\* are lost.
PausedIsRegistered ==
    backend = "pause" =>
        /\ \A b \in Boxes : Alive(b) =>
              \/ registry[b] # None
              \/ \E p \in Callers : pc[p] = "insert" /\ handle[p] = b
              \/ b \in lost
        /\ \A b \in Boxes : registry[b] # None =>
              \/ Alive(b)
              \/ \E p \in Callers : uuid[p] = b /\ pc[p] \in {"unstore", "unregister"}
              \/ b \in lost
        /\ \A p \in Callers :
              \/ pc[p] \in {"unstore", "unregister"}
              \/ pc[p] = "kill" /\ row[p] = Nothing
              => state[uuid[p]] = "gone" \/ uuid[p] \in lost

\* A snapshot belongs to one row, and to whoever took it until then.
SnapshotsAreOwn ==
    backend = "store" =>
        /\ \A b \in Boxes : registry[b] # None /\ registry[b].snapshot # None =>
              /\ registry[b].snapshot \in 1 .. saves
              /\ \A c \in Boxes :
                    registry[c] # None /\ registry[c].snapshot = registry[b].snapshot
                        => c = b
              /\ \A p \in Callers :
                    pc[p] \in Reads /\ row[p].snapshot = registry[b].snapshot
                        => uuid[p] = b
        /\ \A p \in Callers : pc[p] \in Reads /\ row[p].snapshot # None =>
              row[p].snapshot \in 1 .. saves
        /\ \A p \in Callers : pc[p] \in {"remove", "park"} =>
              /\ taken[p] \in 1 .. saves /\ stored[taken[p]] # None
              /\ \A b \in Boxes : registry[b] # None => registry[b].snapshot # taken[p]
              /\ \A q \in Callers :
                    /\ pc[q] \in Reads => row[q].snapshot # taken[p]
                    /\ q # p /\ pc[q] \in {"remove", "park"} => taken[q] # taken[p]

\* What a row names is stored, or runs before its first snapshot.
StoredIsThere ==
    backend = "store" =>
        \A b \in Boxes : registry[b] # None =>
            \/ IF registry[b].snapshot # None
               THEN \/ stored[registry[b].snapshot] # None
                    \/ \E p \in Callers : uuid[p] = b /\ pc[p] = "unregister"
               ELSE \/ Alive(b)
                    \/ \E p \in Callers : uuid[p] = b /\ pc[p] \in Between
            \/ b \in lost

\* Whoever works on a row, and whatever fails half-way, a sandbox and a
\* snapshot belong to one row, and what a row names is there or its remover
\* has yet to say so (SandboxManager.ts).
SandboxInv ==
    /\ TypeOK
    /\ PlacesAreKnown /\ JobsAreCounted
    /\ NewIsUnknown /\ OwnBoxes /\ FirstIsKept /\ SnapshotsStay
    /\ PausedInPlace /\ PausedIsRegistered
    /\ SnapshotsAreOwn /\ StoredIsThere

(***************************************************************************)
(* The versions of the app, as its users see them.                         *)
(***************************************************************************)
Shown == [t \in Turns |-> IF InProgress(t) THEN "building" ELSE status[t]]
ShownPackage == [t \in Turns |-> IF status[t] = "ready" THEN published[t] ELSE {}]

Public == INSTANCE AppVersions WITH version <- Shown, package <- ShownPackage

\* Jobs are retried, go on after a cancellation or a deletion, and two of
\* them may use one sandbox; yet a version begins when the one before it has
\* ended, ends once, and a ready one keeps a package without later work.
ImplementsVersions == Public!Spec

\* A version begins when those before it have ended.
OneAtATime ==
    \A t, u \in Turns :
        status[t] # "none" /\ u < t => status[u] \in {"ready", "error"}

\* The job of a ready version has nothing left but to suspend its sandbox.
Finishing == {"persist", "remove", "park", "dead", "ended"}
ReadyIsBuilt == \A t \in Turns : status[t] = "ready" => pc[t] \in Finishing

\* A hard deletion leaves no versions, and nothing is deleted twice.
Erased == deleted /\ deletion # "soft"

DeletedOnce ==
    /\ deleted => pc[Deleter] = "ended"
    /\ Erased => \A t \in Turns : status[t] = "none"

\* The work of t is in a sandbox, a snapshot or a package.
IsSomewhere(t) ==
    \/ \E b \in Boxes : t \in work[b]
    \/ \E s \in Snapshots : stored[s] # None /\ t \in stored[s]
    \/ \E u \in Turns : t \in published[u]

NoEarlyWork ==
    ~Erased => \A t \in Turns : status[t] = "none" => ~IsSomewhere(t)

VersionsInv == OneAtATime /\ ReadyIsBuilt /\ DeletedOnce /\ NoEarlyWork

\* The inductive invariant of the app: what it knows of its sandboxes is true,
\* and however its jobs overlap, versions are built in order (iterateApp) and a
\* ready one is not built again.
AppInv == SandboxInv /\ VersionsInv
=============================================================================
