------------------------- MODULE SandboxWorkProofs -------------------------
(***************************************************************************)
(* Proofs of what is in the workspaces: versions that are ready have their *)
(* own work and that of the versions before them.                          *)
(*                                                                         *)
(* Both are about an app that nobody cancels a version of, or deletes.     *)
(* Then its versions are built one after the other, although the sandbox   *)
(* of one may still be suspended while the next is built in it.            *)
(*                                                                         *)
(* The last part is about any app: Sandbox implements AppVersions.         *)
(***************************************************************************)
EXTENDS SandboxProofs

\* A job between its start and the suspension of its sandbox, and the places
\* that only cancellations and deletions get to.
Building == {"stage", "find", "resume", "mark", "create", "insert", "adopt",
             "restore", "enter", "write", "package", "build", "publish"}
Managing == {"seek", "connect", "doom", "kill", "unstore", "unregister"}

\* How far a job is, and how far it was when it began.
StagesAreInOrder(t) ==
    /\ pc[t] \notin Managing
    /\ pc[t] \in Building => /\ InProgress(t) /\ seen[t] \in Stages
                             /\ Order[seen[t]] <= Order[status[t]]
    /\ \/ pc[t] \in {"create", "insert", "adopt", "restore"}
       \/ /\ pc[t] \in {"find", "resume", "mark", "enter"}
          /\ Order[seen[t]] <= 2
       => status[t] = "sandbox"
    /\ deaths = 0 =>
          /\ seen[t] \in {"none", "pending", "sandbox"}
          /\ status[t] \in {"generating", "packaging"}
                => pc[t] \in {"write", "package", "build", "publish"}

\* A job works in the app's sandbox, except while it creates another.
SandboxIsTheApps(t) ==
    pc[t] \in Building \ {"stage", "create", "insert", "adopt"}
        => uuid[t] = sandboxId

\* The work of a version is in the sandbox, whichever attempt comes back for it.
OwnWorkIsThere(t) ==
    /\ backend = "pause" /\ status[t] = "packaging"
          => sandboxId \in Boxes /\ t \in work[sandboxId]
    /\ backend = "pause" \/ deaths = 0 =>
          /\ pc[t] \in {"package", "build", "publish"} => t \in work[handle[t]]
          /\ pc[t] = "publish" \/ status[t] = "ready" => t \in published[t]

\* A new sandbox is its creator's alone until the source is restored in it.
NewIsOwn(t) ==
    backend = "pause" /\ deaths = 0 /\ pc[t] \in {"adopt", "restore"} =>
        /\ state[handle[t]] = "running"
        /\ \A q \in Callers \ {t} : uuid[q] # handle[t] /\ handle[q] # handle[t]

EarlierWorkIsThere(t) ==
    backend = "pause" /\ deaths = 0 =>
        /\ pc[t] = "publish" => ReadyTurns \subseteq published[t]
        /\ status[t] = "ready" => ReadyBefore(t) \subseteq published[t]

\* Every ready version is in the app's sandbox, unless a new one has just
\* been adopted in which the source is about to be restored.
AppHasTheWork ==
    backend = "pause" /\ deaths = 0 /\ sandboxId # None =>
        \/ ReadyTurns \subseteq work[sandboxId]
        \/ \E t \in Turns : pc[t] = "restore"

CalmInv ==
    /\ ~deleted /\ OneAtATime /\ AppHasTheWork
    /\ \A t \in Turns :
          /\ StagesAreInOrder(t) /\ SandboxIsTheApps(t)
          /\ OwnWorkIsThere(t) /\ NewIsOwn(t) /\ EarlierWorkIsThere(t)

WorkInv == SandboxInv /\ (Calm => CalmInv)

(***************************************************************************)
(* What a step of the job of t does to the work.                           *)
(***************************************************************************)

\* The other jobs and their versions stay as they are.
Alone(t) ==
    /\ \A u \in Turns \ {t} :
          /\ status'[u] = status[u] /\ seen'[u] = seen[u]
          /\ published'[u] = published[u]
    /\ \A q \in Callers \ {t} :
          pc'[q] = pc[q] /\ uuid'[q] = uuid[q] /\ handle'[q] = handle[q]
    /\ backend' = backend /\ ~deleted' /\ (deaths' = 0 => deaths = 0)

\* What only some steps change.
Careful(t) ==
    /\ status[t] \in {"ready", "error"} => status'[t] = status[t]
    /\ pc[t] \notin Building =>
          \A b \in Boxes : /\ work'[b] = work[b]
                           /\ b # handle[t] => state'[b] = state[b]
    /\ pc[t] # "adopt" \/ pc'[t] \notin {"enter", "restore"}
          => sandboxId' = sandboxId
    /\ pc[t] # "restore" =>
          \A b \in Boxes : state[b] # "none" => work[b] \subseteq work'[b]
    /\ pc[t] # "build" => published'[t] = published[t]

\* It ends, throws, waits for another attempt, or suspends.
Stops(t) ==
    /\ pc'[t] \in {"queued", "persist", "remove", "park", "dead", "ended"}
    /\ seen'[t] \in {seen[t], "none"}
    /\ uuid'[t] \in {uuid[t], None} /\ handle'[t] \in {handle[t], None}
    /\ \/ status'[t] = status[t]
       \/ status'[t] = "error" /\ InProgress(t)
    /\ status'[t] = status[t] /\ pc[t] \in {"write", "package", "build", "publish"}
          => deaths' # 0
    /\ pc[t] = "restore" /\ state[handle[t]] = "running" => deaths' # 0

Begins(t) ==
    /\ pc'[t] = "queued" /\ seen'[t] = seen[t]
    /\ status[t] = "none" /\ status'[t] = "pending"
    /\ t > 1 => status[t - 1] \in {"ready", "error"}

Starts(t) ==
    /\ pc[t] = "queued" /\ pc'[t] = "stage"
    /\ InProgress(t) /\ status'[t] = status[t] /\ seen'[t] = status[t]

Finds(t) ==
    /\ pc[t] = "stage" /\ pc'[t] = "find"
    /\ seen'[t] = seen[t] /\ uuid'[t] = sandboxId
    /\ \/ Order[seen[t]] <= 2 /\ status'[t] = "sandbox"
       \/ Order[seen[t]] > 2 /\ status'[t] = status[t]

NeedsNew(t) ==
    /\ pc[t] \in {"stage", "find", "resume", "mark"} /\ pc'[t] = "create"
    /\ seen'[t] = seen[t] /\ Order[seen[t]] <= 2
    /\ IF pc[t] = "stage" THEN status'[t] = "sandbox" ELSE status'[t] = status[t]

\* It resumes a sandbox, or has created one.
GoesOn(t) ==
    /\ <<pc[t], pc'[t]>> \in {<<"find", "resume">>, <<"resume", "mark">>,
                              <<"mark", "enter">>, <<"create", "insert">>}
    /\ seen'[t] = seen[t] /\ status'[t] = status[t] /\ uuid'[t] = uuid[t]

Registers(t) ==
    /\ pc[t] = "insert" /\ pc'[t] = "adopt"
    /\ seen'[t] = seen[t] /\ status'[t] = status[t]
    /\ handle'[t] = handle[t] /\ state' = state

\* It has the sandbox, and keeps it.
KeepsBox(t) ==
    seen'[t] = seen[t] /\ uuid'[t] = uuid[t] /\ handle'[t] = handle[t]

Adopts(t) ==
    /\ pc[t] = "adopt" /\ pc'[t] = IF t = 1 THEN "enter" ELSE "restore"
    /\ status'[t] = status[t] /\ sandboxId' = uuid[t]
    /\ KeepsBox(t) /\ state' = state

Refills(t) ==
    /\ pc[t] = "restore" /\ pc'[t] = "enter"
    /\ status'[t] = status[t] /\ KeepsBox(t)
    /\ \/ ReadyTurns = {}
       \/ \E u \in ReadyTurns : /\ \A v \in ReadyTurns : v <= u
                                /\ work'[handle[t]] = published[u]

Generates(t) ==
    /\ pc[t] = "enter" /\ pc'[t] = "write"
    /\ status'[t] = "generating" /\ KeepsBox(t) /\ Order[seen[t]] <= 3

Skips(t) ==
    /\ pc[t] = "enter" /\ pc'[t] = "package"
    /\ status'[t] = status[t] /\ KeepsBox(t) /\ Order[seen[t]] > 3

Writes(t) ==
    /\ pc[t] = "write" /\ pc'[t] = "package"
    /\ status'[t] = status[t] /\ KeepsBox(t) /\ t \in work'[handle[t]]

Packages(t) ==
    /\ pc[t] = "package" /\ pc'[t] = "build"
    /\ status'[t] = "packaging" /\ KeepsBox(t)

Uploads(t) ==
    /\ pc[t] = "build" /\ pc'[t] = "publish"
    /\ status'[t] = status[t] /\ KeepsBox(t)
    /\ published'[t] = work[handle[t]]

Publishes(t) ==
    /\ pc[t] = "publish" /\ pc'[t] = "persist"
    /\ status'[t] = "ready" /\ KeepsBox(t)

Deed(t) ==
    \/ Stops(t) \/ Begins(t) \/ Starts(t) \/ Finds(t) \/ NeedsNew(t)
    \/ GoesOn(t) \/ Registers(t) \/ Adopts(t) \/ Refills(t) \/ Generates(t)
    \/ Skips(t) \/ Writes(t) \/ Packages(t) \/ Uploads(t) \/ Publishes(t)

\* A job that goes somewhere, and one that leaves.
LEMMA JobGoes ==
    ASSUME CallerTypes, NEW t \in Callers, NEW l \in Places, Goto(t, l)
    PROVE  pc'[t] = l /\ \A q \in Callers \ {t} : pc'[q] = pc[q]
  BY DEF CallerTypes, Goto

\* A job that leaves the manager.
LEMMA JobLeaves ==
    ASSUME CallerTypes, NEW t \in Callers, NEW l \in Places, Leave(t, l)
    PROVE  /\ pc'[t] = l /\ seen'[t] = "none"
           /\ uuid'[t] = None /\ handle'[t] = None
           /\ \A q \in Callers \ {t} :
                 /\ pc'[q] = pc[q] /\ seen'[q] = seen[q]
                 /\ uuid'[q] = uuid[q] /\ handle'[q] = handle[q]
  BY DEF CallerTypes, Leave, Release, Goto

\* A job that starts over.
LEMMA JobReleases ==
    ASSUME CallerTypes, NEW t \in Callers, NEW l \in Places, Release(t, l)
    PROVE  /\ pc'[t] = l /\ uuid'[t] = None /\ handle'[t] = None
           /\ \A q \in Callers \ {t} :
                 pc'[q] = pc[q] /\ uuid'[q] = uuid[q] /\ handle'[q] = handle[q]
  BY DEF CallerTypes, Release, Goto

\* A status that is set.
LEMMA StatusMoves ==
    ASSUME AppTypes, NEW t \in Turns, NEW s, SetStatus(t, s)
    PROVE  /\ status'[t] = IF InProgress(t) THEN s ELSE status[t]
           /\ \A u \in Turns \ {t} : status'[u] = status[u]
  BY DEF AppTypes, SetStatus

\* Versions in progress have not ended.
LEMMA ProgressIsNoEnd ==
    \A t \in Turns : InProgress(t) =>
        status[t] \in {"pending", "sandbox", "generating", "packaging"}
  BY TypesAre DEF InProgress

\* What a job of a calm app starts from.
Calmly(t) ==
    /\ AppTypes /\ StoreTypes /\ CallerTypes /\ deaths \in Nat
    /\ t \in Turns /\ t \in Callers /\ ~deleted
    /\ pc[t] \notin Managing
    /\ pc[t] \in Building => InProgress(t) /\ Order[seen[t]] \in Nat
    /\ pc[t] \in HasBox => handle[t] \in Boxes

\* The deeds of a version, and of a job until it looks for a sandbox.
LEMMA BeginDeeds ==
    ASSUME NEW t, Calmly(t),
           Iterate(t) \/ StartPipeline(t) \/ EnterSandboxStage(t) \/ Reconnect(t)
    PROVE  Alone(t) /\ Careful(t) /\ Deed(t)
<1>0. /\ AppTypes /\ StoreTypes /\ CallerTypes /\ deaths \in Nat
      /\ t \in Turns /\ t \in Callers /\ ~deleted
      /\ pc[t] \in Building => InProgress(t) /\ Order[seen[t]] \in Nat
      /\ {"queued", "ended", "stage", "find", "create"} \subseteq Places
  BY DEF Calmly, Places
<1>z. \A u \in Turns : u \in Callers
  BY CallersAre
<1>1. CASE Iterate(t)
  <2>1. /\ pc'[t] = "queued" /\ \A q \in Callers \ {t} : pc'[q] = pc[q]
    BY <1>0, <1>1, JobGoes DEF Iterate
  <2>2. /\ status'[t] = "pending" /\ status[t] = "none"
        /\ \A u \in Turns \ {t} : status'[u] = status[u]
        /\ t > 1 => status[t - 1] \in {"ready", "error"}
    BY <1>0, <1>1 DEF Iterate, AppTypes
  <2>3. /\ backend' = backend /\ published' = published /\ sandboxId' = sandboxId
        /\ (deleted' <=> deleted) /\ work' = work /\ state' = state
        /\ seen' = seen /\ uuid' = uuid /\ handle' = handle /\ deaths' = deaths
    BY <1>1 DEF Iterate, removal, provider, held, bounds
  <2>. QED
    BY <1>0, <2>1, <2>2, <2>3 DEF Alone, Careful, Deed, Begins
<1>2. CASE StartPipeline(t)
  <2>1. /\ backend' = backend /\ published' = published /\ sandboxId' = sandboxId
        /\ (deleted' <=> deleted) /\ work' = work /\ state' = state
        /\ deaths' = deaths /\ status' = status /\ pc[t] = "queued"
    BY <1>0, <1>2 DEF StartPipeline, removal, provider, bounds
  <2>2. /\ \A q \in Callers \ {t} : pc'[q] = pc[q] /\ seen'[q] = seen[q]
        /\ uuid' = uuid /\ handle' = handle
        /\ \/ pc'[t] = "ended" /\ seen'[t] = seen[t]
           \/ pc'[t] = "stage" /\ seen'[t] = status[t] /\ InProgress(t)
    BY <1>0, <1>2, JobGoes DEF StartPipeline, held, CallerTypes
  <2>. QED
    BY <1>0, <1>z, <2>1, <2>2 DEF Alone, Careful, Deed, Starts, Stops, Building
<1>3. CASE EnterSandboxStage(t)
  <2>1. /\ backend' = backend /\ published' = published /\ sandboxId' = sandboxId
        /\ (deleted' <=> deleted) /\ work' = work /\ state' = state
        /\ deaths' = deaths /\ pc[t] = "stage" /\ Order[seen[t]] <= 2
        /\ SetStatus(t, "sandbox") /\ InProgress(t) /\ seen' = seen /\ handle' = handle
    BY <1>0, <1>3
       DEF EnterSandboxStage, removal, provider, bounds, ShouldRun, Order, Building
  <2>2. status'[t] = "sandbox" /\ \A u \in Turns \ {t} : status'[u] = status[u]
    BY <1>0, <2>1, StatusMoves
  <2>3. /\ \A q \in Callers \ {t} : pc'[q] = pc[q] /\ uuid'[q] = uuid[q]
        /\ \/ pc'[t] = "find" /\ uuid'[t] = sandboxId
           \/ pc'[t] = "create"
    <3>1. CASE t > 1 /\ sandboxId # None
      BY <1>0, <1>3, <2>1, <3>1, JobGoes DEF EnterSandboxStage, CallerTypes
    <3>2. CASE ~(t > 1 /\ sandboxId # None)
      BY <1>0, <1>3, <2>1, <3>2, JobGoes DEF EnterSandboxStage, CallerTypes
    <3>. QED
      BY <3>1, <3>2
  <2>4. status[t] \notin {"ready", "error"}
    BY <1>0, <2>1, ProgressIsNoEnd
  <2>. QED
    BY <1>0, <1>z, <2>1, <2>2, <2>3, <2>4
       DEF Alone, Careful, Deed, Finds, NeedsNew, Building
<1>4. CASE Reconnect(t)
  <2>1. /\ backend' = backend /\ published' = published /\ sandboxId' = sandboxId
        /\ (deleted' <=> deleted) /\ work' = work /\ state' = state
        /\ deaths' = deaths /\ pc[t] = "stage" /\ InProgress(t)
    BY <1>0, <1>4 DEF Reconnect, removal, provider, bounds, Building
  <2>2. status[t] \notin {"ready", "error"}
    BY <1>0, <2>1, ProgressIsNoEnd
  <2>3. CASE sandboxId = None
    <3>1. Leave(t, "ended") /\ SetStatus(t, "error")
      BY <1>0, <1>4, <2>3 DEF Reconnect, Abort
    <3>2. /\ pc'[t] = "ended" /\ seen'[t] = "none"
          /\ uuid'[t] = None /\ handle'[t] = None
          /\ \A q \in Callers \ {t} :
                /\ pc'[q] = pc[q] /\ seen'[q] = seen[q]
                /\ uuid'[q] = uuid[q] /\ handle'[q] = handle[q]
      BY <1>0, <3>1, JobLeaves
    <3>3. status'[t] = "error" /\ \A u \in Turns \ {t} : status'[u] = status[u]
      BY <1>0, <2>1, <3>1, StatusMoves
    <3>. QED
      BY <1>0, <1>z, <2>1, <2>2, <3>2, <3>3
         DEF Alone, Careful, Deed, Stops, Building
  <2>4. CASE sandboxId # None
    <3>1. /\ status' = status /\ seen' = seen /\ handle' = handle
          /\ ~(Order[seen[t]] <= 2)
          /\ pc'[t] = "find" /\ uuid'[t] = sandboxId
          /\ \A q \in Callers \ {t} : pc'[q] = pc[q] /\ uuid'[q] = uuid[q]
      BY <1>0, <1>4, <2>4, JobGoes
         DEF Reconnect, ShouldRun, Order, CallerTypes
    <3>2. Order[seen[t]] > 2
      BY <1>0, <2>1, <3>1 DEF Building
    <3>. QED
      BY <1>0, <1>z, <2>1, <2>2, <3>1, <3>2
         DEF Alone, Careful, Deed, Finds, Building
  <2>. QED
    BY <2>3, <2>4
<1>. QED
  BY <1>1, <1>2, <1>3, <1>4

\* A box that is created leaves the others as they are.
LEMMA BoxIsNew ==
    ASSUME StoreTypes, NEW b \in Boxes, NEW w, NewBox(b, w)
    PROVE  /\ \A c \in Boxes : state[c] # "none" => work[c] \subseteq work'[c]
  BY DEF StoreTypes, NewBox, NextBox

\* A resume that fails.
LEMMA ResumeFailsTo ==
    ASSUME NEW t, Calmly(t), pc[t] \in {"find", "resume", "mark"}, ResumeFails(t)
    PROVE  /\ \A u \in Turns \ {t} : status'[u] = status[u] /\ seen'[u] = seen[u]
           /\ \A q \in Callers \ {t} :
                 pc'[q] = pc[q] /\ uuid'[q] = uuid[q] /\ handle'[q] = handle[q]
           /\ NeedsNew(t) \/ Stops(t)
           /\ status[t] \notin {"ready", "error"}
<1>0. /\ AppTypes /\ CallerTypes /\ t \in Turns /\ t \in Callers /\ InProgress(t)
      /\ {"ended", "create"} \subseteq Places /\ \A u \in Turns : u \in Callers
  BY CallersAre DEF Calmly, Places, Building
<1>1. status[t] \notin {"ready", "error"}
  BY <1>0, ProgressIsNoEnd
<1>2. CASE ShouldRun(t, "sandbox") /\ Release(t, "create") /\ UNCHANGED <<status, seen>>
  <2>1. Order[seen[t]] <= 2
    BY <1>2 DEF ShouldRun, Order
  <2>2. /\ pc'[t] = "create"
        /\ \A q \in Callers \ {t} :
              pc'[q] = pc[q] /\ uuid'[q] = uuid[q] /\ handle'[q] = handle[q]
    BY <1>0, <1>2, JobReleases
  <2>. QED
    BY <1>0, <1>1, <1>2, <2>1, <2>2 DEF NeedsNew
<1>3. CASE Abort(t)
  <2>1. /\ pc'[t] = "ended" /\ seen'[t] = "none"
        /\ uuid'[t] = None /\ handle'[t] = None
        /\ \A q \in Callers \ {t} :
              /\ pc'[q] = pc[q] /\ seen'[q] = seen[q]
              /\ uuid'[q] = uuid[q] /\ handle'[q] = handle[q]
    BY <1>0, <1>3, JobLeaves DEF Abort
  <2>2. status'[t] = "error" /\ \A u \in Turns \ {t} : status'[u] = status[u]
    BY <1>0, <1>3, StatusMoves DEF Abort
  <2>. QED
    BY <1>0, <1>1, <2>1, <2>2 DEF Stops
<1>. QED
  BY <1>2, <1>3 DEF ResumeFails

\* The deeds of a job that finds, resumes or creates a sandbox.
LEMMA AcquireDeeds ==
    ASSUME NEW t, Calmly(t),
           \/ FindRow(t) \/ Resume(t) \/ ResumeThrows(t)
           \/ MarkRunning(t) \/ MarkRunningThrows(t)
           \/ Create(t) \/ CreateThrows(t) \/ InsertRow(t) \/ InsertThrows(t)
           \/ Adopt(t) \/ AdoptThrows(t)
    PROVE  Alone(t) /\ Careful(t) /\ Deed(t)
<1>0. /\ AppTypes /\ StoreTypes /\ CallerTypes /\ deaths \in Nat
      /\ t \in Turns /\ t \in Callers /\ ~deleted
      /\ pc[t] \in Building => InProgress(t) /\ Order[seen[t]] \in Nat
      /\ pc[t] \in HasBox => handle[t] \in Boxes
      /\ {"resume", "mark", "enter", "insert", "adopt", "restore", "ended"}
            \subseteq Places
      /\ \A u \in Turns : u \in Callers
  BY CallersAre DEF Calmly, Places
<1>1. CASE FindRow(t)
  <2>1. /\ backend' = backend /\ published' = published /\ sandboxId' = sandboxId
        /\ (deleted' <=> deleted) /\ work' = work /\ state' = state
        /\ deaths' = deaths /\ pc[t] = "find"
    BY <1>1 DEF FindRow, removal, provider, bounds
  <2>2. CASE ResumeFails(t)
    BY <1>0, <2>1, <2>2, ResumeFailsTo DEF Alone, Careful, Deed, Building
  <2>3. CASE ~ResumeFails(t)
    <3>1. /\ Goto(t, "resume") /\ status' = status /\ seen' = seen
          /\ uuid' = uuid /\ handle' = handle
      BY <1>1, <2>3 DEF FindRow
    <3>2. pc'[t] = "resume" /\ \A q \in Callers \ {t} : pc'[q] = pc[q]
      BY <1>0, <3>1, JobGoes
    <3>. QED
      BY <1>0, <2>1, <3>1, <3>2 DEF Alone, Careful, Deed, GoesOn, Building
  <2>. QED
    BY <2>2, <2>3
<1>2. CASE Resume(t)
  <2>1. /\ backend' = backend /\ published' = published /\ sandboxId' = sandboxId
        /\ (deleted' <=> deleted) /\ deaths' = deaths /\ pc[t] = "resume"
        /\ status' = status /\ seen' = seen /\ uuid' = uuid
    BY <1>2 DEF Resume, app, removal, bounds
  <2>2. pc'[t] = "mark" /\ \A q \in Callers \ {t} : pc'[q] = pc[q]
    BY <1>0, <1>2, JobGoes DEF Resume
  <2>3. \A q \in Callers \ {t} : handle'[q] = handle[q]
    BY <1>0, <1>2 DEF Resume, CallerTypes
  <2>4. \A c \in Boxes : state[c] # "none" => work[c] \subseteq work'[c]
    BY <1>0, <1>2, BoxIsNew DEF Resume, Connect
  <2>. QED
    BY <1>0, <2>1, <2>2, <2>3, <2>4 DEF Alone, Careful, Deed, GoesOn, Building
<1>3. CASE ResumeThrows(t)
  <2>1. /\ backend' = backend /\ published' = published /\ sandboxId' = sandboxId
        /\ (deleted' <=> deleted) /\ deaths' = deaths /\ pc[t] = "resume"
        /\ ResumeFails(t)
    BY <1>3 DEF ResumeThrows, removal
  <2>2. \A c \in Boxes : state[c] # "none" => work[c] \subseteq work'[c]
    BY <1>0, <1>3, BoxIsNew DEF ResumeThrows, provider
  <2>. QED
    BY <1>0, <2>1, <2>2, ResumeFailsTo DEF Alone, Careful, Deed, Building
<1>4. CASE MarkRunning(t)
  <2>1. /\ backend' = backend /\ published' = published /\ sandboxId' = sandboxId
        /\ (deleted' <=> deleted) /\ work' = work /\ state' = state
        /\ deaths' = deaths /\ pc[t] = "mark" /\ status' = status
        /\ seen' = seen /\ uuid' = uuid /\ handle' = handle
    BY <1>4 DEF MarkRunning, app, removal, provider, held, bounds
  <2>2. pc'[t] = "enter" /\ \A q \in Callers \ {t} : pc'[q] = pc[q]
    BY <1>0, <1>4, JobGoes DEF MarkRunning
  <2>. QED
    BY <1>0, <2>1, <2>2 DEF Alone, Careful, Deed, GoesOn, Building
<1>5. CASE Create(t)
  <2>1. /\ backend' = backend /\ published' = published /\ sandboxId' = sandboxId
        /\ (deleted' <=> deleted) /\ deaths' = deaths /\ pc[t] = "create"
        /\ status' = status /\ seen' = seen /\ uuid' = uuid
    BY <1>5 DEF Create, app, removal, bounds
  <2>2. pc'[t] = "insert" /\ \A q \in Callers \ {t} : pc'[q] = pc[q]
    BY <1>0, <1>5, JobGoes DEF Create
  <2>3. \A q \in Callers \ {t} : handle'[q] = handle[q]
    BY <1>0, <1>5 DEF Create, CallerTypes
  <2>4. \A c \in Boxes : state[c] # "none" => work[c] \subseteq work'[c]
    BY <1>0, <1>5, BoxIsNew DEF Create
  <2>. QED
    BY <1>0, <2>1, <2>2, <2>3, <2>4 DEF Alone, Careful, Deed, GoesOn, Building
<1>6. ASSUME pc[t] \in {"create", "insert", "adopt"}, Abort(t), work' = work,
             UNCHANGED <<backend, published, sandboxId, deletion, deleted, deaths>>
      PROVE  Alone(t) /\ Careful(t) /\ Deed(t)
  <2>0. status[t] \notin {"ready", "error"} /\ InProgress(t)
    BY <1>0, <1>6, ProgressIsNoEnd DEF Building
  <2>1. /\ pc'[t] = "ended" /\ seen'[t] = "none"
        /\ uuid'[t] = None /\ handle'[t] = None
        /\ \A q \in Callers \ {t} :
              /\ pc'[q] = pc[q] /\ seen'[q] = seen[q]
              /\ uuid'[q] = uuid[q] /\ handle'[q] = handle[q]
    BY <1>0, <1>6, JobLeaves DEF Abort
  <2>2. status'[t] = "error" /\ \A u \in Turns \ {t} : status'[u] = status[u]
    BY <1>0, <1>6, <2>0, StatusMoves DEF Abort
  <2>3. ~deleted'
    BY <1>0, <1>6
  <2>. QED
    BY <1>0, <1>6, <2>0, <2>1, <2>2, <2>3 DEF Alone, Careful, Deed, Stops, Building
<1>7. CASE CreateThrows(t)
  BY <1>6, <1>7 DEF CreateThrows, removal, provider
<1>8. CASE InsertRow(t)
  <2>1. /\ backend' = backend /\ published' = published /\ sandboxId' = sandboxId
        /\ (deleted' <=> deleted) /\ work' = work /\ state' = state
        /\ deaths' = deaths /\ pc[t] = "insert" /\ status' = status
        /\ seen' = seen /\ handle' = handle
    BY <1>8 DEF InsertRow, app, removal, provider, bounds
  <2>2. pc'[t] = "adopt" /\ \A q \in Callers \ {t} : pc'[q] = pc[q]
    BY <1>0, <1>8, JobGoes DEF InsertRow
  <2>3. \A q \in Callers \ {t} : uuid'[q] = uuid[q]
    BY <1>0, <1>8 DEF InsertRow, CallerTypes
  <2>. QED
    BY <1>0, <2>1, <2>2, <2>3 DEF Alone, Careful, Deed, Registers, Building
<1>9. CASE InsertThrows(t)
  BY <1>6, <1>9 DEF InsertThrows, removal
<1>10. CASE Adopt(t)
  <2>1. /\ backend' = backend /\ published' = published /\ sandboxId' = uuid[t]
        /\ (deleted' <=> deleted) /\ work' = work /\ state' = state
        /\ deaths' = deaths /\ pc[t] = "adopt" /\ status' = status
        /\ seen' = seen /\ uuid' = uuid /\ handle' = handle
    BY <1>0, <1>10 DEF Adopt, removal, provider, held, bounds
  <2>2. /\ pc'[t] = IF t = 1 THEN "enter" ELSE "restore"
        /\ \A q \in Callers \ {t} : pc'[q] = pc[q]
    BY <1>0, <1>10, JobGoes DEF Adopt
  <2>. QED
    BY <1>0, <2>1, <2>2 DEF Alone, Careful, Deed, Adopts, KeepsBox, Building
<1>11. CASE AdoptThrows(t)
  BY <1>6, <1>11 DEF AdoptThrows, removal, provider
<1>12. CASE MarkRunningThrows(t)
  <2>1. /\ backend' = backend /\ published' = published /\ sandboxId' = sandboxId
        /\ (deleted' <=> deleted) /\ work' = work /\ state' = state
        /\ deaths' = deaths /\ pc[t] = "mark" /\ ResumeFails(t)
    BY <1>12 DEF MarkRunningThrows, removal, provider
  <2>. QED
    BY <1>0, <2>1, ResumeFailsTo DEF Alone, Careful, Deed, Building
<1>. QED
  BY <1>1, <1>2, <1>3, <1>4, <1>5, <1>7, <1>8, <1>9, <1>10, <1>11, <1>12

\* The deeds of a job that builds a version.
LEMMA BuildDeeds ==
    ASSUME NEW t, Calmly(t),
           \/ RestoreSource(t) \/ RestoreThrows(t) \/ EnterGenerating(t)
           \/ Write(t) \/ EnterPackaging(t) \/ Package(t) \/ Publish(t)
    PROVE  Alone(t) /\ Careful(t) /\ Deed(t)
<1>0. /\ AppTypes /\ StoreTypes /\ CallerTypes /\ deaths \in Nat
      /\ t \in Turns /\ t \in Callers /\ ~deleted
      /\ pc[t] \in Building => InProgress(t) /\ Order[seen[t]] \in Nat
      /\ pc[t] \in HasBox => handle[t] \in Boxes
      /\ {"enter", "write", "package", "build", "publish", "persist", "ended"}
            \subseteq Places
      /\ \A u \in Turns : u \in Callers
  BY CallersAre DEF Calmly, Places
<1>1. CASE RestoreSource(t)
  <2>1. /\ backend' = backend /\ published' = published /\ sandboxId' = sandboxId
        /\ (deleted' <=> deleted) /\ deaths' = deaths /\ pc[t] = "restore"
        /\ status' = status /\ seen' = seen /\ uuid' = uuid /\ handle' = handle
    BY <1>1 DEF RestoreSource, app, removal, held, bounds
  <2>2. pc'[t] = "enter" /\ \A q \in Callers \ {t} : pc'[q] = pc[q]
    BY <1>0, <1>1, JobGoes DEF RestoreSource
  <2>3. handle[t] \in Boxes
    BY <1>0, <2>1 DEF HasBox
  <2>4. \/ ReadyTurns = {}
        \/ \E u \in ReadyTurns : /\ \A v \in ReadyTurns : v <= u
                                 /\ work'[handle[t]] = published[u]
    BY <1>0, <1>1, <2>3 DEF RestoreSource, StoreTypes
  <2>. QED
    BY <1>0, <2>1, <2>2, <2>4
       DEF Alone, Careful, Deed, Refills, KeepsBox, Building
<1>2. CASE RestoreThrows(t)
  <2>1. /\ backend' = backend /\ published' = published /\ sandboxId' = sandboxId
        /\ (deleted' <=> deleted) /\ work' = work /\ state' = state
        /\ pc[t] = "restore" /\ InProgress(t) /\ deaths' \in {deaths, deaths + 1}
        /\ state[handle[t]] = "running" => deaths' = deaths + 1
    BY <1>0, <1>2 DEF RestoreThrows, removal, provider, Building
  <2>2. status[t] \notin {"ready", "error"}
    BY <1>0, <2>1, ProgressIsNoEnd
  <2>3. /\ pc'[t] = "ended" /\ seen'[t] = "none"
        /\ uuid'[t] = None /\ handle'[t] = None
        /\ \A q \in Callers \ {t} :
              /\ pc'[q] = pc[q] /\ seen'[q] = seen[q]
              /\ uuid'[q] = uuid[q] /\ handle'[q] = handle[q]
    BY <1>0, <1>2, JobLeaves DEF RestoreThrows, Abort
  <2>4. status'[t] = "error" /\ \A u \in Turns \ {t} : status'[u] = status[u]
    BY <1>0, <1>2, <2>1, StatusMoves DEF RestoreThrows, Abort
  <2>. QED
    BY <1>0, <2>1, <2>2, <2>3, <2>4 DEF Alone, Careful, Deed, Stops, Building
<1>3. CASE EnterGenerating(t)
  <2>1. /\ backend' = backend /\ published' = published /\ sandboxId' = sandboxId
        /\ (deleted' <=> deleted) /\ work' = work /\ state' = state
        /\ deaths' = deaths /\ pc[t] = "enter" /\ InProgress(t)
        /\ seen' = seen /\ uuid' = uuid /\ handle' = handle
    BY <1>0, <1>3
       DEF EnterGenerating, removal, provider, held, bounds, Building
  <2>2. status[t] \notin {"ready", "error"}
    BY <1>0, <2>1, ProgressIsNoEnd
  <2>3. \A q \in Callers \ {t} : pc'[q] = pc[q]
    BY <1>0, <1>3, JobGoes DEF EnterGenerating
  <2>4. CASE status' = status /\ Goto(t, "persist")
    <3>1. pc'[t] = "persist"
      BY <1>0, <2>4, JobGoes
    <3>. QED
      BY <1>0, <2>1, <2>2, <2>3, <2>4, <3>1
         DEF Alone, Careful, Deed, Stops, Building
  <2>5. CASE status' = status /\ ~ShouldRun(t, "generating") /\ Goto(t, "package")
    <3>1. pc'[t] = "package" /\ Order[seen[t]] > 3
      BY <1>0, <2>1, <2>5, JobGoes DEF ShouldRun, Order, Building
    <3>. QED
      BY <1>0, <2>1, <2>2, <2>3, <2>5, <3>1
         DEF Alone, Careful, Deed, Skips, KeepsBox, Building
  <2>6. CASE /\ ShouldRun(t, "generating") /\ SetStatus(t, "generating")
             /\ Goto(t, "write")
    <3>1. /\ pc'[t] = "write" /\ status'[t] = "generating"
          /\ \A u \in Turns \ {t} : status'[u] = status[u]
      BY <1>0, <2>1, <2>6, JobGoes, StatusMoves
    <3>2. Order[seen[t]] <= 3
      BY <2>6 DEF ShouldRun, Order
    <3>. QED
      BY <1>0, <2>1, <2>2, <2>3, <3>1, <3>2
         DEF Alone, Careful, Deed, Generates, KeepsBox, Building
  <2>. QED
    BY <1>3, <2>1, <2>4, <2>5, <2>6 DEF EnterGenerating
<1>4. ASSUME pc[t] \in {"write", "build"}, Fail(t), work' = work,
             UNCHANGED <<backend, published, sandboxId, deletion, deleted, deaths,
                         seen, uuid, handle>>
      PROVE  Alone(t) /\ Careful(t) /\ Deed(t)
  <2>1. status[t] \notin {"ready", "error"} /\ InProgress(t)
    BY <1>0, <1>4, ProgressIsNoEnd DEF Building
  <2>2. pc'[t] = "persist" /\ \A q \in Callers \ {t} : pc'[q] = pc[q]
    BY <1>0, <1>4, JobGoes DEF Fail
  <2>3. status'[t] = "error" /\ \A u \in Turns \ {t} : status'[u] = status[u]
    BY <1>0, <1>4, <2>1, StatusMoves DEF Fail
  <2>4. ~deleted'
    BY <1>0, <1>4
  <2>. QED
    BY <1>0, <1>4, <2>1, <2>2, <2>3, <2>4
       DEF Alone, Careful, Deed, Stops, Building
<1>5. CASE Write(t)
  <2>1. /\ backend' = backend /\ published' = published /\ sandboxId' = sandboxId
        /\ (deleted' <=> deleted) /\ state' = state /\ deaths' = deaths
        /\ pc[t] = "write" /\ InProgress(t) /\ handle[t] \in Boxes
        /\ seen' = seen /\ uuid' = uuid /\ handle' = handle
    BY <1>0, <1>5 DEF Write, removal, held, bounds, Building, HasBox
  <2>2. CASE work' = work /\ Fail(t)
    BY <1>4, <1>5, <2>1, <2>2 DEF Write, removal
  <2>3. CASE /\ work' = [work EXCEPT ![handle[t]] = @ \cup {t}]
             /\ Goto(t, "package") /\ status' = status
    <3>1. pc'[t] = "package" /\ \A q \in Callers \ {t} : pc'[q] = pc[q]
      BY <1>0, <2>3, JobGoes
    <3>2. /\ t \in work'[handle[t]]
          /\ \A b \in Boxes : work[b] \subseteq work'[b]
      BY <1>0, <2>1, <2>3 DEF StoreTypes
    <3>. QED
      BY <1>0, <2>1, <2>3, <3>1, <3>2
         DEF Alone, Careful, Deed, Writes, KeepsBox, Building
  <2>. QED
    BY <1>5, <2>2, <2>3 DEF Write
<1>6. CASE EnterPackaging(t)
  <2>1. /\ backend' = backend /\ published' = published /\ sandboxId' = sandboxId
        /\ (deleted' <=> deleted) /\ work' = work /\ state' = state
        /\ deaths' = deaths /\ pc[t] = "package" /\ InProgress(t)
        /\ seen' = seen /\ uuid' = uuid /\ handle' = handle
    BY <1>0, <1>6
       DEF EnterPackaging, removal, provider, held, bounds, Building
  <2>2. status[t] \notin {"ready", "error"}
    BY <1>0, <2>1, ProgressIsNoEnd
  <2>3. pc'[t] = "build" /\ \A q \in Callers \ {t} : pc'[q] = pc[q]
    BY <1>0, <1>6, <2>1, JobGoes DEF EnterPackaging
  <2>4. status'[t] = "packaging" /\ \A u \in Turns \ {t} : status'[u] = status[u]
    BY <1>0, <1>6, <2>1, StatusMoves DEF EnterPackaging
  <2>. QED
    BY <1>0, <2>1, <2>2, <2>3, <2>4
       DEF Alone, Careful, Deed, Packages, KeepsBox, Building
<1>7. CASE Package(t)
  <2>1. /\ backend' = backend /\ sandboxId' = sandboxId
        /\ (deleted' <=> deleted) /\ work' = work /\ state' = state
        /\ deaths' = deaths /\ pc[t] = "build"
        /\ seen' = seen /\ uuid' = uuid /\ handle' = handle
    BY <1>0, <1>7 DEF Package, removal, provider, snapshots, held, bounds
  <2>2. CASE published' = published /\ Fail(t)
    BY <1>4, <2>1, <2>2, <1>7 DEF Package, removal
  <2>3. CASE /\ published' = [published EXCEPT ![t] = work[handle[t]]]
             /\ Goto(t, "publish") /\ status' = status
    <3>1. pc'[t] = "publish" /\ \A q \in Callers \ {t} : pc'[q] = pc[q]
      BY <1>0, <2>3, JobGoes
    <3>2. /\ published'[t] = work[handle[t]]
          /\ \A u \in Turns \ {t} : published'[u] = published[u]
      BY <1>0, <2>3 DEF AppTypes
    <3>. QED
      BY <1>0, <2>1, <2>3, <3>1, <3>2
         DEF Alone, Careful, Deed, Uploads, KeepsBox, Building
  <2>. QED
    BY <1>7, <2>2, <2>3 DEF Package
<1>8. CASE Publish(t)
  <2>1. /\ backend' = backend /\ published' = published /\ sandboxId' = sandboxId
        /\ (deleted' <=> deleted) /\ work' = work /\ state' = state
        /\ deaths' = deaths /\ pc[t] = "publish" /\ InProgress(t)
        /\ seen' = seen /\ uuid' = uuid /\ handle' = handle
    BY <1>0, <1>8 DEF Publish, removal, provider, held, bounds, Building
  <2>2. status[t] \notin {"ready", "error"}
    BY <1>0, <2>1, ProgressIsNoEnd
  <2>3. pc'[t] = "persist" /\ \A q \in Callers \ {t} : pc'[q] = pc[q]
    BY <1>0, <1>8, JobGoes DEF Publish
  <2>4. status'[t] = "ready" /\ \A u \in Turns \ {t} : status'[u] = status[u]
    BY <1>0, <1>8, <2>1, StatusMoves DEF Publish
  <2>. QED
    BY <1>0, <2>1, <2>2, <2>3, <2>4
       DEF Alone, Careful, Deed, Publishes, KeepsBox, Building
<1>. QED
  BY <1>1, <1>2, <1>3, <1>5, <1>6, <1>7, <1>8

\* The deeds of a job that suspends its sandbox, dies, or waits for a retry.
LEMMA EndDeeds ==
    ASSUME NEW t, Calmly(t), Manage(t) \/ Die(t) \/ Sweep(t)
    PROVE  Alone(t) /\ Careful(t) /\ Deed(t)
<1>0. /\ AppTypes /\ StoreTypes /\ CallerTypes /\ deaths \in Nat
      /\ t \in Turns /\ t \in Callers /\ ~deleted
      /\ pc[t] \notin Managing
      /\ pc[t] \in HasBox => handle[t] \in Boxes
      /\ {"park", "remove", "queued", "dead", "ended"} \subseteq Places
      /\ \A u \in Turns : u \in Callers
  BY CallersAre DEF Calmly, Places
<1>1. CASE Persist(t)
  <2>1. /\ backend' = backend /\ published' = published /\ sandboxId' = sandboxId
        /\ (deleted' <=> deleted) /\ work' = work /\ deaths' = deaths
        /\ pc[t] = "persist" /\ status' = status /\ seen' = seen
        /\ uuid' = uuid /\ handle' = handle
        /\ \/ state' = [state EXCEPT ![handle[t]] = "paused"]
           \/ state' = state
    BY <1>1 DEF Persist, app, removal, bounds
  <2>2. /\ pc'[t] \in {"park", "remove"}
        /\ \A q \in Callers \ {t} : pc'[q] = pc[q]
    BY <1>0, <1>1, JobGoes DEF Persist
  <2>3. \A b \in Boxes : b # handle[t] => state'[b] = state[b]
    BY <1>0, <2>1 DEF StoreTypes
  <2>. QED
    BY <1>0, <2>1, <2>2, <2>3 DEF Alone, Careful, Deed, Stops, Building
<1>2. CASE Remove(t)
  <2>1. /\ backend' = backend /\ published' = published /\ sandboxId' = sandboxId
        /\ (deleted' <=> deleted) /\ work' = work /\ deaths' = deaths
        /\ pc[t] = "remove" /\ status' = status /\ seen' = seen
        /\ uuid' = uuid /\ handle' = handle
        /\ \/ state' = [state EXCEPT ![handle[t]] = "gone"]
           \/ state' = state
    BY <1>2 DEF Remove, Destroy, app, removal, held
  <2>2. pc'[t] = "park" /\ \A q \in Callers \ {t} : pc'[q] = pc[q]
    BY <1>0, <1>2, JobGoes DEF Remove
  <2>3. \A b \in Boxes : b # handle[t] => state'[b] = state[b]
    BY <1>0, <2>1 DEF StoreTypes
  <2>. QED
    BY <1>0, <2>1, <2>2, <2>3 DEF Alone, Careful, Deed, Stops, Building
<1>3. Finish(t) \in {"queued", "ended"}
  BY CallersAre, <1>0 DEF Finish
<1>4. CASE PersistThrows(t) \/ MarkSuspended(t) \/ MarkSuspendedThrows(t)
  <2>1. /\ backend' = backend /\ published' = published /\ sandboxId' = sandboxId
        /\ (deleted' <=> deleted) /\ work' = work /\ state' = state
        /\ deaths' = deaths /\ pc[t] \in {"persist", "park"} /\ status' = status
        /\ Leave(t, Finish(t))
    BY <1>4
       DEF PersistThrows, MarkSuspended, MarkSuspendedThrows, app, removal,
           provider, bounds
  <2>2. /\ pc'[t] \in {"queued", "ended"} /\ seen'[t] = "none"
        /\ uuid'[t] = None /\ handle'[t] = None
        /\ \A q \in Callers \ {t} :
              /\ pc'[q] = pc[q] /\ seen'[q] = seen[q]
              /\ uuid'[q] = uuid[q] /\ handle'[q] = handle[q]
    BY <1>0, <1>3, <2>1, JobLeaves
  <2>. QED
    BY <1>0, <2>1, <2>2 DEF Alone, Careful, Deed, Stops, Building
<1>5. CASE Die(t)
  <2>1. /\ backend' = backend /\ published' = published /\ sandboxId' = sandboxId
        /\ (deleted' <=> deleted) /\ work' = work /\ state' = state
        /\ deaths' = deaths + 1 /\ status' = status /\ Leave(t, "dead")
    BY <1>5 DEF Die, app, removal, provider
  <2>2. /\ pc'[t] = "dead" /\ seen'[t] = "none"
        /\ uuid'[t] = None /\ handle'[t] = None
        /\ \A q \in Callers \ {t} :
              /\ pc'[q] = pc[q] /\ seen'[q] = seen[q]
              /\ uuid'[q] = uuid[q] /\ handle'[q] = handle[q]
    BY <1>0, <2>1, JobLeaves
  <2>3. deaths' # 0
    BY <1>0, <2>1
  <2>. QED
    BY <1>0, <2>1, <2>2, <2>3 DEF Alone, Careful, Deed, Stops, Building
<1>6. CASE Sweep(t)
  <2>1. /\ backend' = backend /\ published' = published /\ sandboxId' = sandboxId
        /\ (deleted' <=> deleted) /\ work' = work /\ state' = state
        /\ deaths' = deaths /\ status' = status /\ pc[t] = "dead"
        /\ seen' = seen /\ uuid' = uuid /\ handle' = handle
    BY <1>6 DEF Sweep, app, removal, provider, held, bounds
  <2>2. pc'[t] = "queued" /\ \A q \in Callers \ {t} : pc'[q] = pc[q]
    BY <1>0, <1>6, JobGoes DEF Sweep
  <2>. QED
    BY <1>0, <2>1, <2>2 DEF Alone, Careful, Deed, Stops, Building
<1>7. ~ \/ FindOrphan(t) \/ ConnectOrphan(t) \/ ConnectThrows(t)
        \/ FindDoomed(t) \/ Kill(t) \/ KillThrows(t) \/ DeleteSnapshot(t)
        \/ Unregister(t) \/ UnregisterThrows(t)
  BY <1>0
     DEF Managing, FindOrphan, ConnectOrphan, ConnectThrows, FindDoomed, Kill,
         KillThrows, DeleteSnapshot, Unregister, UnregisterThrows
<1>. QED
  BY <1>1, <1>2, <1>4, <1>5, <1>6, <1>7 DEF Manage

(***************************************************************************)
(* A step of a calm app is one of a job.                                   *)
(***************************************************************************)

\* Whoever is asked to cancel or to delete does not become idle again.
LEMMA RequestsStay ==
    ASSUME CallerTypes, NEW p \in Callers \ Turns,
           \/ Manage(p)
           \/ \E t \in Cancellable : p = Canceller(t) /\ (BeginCancel(t) \/ Cancel(t))
           \/ p = Deleter /\ (BeginDelete \/ Drop)
    PROVE  pc'[p] # "idle"
<1>0. Finish(p) # "idle"
  BY DEF Finish
<1>1. ASSUME NEW l, Goto(p, l) PROVE pc'[p] = l
  BY <1>1 DEF CallerTypes, Goto
<1>2. ASSUME NEW l, Leave(p, l) PROVE pc'[p] = l
  BY <1>1, <1>2 DEF Leave, Release
<1>3. CASE \/ Persist(p) \/ PersistThrows(p) \/ Remove(p)
           \/ MarkSuspended(p) \/ MarkSuspendedThrows(p)
  BY <1>0, <1>1, <1>2, <1>3
     DEF Persist, PersistThrows, Remove, MarkSuspended, MarkSuspendedThrows
<1>4. CASE FindOrphan(p) \/ ConnectOrphan(p) \/ ConnectThrows(p)
  BY <1>0, <1>1, <1>2, <1>4 DEF FindOrphan, ConnectOrphan, ConnectThrows
<1>5. CASE \/ FindDoomed(p) \/ Kill(p) \/ KillThrows(p) \/ DeleteSnapshot(p)
           \/ Unregister(p) \/ UnregisterThrows(p)
  BY <1>0, <1>1, <1>2, <1>5
     DEF FindDoomed, Kill, KillThrows, DeleteSnapshot, Unregister,
         UnregisterThrows
<1>6. CASE \E t \in Cancellable : p = Canceller(t) /\ (BeginCancel(t) \/ Cancel(t))
  BY <1>1, <1>6 DEF BeginCancel, Cancel
<1>7. CASE p = Deleter /\ (BeginDelete \/ Drop)
  BY <1>1, <1>2, <1>7 DEF BeginDelete, Drop
<1>. QED
  BY <1>3, <1>4, <1>5, <1>6, <1>7 DEF Manage

\* What a calm app gives its jobs.
LEMMA CalmGives ==
    ASSUME SandboxInv, CalmInv, NEW t \in Turns
    PROVE  Calmly(t)
<1>1. TypeOK /\ PlacesAreKnown
  BY DEF SandboxInv
<1>2. AppTypes /\ StoreTypes /\ CallerTypes /\ deaths \in Nat
  BY <1>1, TypesAre, SandboxAssumption DEF BoundTypes, SandboxAssumption
<1>3. pc[t] \in HasBox => handle[t] \in Boxes
  BY <1>1, <1>2, CallersAre DEF PlacesAreKnown, CallerTypes
<1>4. /\ ~deleted /\ pc[t] \notin Managing
      /\ pc[t] \in Building => InProgress(t) /\ seen[t] \in Stages
  BY DEF CalmInv, StagesAreInOrder
<1>5. \A s \in Stages : Order[s] \in Nat
  BY DEF Stages, Order
<1>. QED
  BY <1>2, <1>3, <1>4, <1>5, CallersAre DEF Calmly

\* An app that is calm after a step was calm before, and a job stepped.
LEMMA CalmSteps ==
    ASSUME WorkInv, Next, Calm'
    PROVE  /\ Calm /\ CalmInv
           /\ \E t \in Turns : Alone(t) /\ Careful(t) /\ Deed(t)
<1>1. TypeOK /\ SandboxInv /\ CallerTypes
  BY TypesAre DEF WorkInv, SandboxInv
<1>2. \E t \in Turns : Iterate(t) \/ Job(t)
  <2>1. ASSUME NEW t \in Cancellable, Cancellation(t) PROVE FALSE
    BY <1>1, <2>1, RequestsStay, CallersAre DEF Cancellation, Calm
  <2>2. ~Deletion
    BY <1>1, RequestsStay, CallersAre DEF Deletion, Calm
  <2>. QED
    BY <2>1, <2>2 DEF Next
<1>3. PICK t \in Turns : Iterate(t) \/ Job(t)
  BY <1>2
<1>4. Frame(t)
  BY <1>1, <1>3, BeginStep, AcquireStep, BuildStep, SuspendStep, DestroyStep,
     CallersAre
     DEF SandboxInv, Basis, Job, Advance, Manage
<1>5. Calm
  BY <1>3, <1>4, CallersAre DEF Calm, Frame
<1>6. CalmInv /\ Calmly(t)
  BY <1>1, <1>3, <1>5, CalmGives DEF WorkInv
<1>. QED
  BY <1>3, <1>5, <1>6, BeginDeeds, AcquireDeeds, BuildDeeds, EndDeeds
     DEF Job, Advance

(***************************************************************************)
(* Every deed keeps the invariants.                                        *)
(***************************************************************************)

\* What the invariants say of a job.
Sound(t) ==
    /\ Calmly(t) /\ None \notin Boxes
    /\ backend \in {"pause", "store"} /\ sandboxId \in Boxes \cup {None}
    /\ deaths' \in Nat
    /\ pc[t] \in Building =>
          /\ status[t] \in {"pending", "sandbox", "generating", "packaging"}
          /\ seen[t] \in {"pending", "sandbox", "generating", "packaging"}
    /\ handle[t] \in Boxes => state[handle[t]] # "none"
    /\ sandboxId \in Boxes => state[sandboxId] # "none"
    /\ backend = "pause" /\ pc[t] \in HasBox \ {"insert"} => handle[t] = uuid[t]
    /\ pc[t] = "insert" =>
          /\ state[handle[t]] = "running"
          /\ \A q \in Callers \ {t} : uuid[q] # handle[t] /\ handle[q] # handle[t]
    /\ StagesAreInOrder(t) /\ SandboxIsTheApps(t) /\ OwnWorkIsThere(t)
    /\ NewIsOwn(t) /\ EarlierWorkIsThere(t)

\* The invariants give it.
LEMMA InvIsSound ==
    ASSUME SandboxInv, SandboxInv', CalmInv, NEW t \in Turns
    PROVE  Sound(t)
<1>1. /\ Calmly(t) /\ sandboxId \in Boxes \cup {None}
      /\ NewIsUnknown /\ PausedInPlace /\ PlacesAreKnown
  BY CalmGives, TypesAre DEF SandboxInv, AppTypes
<1>2. None \notin Boxes /\ backend \in {"pause", "store"}
  BY InvGives, CallersAre
<1>3. deaths' \in Nat
  BY SandboxAssumption DEF SandboxInv, TypeOK, SandboxAssumption
<1>4. /\ StagesAreInOrder(t) /\ SandboxIsTheApps(t) /\ OwnWorkIsThere(t)
      /\ NewIsOwn(t) /\ EarlierWorkIsThere(t)
  BY DEF CalmInv
<1>5. pc[t] \in Building =>
          /\ status[t] \in {"pending", "sandbox", "generating", "packaging"}
          /\ seen[t] \in {"pending", "sandbox", "generating", "packaging"}
  BY <1>4, TypesAre DEF StagesAreInOrder, InProgress
<1>6. /\ handle[t] \in Boxes => state[handle[t]] # "none"
      /\ sandboxId \in Boxes => state[sandboxId] # "none"
  BY <1>1, CallersAre DEF NewIsUnknown, Unknown
<1>7. backend = "pause" /\ pc[t] \in HasBox \ {"insert"} => handle[t] = uuid[t]
  BY <1>1, CallersAre DEF PausedInPlace, PlacesAreKnown
<1>8. pc[t] = "insert" =>
          /\ state[handle[t]] = "running"
          /\ \A q \in Callers \ {t} : uuid[q] # handle[t] /\ handle[q] # handle[t]
  BY <1>1, CallersAre DEF NewIsUnknown, Unknown
<1>. QED
  BY <1>1, <1>2, <1>3, <1>4, <1>5, <1>6, <1>7, <1>8 DEF Sound

\* Versions are built one after the other.
LEMMA OnlyOneBuilds ==
    ASSUME OneAtATime, NEW t \in Turns, NEW u \in Turns, InProgress(t), InProgress(u)
    PROVE  t = u
<1>1. t < u \/ u < t \/ t = u
  BY CallersAre
<1>2. /\ status[t] \notin {"none", "ready", "error"}
      /\ status[u] \notin {"none", "ready", "error"}
  BY ProgressIsNoEnd
<1>. QED
  BY <1>1, <1>2 DEF OneAtATime

\* Which versions are ready.
LEMMA ReadyStays ==
    ASSUME NEW t \in Turns, Sound(t), Alone(t), Careful(t), Deed(t)
    PROVE  /\ \A v \in Turns \ {t} : status'[v] = status[v]
           /\ ~Publishes(t) => ReadyTurns' = ReadyTurns
           /\ ReadyTurns' \subseteq ReadyTurns \cup {t}
           /\ status[t] = "none" /\ status'[t] # "none" => Begins(t)
<1>1. \A v \in Turns \ {t} : status'[v] = status[v]
  BY DEF Alone
<1>2. pc[t] \in Building => status[t] \notin {"none", "ready", "error"}
  BY DEF Sound
<1>3. InProgress(t) => status[t] \notin {"none", "ready", "error"}
  BY ProgressIsNoEnd
<1>4. ~Publishes(t) => (status'[t] = "ready" <=> status[t] = "ready")
  BY <1>2, <1>3
     DEF Deed, Stops, Begins, Starts, Finds, NeedsNew, GoesOn, Registers, Adopts,
         Refills, Generates, Skips, Writes, Packages, Uploads, Building
<1>5. status[t] = "none" /\ status'[t] # "none" => Begins(t)
  BY <1>2, <1>3
     DEF Deed, Stops, Starts, Finds, NeedsNew, GoesOn, Registers, Adopts,
         Refills, Generates, Skips, Writes, Packages, Uploads, Publishes, Building
<1>. QED
  BY <1>1, <1>4, <1>5 DEF ReadyTurns

\* Versions stay one after the other.
LEMMA OneStep ==
    ASSUME OneAtATime, NEW t \in Turns, Sound(t), Alone(t), Careful(t), Deed(t)
    PROVE  OneAtATime'
<1>. SUFFICES ASSUME NEW x \in Turns, NEW u \in Turns, status'[x] # "none", u < x
              PROVE  status'[u] \in {"ready", "error"}
  BY DEF OneAtATime
<1>1. \A v \in Turns : status[v] \in {"ready", "error"} => status'[v] = status[v]
  BY ReadyStays DEF Careful
<1>2. CASE status[x] # "none"
  BY <1>1, <1>2 DEF OneAtATime
<1>3. CASE status[x] = "none"
  <2>1. x = t /\ Begins(t)
    BY <1>3, ReadyStays
  <2>2. t > 1 /\ t - 1 \in Turns
    BY <2>1, SandboxAssumption DEF Turns, SandboxAssumption
  <2>5. status[t - 1] \in {"ready", "error"}
    BY <2>1, <2>2 DEF Begins
  <2>3. CASE u = t - 1
    BY <1>1, <2>5, <2>3
  <2>4. CASE u < t - 1
    BY <1>1, <2>2, <2>5, <2>4 DEF OneAtATime
  <2>. QED
    BY <2>1, <2>3, <2>4 DEF Turns
<1>. QED
  BY <1>2, <1>3

\* What is true of another version stays true.
LEMMA OthersStep ==
    ASSUME OneAtATime, NEW t \in Turns, Sound(t), Alone(t), Careful(t), Deed(t),
           NEW u \in Turns, u # t, Sound(u)
    PROVE  (/\ StagesAreInOrder(u) /\ SandboxIsTheApps(u) /\ OwnWorkIsThere(u)
            /\ NewIsOwn(u) /\ EarlierWorkIsThere(u))'
<1>1. /\ status'[u] = status[u] /\ seen'[u] = seen[u] /\ published'[u] = published[u]
      /\ pc'[u] = pc[u] /\ uuid'[u] = uuid[u] /\ handle'[u] = handle[u]
      /\ backend' = backend /\ (deaths' = 0 => deaths = 0)
      /\ u \in Callers /\ t \in Callers
  BY CallersAre DEF Alone
<1>2. InProgress(u) => pc[t] \notin Building
  BY OnlyOneBuilds DEF Sound, Calmly
<1>3. InProgress(u) => /\ sandboxId' = sandboxId
                       /\ \A b \in Boxes : /\ work'[b] = work[b]
                                           /\ b # handle[t] => state'[b] = state[b]
  BY <1>2 DEF Careful, Building
<1>4. InProgress(u)' <=> InProgress(u)
  BY <1>1 DEF InProgress
<1>5. pc[u] \in Building => InProgress(u) /\ pc[u] # "idle"
  BY DEF Sound, Calmly, Building
<1>6. StagesAreInOrder(u)'
  BY <1>1, <1>4 DEF Sound, StagesAreInOrder
<1>7. SandboxIsTheApps(u)'
  BY <1>1, <1>3, <1>5 DEF Sound, SandboxIsTheApps
<1>8. OwnWorkIsThere(u)'
  <2>1. status[u] = "packaging" => InProgress(u)
    BY TypesAre DEF InProgress
  <2>2. pc[u] \in {"package", "build", "publish"} => InProgress(u) /\ handle[u] \in Boxes
    BY <1>5 DEF Sound, Calmly, Building, HasBox
  <2>. QED
    BY <1>1, <1>3, <2>1, <2>2 DEF Sound, OwnWorkIsThere
<1>9. NewIsOwn(u)'
  <2>. SUFFICES ASSUME backend = "pause", deaths = 0, pc[u] \in {"adopt", "restore"}
                PROVE  /\ state'[handle[u]] = "running"
                       /\ \A q \in Callers \ {u} :
                             uuid'[q] # handle[u] /\ handle'[q] # handle[u]
    BY <1>1 DEF NewIsOwn
  <2>1. /\ state[handle[u]] = "running" /\ handle[u] \in Boxes /\ InProgress(u)
        /\ \A q \in Callers \ {u} : uuid[q] # handle[u] /\ handle[q] # handle[u]
    BY <1>5 DEF Sound, Calmly, NewIsOwn, Building, HasBox
  <2>2. state'[handle[u]] = "running"
    BY <1>1, <1>3, <2>1
  <2>3. Stops(t) \/ Begins(t)
    <3>1. ~InProgress(t)
      BY <2>1, OnlyOneBuilds
    <3>. QED
      BY <1>2, <2>1, <3>1
         DEF Deed, Starts, Finds, NeedsNew, GoesOn, Registers, Adopts, Refills,
             Generates, Skips, Writes, Packages, Uploads, Publishes, Building
  <2>4. CASE Stops(t)
    BY <1>1, <2>1, <2>2, <2>4 DEF Stops, Alone, Sound
  <2>5. ~Begins(t)
    <3>1. status[u] \notin {"none", "ready", "error"}
      BY <2>1, ProgressIsNoEnd
    <3>2. ASSUME Begins(t) PROVE FALSE
      <4>1. t \in Nat /\ u \in Nat /\ u > 0 /\ (t > 1 => t - 1 \in Turns)
        BY SandboxAssumption DEF Turns, SandboxAssumption
      <4>2. ~(t < u)
        BY <3>1, <3>2 DEF OneAtATime, Begins
      <4>3. t > 1 /\ t - 1 \in Turns /\ (u = t - 1 \/ u < t - 1)
        BY <4>1, <4>2
      <4>4. status[t - 1] \in {"ready", "error"}
        BY <3>2, <4>3 DEF Begins
      <4>. QED
        BY <3>1, <4>3, <4>4 DEF OneAtATime
    <3>. QED
      BY <3>2
  <2>. QED
    BY <2>3, <2>4, <2>5
<1>10. EarlierWorkIsThere(u)'
  <2>1. pc[u] = "publish" => ReadyTurns' = ReadyTurns
    BY <1>2, <1>5, ReadyStays DEF Publishes, Building
  <2>2. status[u] = "ready" => ReadyBefore(u)' = ReadyBefore(u)
    <3>1. \A v \in Turns : status[v] \in {"ready", "error"} => status'[v] = status[v]
      BY ReadyStays DEF Careful
    <3>. QED
      BY <3>1 DEF OneAtATime, ReadyBefore
  <2>. QED
    BY <1>1, <2>1, <2>2 DEF Sound, EarlierWorkIsThere
<1>. QED
  BY <1>6, <1>7, <1>8, <1>9, <1>10

\* The stages and their order.
LEMMA OrderIs ==
    /\ Stages = {"pending", "sandbox", "generating", "packaging"}
    /\ Order["pending"] = 1 /\ Order["sandbox"] = 2
    /\ Order["generating"] = 3 /\ Order["packaging"] = 4
  BY DEF Stages, Order

\* The stages of the version that is built.
LEMMA OwnStagesStep ==
    ASSUME NEW t \in Turns, Sound(t), Alone(t), Careful(t), Deed(t)
    PROVE  StagesAreInOrder(t)'
<1>0. /\ deaths' = 0 => deaths = 0
      /\ deaths' \in Nat /\ StagesAreInOrder(t)
      /\ pc[t] \in Building =>
            /\ status[t] \in {"pending", "sandbox", "generating", "packaging"}
            /\ seen[t] \in {"pending", "sandbox", "generating", "packaging"}
  BY DEF Sound, Alone
<1>. DEFINE Early(p) == p \in {"find", "resume", "mark", "enter"}
            New(p) == p \in {"create", "insert", "adopt", "restore"}
            Late(p) == p \in {"write", "package", "build", "publish"}
<1>1. SUFFICES
        /\ pc'[t] \notin Managing
        /\ pc'[t] \in Building =>
              /\ status'[t] \in {"pending", "sandbox", "generating", "packaging"}
              /\ seen'[t] \in {"pending", "sandbox", "generating", "packaging"}
              /\ Order[seen'[t]] <= Order[status'[t]]
        /\ New(pc'[t]) \/ (Early(pc'[t]) /\ Order[seen'[t]] <= 2)
              => status'[t] = "sandbox"
        /\ deaths' = 0 =>
              /\ seen'[t] \in {"none", "pending", "sandbox"}
              /\ status'[t] \in {"generating", "packaging"} => Late(pc'[t])
  BY OrderIs DEF StagesAreInOrder, InProgress
<1>2. /\ pc[t] \in Building => Order[seen[t]] <= Order[status[t]]
      /\ New(pc[t]) \/ (Early(pc[t]) /\ Order[seen[t]] <= 2) => status[t] = "sandbox"
      /\ deaths = 0 =>
            /\ seen[t] \in {"none", "pending", "sandbox"}
            /\ status[t] \in {"generating", "packaging"} => Late(pc[t])
  BY <1>0 DEF StagesAreInOrder
<1>3. CASE Stops(t)
  BY <1>0, <1>2, <1>3 DEF Stops, Building, Managing
<1>4. CASE Begins(t)
  BY <1>0, <1>2, <1>4 DEF Begins, Building, Managing
<1>5. CASE Starts(t)
  <2>1. status[t] \in {"pending", "sandbox", "generating", "packaging"}
    BY <1>5, ProgressIsNoEnd DEF Starts
  <2>. QED
    BY <1>0, <1>2, <1>5, <2>1, OrderIs DEF Starts, Building, Managing
<1>6. CASE Finds(t)
  BY <1>0, <1>2, <1>6, OrderIs DEF Finds, Building, Managing
<1>7. CASE NeedsNew(t)
  BY <1>0, <1>2, <1>7, OrderIs DEF NeedsNew, Building, Managing
<1>8. CASE GoesOn(t)
  BY <1>0, <1>2, <1>8, OrderIs DEF GoesOn, Building, Managing
<1>9. CASE Registers(t)
  BY <1>0, <1>2, <1>9, OrderIs DEF Registers, Building, Managing
<1>10. CASE Adopts(t)
  BY <1>0, <1>2, <1>10, OrderIs DEF Adopts, KeepsBox, Building, Managing
<1>11. CASE Refills(t)
  BY <1>0, <1>2, <1>11, OrderIs DEF Refills, KeepsBox, Building, Managing
<1>12. CASE Generates(t)
  BY <1>0, <1>2, <1>12, OrderIs DEF Generates, KeepsBox, Building, Managing
<1>13. CASE Skips(t)
  BY <1>0, <1>2, <1>13, OrderIs DEF Skips, KeepsBox, Building, Managing
<1>14. CASE Writes(t)
  BY <1>0, <1>2, <1>14, OrderIs DEF Writes, KeepsBox, Building, Managing
<1>15. CASE Packages(t)
  BY <1>0, <1>2, <1>15, OrderIs DEF Packages, KeepsBox, Building, Managing
<1>16. CASE Uploads(t)
  BY <1>0, <1>2, <1>16, OrderIs DEF Uploads, KeepsBox, Building, Managing
<1>17. CASE Publishes(t)
  BY <1>0, <1>2, <1>17, OrderIs DEF Publishes, KeepsBox, Building, Managing
<1>. QED
  BY <1>3, <1>4, <1>5, <1>6, <1>7, <1>8, <1>9, <1>10, <1>11, <1>12, <1>13,
     <1>14, <1>15, <1>16, <1>17 DEF Deed

\* Its sandbox is the app's.
LEMMA OwnSandboxStep ==
    ASSUME NEW t \in Turns, Sound(t), Alone(t), Careful(t), Deed(t)
    PROVE  SandboxIsTheApps(t)'
<1>1. pc[t] # "adopt" => sandboxId' = sandboxId
  BY DEF Careful
<1>2. pc[t] \in Building \ {"stage", "create", "insert", "adopt"}
        => uuid[t] = sandboxId
  BY DEF Sound, SandboxIsTheApps
<1>3. CASE Stops(t) \/ Begins(t) \/ Starts(t) \/ Finds(t) \/ NeedsNew(t)
  BY <1>1, <1>3
     DEF SandboxIsTheApps, Building, Stops, Begins, Starts, Finds, NeedsNew
<1>4. CASE GoesOn(t) \/ Registers(t) \/ Adopts(t) \/ Refills(t) \/ Generates(t)
  BY <1>1, <1>2, <1>4
     DEF SandboxIsTheApps, Building, GoesOn, Registers, Adopts, Refills,
         Generates, KeepsBox
<1>5. CASE \/ Skips(t) \/ Writes(t) \/ Packages(t) \/ Uploads(t) \/ Publishes(t)
  BY <1>1, <1>2, <1>5
     DEF SandboxIsTheApps, Building, Skips, Writes, Packages, Uploads,
         Publishes, KeepsBox
<1>. QED
  BY <1>3, <1>4, <1>5 DEF Deed

\* A provider that pauses has the app's sandbox for the job that builds.
LEMMA HandleIsTheApps ==
    ASSUME NEW t \in Turns, Sound(t), backend = "pause",
           pc[t] \in {"mark", "restore", "enter", "write", "package", "build", "publish"}
    PROVE  handle[t] = sandboxId /\ handle[t] \in Boxes
  BY DEF Sound, Calmly, SandboxIsTheApps, Building, HasBox

\* Its own work is in the sandbox, and in what is published.
LEMMA OwnWorkStep ==
    ASSUME NEW t \in Turns, Sound(t), Alone(t), Careful(t), Deed(t)
    PROVE  OwnWorkIsThere(t)'
<1>0. /\ backend' = backend /\ backend \in {"pause", "store"}
      /\ deaths' = 0 => deaths = 0
      /\ pc[t] \in HasBox => handle[t] \in Boxes /\ state[handle[t]] # "none"
      /\ sandboxId \in Boxes => state[sandboxId] # "none"
      /\ pc[t] # "adopt" => sandboxId' = sandboxId
      /\ pc[t] # "restore" =>
            \A b \in Boxes : state[b] # "none" => work[b] \subseteq work'[b]
      /\ pc[t] # "build" => published'[t] = published[t]
  BY DEF Sound, Calmly, Alone, Careful
<1>1. /\ backend = "pause" /\ status[t] = "packaging"
            => sandboxId \in Boxes /\ t \in work[sandboxId]
      /\ backend = "pause" \/ deaths = 0 =>
            /\ pc[t] \in {"package", "build", "publish"} => t \in work[handle[t]]
            /\ pc[t] = "publish" \/ status[t] = "ready" => t \in published[t]
  BY DEF Sound, OwnWorkIsThere
<1>2. /\ pc[t] \in {"adopt", "restore"} => status[t] = "sandbox"
      /\ pc[t] \in Building => InProgress(t) /\ status[t] # "ready"
  BY DEF Sound, StagesAreInOrder, Calmly
<1>3. backend = "pause" /\ status[t] = "packaging"
          => sandboxId' \in Boxes /\ t \in work'[sandboxId']
  BY <1>0, <1>1, <1>2
<1>4. CASE Stops(t) \/ Begins(t) \/ Starts(t) \/ Finds(t) \/ NeedsNew(t)
  <2>1. /\ pc'[t] \notin {"package", "build", "publish"}
        /\ status'[t] = status[t] \/ status'[t] \notin {"packaging", "ready"}
    BY <1>4 DEF Stops, Begins, Starts, Finds, NeedsNew
  <2>2. status'[t] = "ready" => t \notin {} /\ pc[t] # "build"
    BY <1>2, <2>1 DEF Building
  <2>. QED
    BY <1>0, <1>1, <1>3, <2>1, <2>2 DEF OwnWorkIsThere
<1>5. CASE GoesOn(t) \/ Registers(t) \/ Adopts(t) \/ Refills(t) \/ Generates(t)
  <2>1. /\ pc'[t] \notin {"package", "build", "publish"}
        /\ status'[t] = status[t] \/ status'[t] \notin {"packaging", "ready"}
        /\ pc[t] \in Building /\ pc[t] # "build"
    BY <1>5
       DEF GoesOn, Registers, Adopts, Refills, Generates, KeepsBox, Building
  <2>. QED
    BY <1>0, <1>1, <1>2, <1>3, <2>1 DEF OwnWorkIsThere
<1>6. CASE Skips(t)
  <2>1. /\ pc[t] = "enter" /\ pc'[t] = "package" /\ status'[t] = status[t]
        /\ handle'[t] = handle[t] /\ Order[seen[t]] > 3
    BY <1>6 DEF Skips, KeepsBox
  <2>2. /\ Order[seen[t]] <= Order[status[t]] /\ deaths # 0
        /\ status[t] \in {"pending", "sandbox", "generating", "packaging"}
        /\ seen[t] \in {"pending", "sandbox", "generating", "packaging"}
    BY <2>1, OrderIs DEF Sound, StagesAreInOrder, Building
  <2>3. status[t] = "packaging"
    BY <2>1, <2>2, OrderIs
  <2>4. backend = "pause" => handle[t] = sandboxId /\ t \in work'[handle[t]]
    BY <1>0, <1>1, <2>1, <2>3, HandleIsTheApps
  <2>. QED
    BY <1>0, <1>3, <2>1, <2>2, <2>3, <2>4 DEF OwnWorkIsThere
<1>7. CASE Writes(t)
  BY <1>0, <1>2, <1>3, <1>7 DEF OwnWorkIsThere, Writes, KeepsBox, Building
<1>8. CASE Packages(t)
  <2>1. /\ pc[t] = "package" /\ pc'[t] = "build" /\ status'[t] = "packaging"
        /\ handle'[t] = handle[t] /\ handle[t] \in Boxes /\ state[handle[t]] # "none"
    BY <1>0, <1>8 DEF Packages, KeepsBox, HasBox
  <2>2. backend = "pause" \/ deaths = 0 => t \in work'[handle[t]]
    BY <1>0, <1>1, <2>1
  <2>3. backend = "pause" => handle[t] = sandboxId /\ sandboxId' = sandboxId
    BY <1>0, <2>1, HandleIsTheApps
  <2>. QED
    BY <1>0, <2>1, <2>2, <2>3 DEF OwnWorkIsThere
<1>9. CASE Uploads(t)
  <2>1. /\ pc[t] = "build" /\ pc'[t] = "publish" /\ status'[t] = status[t]
        /\ handle'[t] = handle[t] /\ handle[t] \in Boxes /\ state[handle[t]] # "none"
        /\ published'[t] = work[handle[t]]
    BY <1>0, <1>9 DEF Uploads, KeepsBox, HasBox
  <2>2. backend = "pause" \/ deaths = 0 => t \in work[handle[t]] /\ t \in work'[handle[t]]
    BY <1>0, <1>1, <2>1
  <2>. QED
    BY <1>0, <1>3, <2>1, <2>2 DEF OwnWorkIsThere
<1>10. CASE Publishes(t)
  BY <1>0, <1>1, <1>10 DEF OwnWorkIsThere, Publishes
<1>. QED
  BY <1>4, <1>5, <1>6, <1>7, <1>8, <1>9, <1>10 DEF Deed

\* A sandbox it creates is its own.
LEMMA OwnNewStep ==
    ASSUME NEW t \in Turns, Sound(t), Alone(t), Careful(t), Deed(t)
    PROVE  NewIsOwn(t)'
<1>1. CASE pc'[t] \notin {"adopt", "restore"}
  BY <1>1 DEF NewIsOwn
<1>2. CASE Registers(t) \/ (Adopts(t) /\ pc'[t] = "restore")
  BY <1>2 DEF NewIsOwn, Registers, Adopts, KeepsBox, Sound, Alone
<1>3. pc'[t] \in {"adopt", "restore"} => Registers(t) \/ Adopts(t)
  BY DEF Deed, Stops, Begins, Starts, Finds, NeedsNew, GoesOn, Refills, Generates,
         Skips, Writes, Packages, Uploads, Publishes
<1>4. Registers(t) \/ pc'[t] # "adopt"
  BY <1>3 DEF Adopts
<1>. QED
  BY <1>1, <1>2, <1>3, <1>4

\* The work of the versions before it is in what is published.
LEMMA OwnEarlierStep ==
    ASSUME OneAtATime, AppHasTheWork, NEW t \in Turns, \A u \in Turns : Sound(u),
           Alone(t), Careful(t), Deed(t)
    PROVE  EarlierWorkIsThere(t)'
<1>. SUFFICES ASSUME backend = "pause", deaths' = 0, deaths = 0, Sound(t)
              PROVE  /\ pc'[t] = "publish" => ReadyTurns' \subseteq published'[t]
                     /\ status'[t] = "ready" => ReadyBefore(t)' \subseteq published'[t]
  BY DEF EarlierWorkIsThere, Alone
<1>1. pc'[t] = "publish" => ReadyTurns' \subseteq published'[t]
  <2>. SUFFICES ASSUME pc'[t] = "publish" PROVE ReadyTurns' \subseteq published'[t]
    OBVIOUS
  <2>1. Uploads(t)
    BY DEF Deed, Stops, Begins, Starts, Finds, NeedsNew, GoesOn, Registers,
           Adopts, Refills, Generates, Skips, Writes, Packages, Publishes
  <2>2. /\ pc[t] = "build" /\ InProgress(t) /\ published'[t] = work[handle[t]]
        /\ ~Publishes(t)
    BY <2>1 DEF Uploads, Publishes, Sound, Calmly, Building
  <2>3. \A u \in Turns : pc[u] # "restore"
    BY <2>2, OnlyOneBuilds DEF Sound, Calmly, Building
  <2>4. handle[t] = sandboxId /\ handle[t] \in Boxes /\ None \notin Boxes
    BY <2>2, HandleIsTheApps DEF Sound
  <2>5. ReadyTurns \subseteq work[sandboxId]
    BY <2>3, <2>4 DEF AppHasTheWork
  <2>6. ReadyTurns' = ReadyTurns
    BY <2>2, ReadyStays
  <2>. QED
    BY <2>2, <2>4, <2>5, <2>6
<1>2. status'[t] = "ready" => ReadyBefore(t)' \subseteq published'[t]
  <2>. SUFFICES ASSUME status'[t] = "ready" PROVE ReadyBefore(t)' \subseteq published'[t]
    OBVIOUS
  <2>1. /\ \A v \in Turns \ {t} : status'[v] = status[v]
        /\ ~Publishes(t) => ReadyTurns' = ReadyTurns
    BY ReadyStays
  <2>2. ReadyBefore(t)' = ReadyBefore(t) /\ ReadyBefore(t) \subseteq ReadyTurns
    <3>1. \A v \in Turns : v < t => v # t
      BY CallersAre
    <3>. QED
      BY <2>1, <3>1 DEF ReadyBefore, ReadyTurns
  <2>3. CASE Publishes(t)
    BY <2>2, <2>3 DEF Publishes, Careful, Sound, EarlierWorkIsThere
  <2>4. CASE ~Publishes(t)
    <3>1. status[t] = "ready"
      BY <2>1, <2>4 DEF ReadyTurns
    <3>2. pc[t] # "build"
      BY <3>1 DEF Sound, Building
    <3>. QED
      BY <2>2, <3>1, <3>2 DEF Careful, Sound, EarlierWorkIsThere
  <2>. QED
    BY <2>3, <2>4
<1>. QED
  BY <1>1, <1>2

\* The app's sandbox has the work of every ready version.
LEMMA AppStep ==
    ASSUME OneAtATime, AppHasTheWork, NEW t \in Turns, \A u \in Turns : Sound(u),
           Alone(t), Careful(t), Deed(t)
    PROVE  AppHasTheWork'
<1>. SUFFICES ASSUME backend = "pause", deaths' = 0, deaths = 0, Sound(t),
                     sandboxId' # None, \A u \in Turns : pc'[u] # "restore"
              PROVE  ReadyTurns' \subseteq work'[sandboxId']
  BY DEF AppHasTheWork, Alone
<1>0. /\ sandboxId \in Boxes \cup {None} /\ None \notin Boxes
      /\ \A u \in Turns \ {t} : pc[u] # "restore"
  BY CallersAre DEF Sound, Alone
<1>1. CASE pc[t] = "restore"
  <2>1. Refills(t)
    <3>1. ~Stops(t)
      BY <1>1 DEF Stops, Sound, NewIsOwn
    <3>. QED
      BY <1>1, <3>1
         DEF Deed, Begins, Starts, Finds, NeedsNew, GoesOn, Registers, Adopts,
             Generates, Skips, Writes, Packages, Uploads, Publishes, Sound, Calmly,
             Building, StagesAreInOrder
  <2>2. ReadyTurns' = ReadyTurns /\ sandboxId' = sandboxId /\ handle[t] = sandboxId
    BY <1>1, <2>1, ReadyStays, HandleIsTheApps DEF Refills, Publishes, Careful
  <2>3. CASE ReadyTurns = {}
    BY <2>2, <2>3
  <2>4. ASSUME NEW u \in ReadyTurns, \A v \in ReadyTurns : v <= u,
               work'[handle[t]] = published[u]
        PROVE  ReadyTurns \subseteq published[u]
    <3>1. u \in Turns /\ u \in published[u] /\ ReadyBefore(u) \subseteq published[u]
      BY DEF ReadyTurns, Sound, OwnWorkIsThere, EarlierWorkIsThere
    <3>2. ASSUME NEW v \in ReadyTurns PROVE v = u \/ v \in ReadyBefore(u)
      <4>1. v \in Turns /\ status[v] = "ready" /\ v <= u
        BY <2>4, <3>2 DEF ReadyTurns
      <4>2. v \in Nat /\ u \in Nat
        BY <3>1, <4>1, CallersAre
      <4>3. v = u \/ v < u
        BY <4>1, <4>2
      <4>. QED
        BY <4>1, <4>3 DEF ReadyBefore
    <3>. QED
      BY <3>1, <3>2
  <2>. QED
    BY <2>1, <2>2, <2>3, <2>4 DEF Refills
<1>2. CASE Adopts(t)
  <2>0. pc[t] = "adopt"
    BY <1>2 DEF Adopts
  <2>1. InProgress(t) /\ ~Publishes(t) /\ ReadyTurns' = ReadyTurns
    BY <2>0, ReadyStays DEF Publishes, Sound, Calmly, Building
  <2>2. CASE t = 1
    <3>1. status[t] \notin {"none", "ready", "error"}
      BY <2>1, ProgressIsNoEnd
    <3>2. ASSUME NEW u \in ReadyTurns PROVE FALSE
      <4>1. u \in Turns /\ status[u] = "ready" /\ (u = 1 \/ 1 < u)
        BY CallersAre DEF ReadyTurns, Turns
      <4>. QED
        BY <2>2, <3>1, <4>1 DEF OneAtATime
    <3>. QED
      BY <2>1, <3>2
  <2>3. CASE t # 1
    BY <1>2, <2>3 DEF Adopts
  <2>. QED
    BY <2>2, <2>3
<1>3. CASE pc[t] # "restore" /\ ~Adopts(t)
  <2>0. pc[t] # "adopt" \/ pc'[t] \notin {"enter", "restore"}
    <3>. SUFFICES ASSUME pc[t] = "adopt" PROVE pc'[t] \notin {"enter", "restore"}
      OBVIOUS
    <3>1. InProgress(t) /\ ~Begins(t)
      BY ProgressIsNoEnd DEF Begins, Sound, Calmly, Building
    <3>2. Stops(t)
      BY <1>3, <3>1
         DEF Deed, Starts, Finds, NeedsNew, GoesOn, Registers, Refills,
             Generates, Skips, Writes, Packages, Uploads, Publishes
    <3>. QED
      BY <3>2 DEF Stops
  <2>1. sandboxId' = sandboxId /\ sandboxId \in Boxes
    BY <1>0, <2>0 DEF Careful
  <2>2. work[sandboxId] \subseteq work'[sandboxId]
    BY <1>3, <2>1 DEF Careful, Sound
  <2>3. ReadyTurns \subseteq work[sandboxId]
    BY <1>0, <1>3, <2>1 DEF AppHasTheWork
  <2>4. CASE ~Publishes(t)
    BY <2>1, <2>2, <2>3, <2>4, ReadyStays
  <2>5. CASE Publishes(t)
    <3>1. pc[t] = "publish" /\ handle[t] = sandboxId
      BY <2>5, HandleIsTheApps DEF Publishes
    <3>2. t \in work[sandboxId]
      BY <3>1 DEF Sound, OwnWorkIsThere
    <3>. QED
      BY <2>1, <2>2, <2>3, <3>2, ReadyStays
  <2>. QED
    BY <2>4, <2>5
<1>. QED
  BY <1>1, <1>2, <1>3

(***************************************************************************)
(* The theorems.                                                           *)
(***************************************************************************)

\* The initial state: nothing is built yet.
LEMMA WorkInit == Init => WorkInv
<1>. SUFFICES ASSUME Init PROVE WorkInv
  OBVIOUS
<1>1. /\ ~deleted /\ sandboxId = None
      /\ \A t \in Turns : status[t] = "none" /\ pc[t] = "idle" /\ seen[t] = "none"
  BY CallersAre DEF Init
<1>2. OneAtATime /\ AppHasTheWork
  BY <1>1 DEF OneAtATime, AppHasTheWork
<1>3. ASSUME NEW t \in Turns
      PROVE  /\ StagesAreInOrder(t) /\ SandboxIsTheApps(t)
             /\ OwnWorkIsThere(t) /\ NewIsOwn(t) /\ EarlierWorkIsThere(t)
  BY <1>1
     DEF StagesAreInOrder, SandboxIsTheApps, OwnWorkIsThere, NewIsOwn,
         EarlierWorkIsThere, Building, Managing
<1>. QED
  BY <1>1, <1>2, <1>3, InvInit DEF WorkInv, CalmInv

\* Every step of the specification preserves the inductive invariant.
LEMMA WorkNext == WorkInv /\ [Next]_vars => WorkInv'
<1>. SUFFICES ASSUME WorkInv, [Next]_vars PROVE WorkInv'
  OBVIOUS
<1>1. SandboxInv /\ SandboxInv'
  BY InvNext DEF WorkInv
<1>. SUFFICES ASSUME Calm' PROVE CalmInv'
  BY <1>1 DEF WorkInv
<1>2. CASE UNCHANGED vars
  <2>1. UNCHANGED <<backend, status, published, sandboxId, deleted, state, work,
                    pc, seen, uuid, handle, deaths>>
    BY <1>2 DEF vars, app, removal, provider, snapshots, caller, bounds
  <2>2. CalmInv
    BY <2>1 DEF WorkInv, Calm
  <2>3. ~deleted' /\ OneAtATime' /\ AppHasTheWork'
    BY <2>1, <2>2 DEF CalmInv, OneAtATime, AppHasTheWork, ReadyTurns
  <2>4. ASSUME NEW t \in Turns
        PROVE  (/\ StagesAreInOrder(t) /\ SandboxIsTheApps(t) /\ OwnWorkIsThere(t)
                /\ NewIsOwn(t) /\ EarlierWorkIsThere(t))'
    BY <2>1, <2>2
       DEF CalmInv, StagesAreInOrder, SandboxIsTheApps, OwnWorkIsThere, NewIsOwn,
           EarlierWorkIsThere, ReadyTurns, ReadyBefore, InProgress
  <2>. QED
    BY <2>3, <2>4 DEF CalmInv
<1>3. CASE Next
  <2>1. CalmInv /\ \E t \in Turns : Alone(t) /\ Careful(t) /\ Deed(t)
    BY <1>3, CalmSteps
  <2>2. PICK t \in Turns : Alone(t) /\ Careful(t) /\ Deed(t)
    BY <2>1
  <2>3. /\ OneAtATime /\ AppHasTheWork /\ \A u \in Turns : Sound(u)
        /\ Sound(t) /\ ~deleted'
    BY <1>1, <2>1, <2>2, InvIsSound DEF CalmInv, Alone
  <2>4. OneAtATime' /\ AppHasTheWork'
    BY <2>2, <2>3, OneStep, AppStep
  <2>5. ASSUME NEW u \in Turns
        PROVE  (/\ StagesAreInOrder(u) /\ SandboxIsTheApps(u) /\ OwnWorkIsThere(u)
                /\ NewIsOwn(u) /\ EarlierWorkIsThere(u))'
    <3>1. CASE u = t
      BY <2>2, <2>3, <3>1, OwnStagesStep, OwnSandboxStep, OwnWorkStep, OwnNewStep,
         OwnEarlierStep
    <3>2. CASE u # t
      BY <2>2, <2>3, <2>5, <3>2, OthersStep
    <3>. QED
      BY <3>1, <3>2
  <2>. QED
    BY <2>3, <2>4, <2>5 DEF CalmInv
<1>. QED
  BY <1>2, <1>3

\* How far the jobs of a calm app are says what is in the sandbox and what was
\* published.
THEOREM WorkInvariance == Spec => []WorkInv
  BY WorkInit, WorkNext, PTL DEF Spec

\* A version that is ready was packaged from a workspace in which its own prompt
\* was carried out, however often its job is retried: an attempt that skips the
\* generation (shouldRunStage) finds the work of the one before it.
THEOREM OwnWorkSurvives == Spec => []OwnWorkIsPublished
<1>1. WorkInv => OwnWorkIsPublished
  BY DEF WorkInv, CalmInv, OwnWorkIsThere, OwnWorkIsPublished
<1>. QED
  BY <1>1, WorkInvariance, PTL

\* A version that is ready has the work of all ready ones before it, whether its
\* sandbox was resumed, taken over while it is being suspended, or created anew
\* and filled from the last source (restoreSourceFromS3).
THEOREM EarlierWorkSurvives == Spec => []EarlierWorkIsKept
<1>1. WorkInv => EarlierWorkIsKept
  BY DEF WorkInv, CalmInv, EarlierWorkIsThere, EarlierWorkIsKept
<1>. QED
  BY <1>1, WorkInvariance, PTL

(***************************************************************************)
(* The versions as users see them, whatever is cancelled or deleted.       *)
(***************************************************************************)

\* The work that there is after a step, unless t did some.
Spreads(t) ==
    \A v \in Turns : IsSomewhere(v)' => IsSomewhere(v) \/ (v = t /\ InProgress(t))

Opens(t) ==
    /\ status[t] = "none" /\ status'[t] = "pending" /\ ~deleted
    /\ t > 1 => status[t - 1] \in {"ready", "error"}

Proceeds(t) == InProgress(t) /\ status'[t] \in Stages \cup {"error"}

Completes(t) ==
    /\ InProgress(t) /\ status'[t] = "ready"
    /\ pc'[t] = "persist" /\ published'[t] = published[t]

\* What a step of t, or of a caller on behalf of it, does to the versions.
Alters(t) ==
    /\ status' \in [Turns -> Statuses] /\ published' \in [Turns -> SUBSET Turns]
    /\ \A u \in Turns \ {t} : status'[u] = status[u] /\ published'[u] = published[u]
    /\ \A u \in Turns \ {t} : pc'[u] = pc[u]
    /\ deleted' \in BOOLEAN /\ (deleted' <=> deleted) /\ deletion' = deletion
    /\ pc'[Deleter] = pc[Deleter]
    /\ Spreads(t)
    /\ pc[t] # "build" => published'[t] = published[t]
    /\ status[t] = "ready" /\ pc[t] \in Finishing => pc'[t] \in Finishing
    /\ status'[t] = status[t] \/ Opens(t) \/ Proceeds(t) \/ Completes(t)

\* Where nothing is written no work is spread.
LEMMA NothingSpreads ==
    ASSUME NEW t, work' = work, stored' = stored, published' = published
    PROVE  Spreads(t)
  BY DEF Spreads, IsSomewhere

\* A step that leaves the workspaces, the packages and the deletion alone.
Still ==
    /\ work' = work /\ stored' = stored /\ published' = published
    /\ deleted' = deleted /\ deletion' = deletion

MayProceed(t) ==
    \/ status' = status
    \/ InProgress(t) /\ \E s \in Stages \cup {"error"} : SetStatus(t, s)

\* A status that is set in vain changes nothing.
LEMMA SetsProceed ==
    ASSUME NEW t, NEW s \in Stages \cup {"error"}, SetStatus(t, s)
    PROVE  MayProceed(t)
  BY DEF SetStatus, MayProceed

\* What a step of t that writes a workspace, or uploads one, does besides.
LEMMA AltersIf ==
    ASSUME TypeOK, NEW t \in Turns, deleted' = deleted, deletion' = deletion,
           \A q \in Callers \ {t} : pc'[q] = pc[q],
           pc[t] \notin Finishing, Spreads(t),
           published' \in [Turns -> SUBSET Turns],
           \A u \in Turns \ {t} : published'[u] = published[u],
           pc[t] # "build" => published'[t] = published[t],
           MayProceed(t)
    PROVE  Alters(t)
<1>1. AppTypes /\ CallerTypes
  BY TypesAre
<1>2. deleted' \in BOOLEAN /\ (deleted' <=> deleted)
  BY <1>1 DEF AppTypes
<1>3. /\ pc'[Deleter] = pc[Deleter] /\ \A u \in Turns \ {t} : pc'[u] = pc[u]
  BY CallersAre
<1>4. CASE status' = status
  <2>1. status' \in [Turns -> Statuses]
    BY <1>1, <1>4 DEF AppTypes
  <2>. QED
    BY <1>2, <1>3, <1>4, <2>1 DEF Alters
<1>5. CASE InProgress(t) /\ \E s \in Stages \cup {"error"} : SetStatus(t, s)
  <2>1. PICK s \in Stages \cup {"error"} : SetStatus(t, s)
    BY <1>5
  <2>2. status'[t] = s /\ \A u \in Turns \ {t} : status'[u] = status[u]
    BY <1>1, <1>5, <2>1, StatusMoves
  <2>3. s \in Statuses \ {"none"}
    BY TypesAre DEF Statuses
  <2>4. status' \in [Turns -> Statuses]
    BY <1>1, <2>1, <2>3, StatusIsSet
  <2>5. Proceeds(t)
    BY <1>5, <2>2 DEF Proceeds
  <2>. QED
    BY <1>2, <1>3, <2>2, <2>4, <2>5 DEF Alters
<1>. QED
  BY <1>4, <1>5 DEF MayProceed

\* A step of t that moves it, and at most lets its version proceed.
LEMMA MovesAlter ==
    ASSUME TypeOK, NEW t \in Turns, Still,
           \A q \in Callers \ {t} : pc'[q] = pc[q],
           pc[t] \notin Finishing, MayProceed(t)
    PROVE  Alters(t)
<1>1. published' \in [Turns -> SUBSET Turns] /\ published' = published
  BY DEF Still, TypeOK
<1>2. Spreads(t)
  BY NothingSpreads DEF Still
<1>. QED
  BY <1>1, <1>2, AltersIf DEF Still

\* Who goes somewhere, or leaves, is the only one to move.
LEMMA OnlyOneMoves ==
    ASSUME CallerTypes, NEW p \in Callers, NEW l,
           Goto(p, l) \/ Release(p, l) \/ Leave(p, l)
    PROVE  pc'[p] = l /\ \A q \in Callers \ {p} : pc'[q] = pc[q]
  BY DEF CallerTypes, Goto, Release, Leave

\* The steps of a job that touch no workspace.
LEMMA MovesOf ==
    ASSUME TypeOK, NEW t \in Turns,
           \/ StartPipeline(t) \/ EnterSandboxStage(t) \/ Reconnect(t)
           \/ FindRow(t) \/ MarkRunning(t) \/ MarkRunningThrows(t)
           \/ CreateThrows(t) \/ InsertRow(t) \/ InsertThrows(t)
           \/ Adopt(t) \/ AdoptThrows(t) \/ RestoreThrows(t)
           \/ EnterGenerating(t) \/ EnterPackaging(t)
    PROVE  Alters(t)
<1>0. CallerTypes /\ t \in Callers
  BY TypesAre, CallersAre
<1>s. {"sandbox", "generating", "packaging", "error"} \subseteq Stages \cup {"error"}
  BY TypesAre
<1>1. CASE StartPipeline(t)
  <2>1. Still
    BY <1>1 DEF StartPipeline, Still, app, removal, provider, snapshots
  <2>2. /\ \A q \in Callers \ {t} : pc'[q] = pc[q]
        /\ pc[t] \notin Finishing
    BY <1>0, <1>1, OnlyOneMoves DEF StartPipeline, Abort, Finishing
  <2>3. MayProceed(t)
    BY <1>s, <1>1, SetsProceed DEF StartPipeline, Abort, MayProceed, app
  <2>. QED
    BY <2>1, <2>2, <2>3, MovesAlter
<1>2. CASE EnterSandboxStage(t)
  <2>1. Still
    BY <1>2 DEF EnterSandboxStage, Still, app, removal, provider, snapshots
  <2>2. pc[t] \notin Finishing
    BY <1>2 DEF EnterSandboxStage, Finishing
  <2>3. \/ UNCHANGED status /\ Leave(t, "ended")
        \/ Abort(t)
        \/ SetStatus(t, "sandbox") /\ \E l \in {"find", "create"} : Goto(t, l)
    <3>1. CASE t > 1 /\ sandboxId # None
      BY <1>2, <3>1 DEF EnterSandboxStage
    <3>2. CASE ~(t > 1 /\ sandboxId # None)
      BY <1>2, <3>2 DEF EnterSandboxStage
    <3>. QED
      BY <3>1, <3>2
  <2>4. /\ \A q \in Callers \ {t} : pc'[q] = pc[q]
        /\ MayProceed(t)
    BY <1>0, <1>s, <2>3, OnlyOneMoves, SetsProceed DEF Abort, MayProceed
  <2>. QED
    BY <2>1, <2>2, <2>4, MovesAlter
<1>3. CASE Reconnect(t)
  <2>1. Still
    BY <1>3 DEF Reconnect, Still, app, removal, provider, snapshots
  <2>2. /\ \A q \in Callers \ {t} : pc'[q] = pc[q]
        /\ pc[t] \notin Finishing
    BY <1>0, <1>3, OnlyOneMoves DEF Reconnect, Abort, Finishing
  <2>3. MayProceed(t)
    BY <1>s, <1>3, SetsProceed DEF Reconnect, Abort, MayProceed, app
  <2>. QED
    BY <2>1, <2>2, <2>3, MovesAlter
<1>4. CASE FindRow(t)
  <2>1. Still
    BY <1>4 DEF FindRow, Still, app, removal, provider, snapshots
  <2>2. /\ \A q \in Callers \ {t} : pc'[q] = pc[q]
        /\ pc[t] \notin Finishing
    BY <1>0, <1>4, OnlyOneMoves DEF FindRow, ResumeFails, Abort, Finishing
  <2>3. MayProceed(t)
    BY <1>s, <1>4, SetsProceed DEF FindRow, ResumeFails, Abort, MayProceed, app
  <2>. QED
    BY <2>1, <2>2, <2>3, MovesAlter
<1>5. CASE MarkRunning(t)
  <2>1. Still
    BY <1>5 DEF MarkRunning, Still, app, removal, provider, snapshots
  <2>2. /\ \A q \in Callers \ {t} : pc'[q] = pc[q]
        /\ pc[t] \notin Finishing
    BY <1>0, <1>5, OnlyOneMoves DEF MarkRunning, Finishing
  <2>3. MayProceed(t)
    BY <1>s, <1>5, SetsProceed DEF MarkRunning, MayProceed, app
  <2>. QED
    BY <2>1, <2>2, <2>3, MovesAlter
<1>6. CASE CreateThrows(t)
  <2>1. Still
    BY <1>6 DEF CreateThrows, Still, app, removal, provider, snapshots
  <2>2. /\ \A q \in Callers \ {t} : pc'[q] = pc[q]
        /\ pc[t] \notin Finishing
    BY <1>0, <1>6, OnlyOneMoves DEF CreateThrows, Abort, Finishing
  <2>3. MayProceed(t)
    BY <1>s, <1>6, SetsProceed DEF CreateThrows, Abort, MayProceed, app
  <2>. QED
    BY <2>1, <2>2, <2>3, MovesAlter
<1>7. CASE InsertRow(t)
  <2>1. Still
    BY <1>7 DEF InsertRow, Still, app, removal, provider, snapshots
  <2>2. /\ \A q \in Callers \ {t} : pc'[q] = pc[q]
        /\ pc[t] \notin Finishing
    BY <1>0, <1>7, OnlyOneMoves DEF InsertRow, Finishing
  <2>3. MayProceed(t)
    BY <1>s, <1>7, SetsProceed DEF InsertRow, MayProceed, app
  <2>. QED
    BY <2>1, <2>2, <2>3, MovesAlter
<1>8. CASE InsertThrows(t)
  <2>1. Still
    BY <1>8 DEF InsertThrows, Still, app, removal, provider, snapshots
  <2>2. /\ \A q \in Callers \ {t} : pc'[q] = pc[q]
        /\ pc[t] \notin Finishing
    BY <1>0, <1>8, OnlyOneMoves DEF InsertThrows, Abort, Finishing
  <2>3. MayProceed(t)
    BY <1>s, <1>8, SetsProceed DEF InsertThrows, Abort, MayProceed, app
  <2>. QED
    BY <2>1, <2>2, <2>3, MovesAlter
<1>9. CASE Adopt(t)
  <2>1. Still
    BY <1>9 DEF Adopt, Still, app, removal, provider, snapshots
  <2>2. /\ \A q \in Callers \ {t} : pc'[q] = pc[q]
        /\ pc[t] \notin Finishing
    BY <1>0, <1>9, OnlyOneMoves DEF Adopt, Finishing
  <2>3. MayProceed(t)
    BY <1>s, <1>9, SetsProceed DEF Adopt, MayProceed, app
  <2>. QED
    BY <2>1, <2>2, <2>3, MovesAlter
<1>10. CASE RestoreThrows(t)
  <2>1. Still
    BY <1>10 DEF RestoreThrows, Still, app, removal, provider, snapshots
  <2>2. /\ \A q \in Callers \ {t} : pc'[q] = pc[q]
        /\ pc[t] \notin Finishing
    BY <1>0, <1>10, OnlyOneMoves DEF RestoreThrows, Abort, Finishing
  <2>3. MayProceed(t)
    BY <1>s, <1>10, SetsProceed DEF RestoreThrows, Abort, MayProceed, app
  <2>. QED
    BY <2>1, <2>2, <2>3, MovesAlter
<1>11. CASE EnterGenerating(t)
  <2>1. Still
    BY <1>11 DEF EnterGenerating, Still, app, removal, provider, snapshots
  <2>2. /\ \A q \in Callers \ {t} : pc'[q] = pc[q]
        /\ pc[t] \notin Finishing
    BY <1>0, <1>11, OnlyOneMoves DEF EnterGenerating, Finishing
  <2>3. MayProceed(t)
    BY <1>s, <1>11, SetsProceed DEF EnterGenerating, MayProceed, app
  <2>. QED
    BY <2>1, <2>2, <2>3, MovesAlter
<1>12. CASE EnterPackaging(t)
  <2>1. Still
    BY <1>12 DEF EnterPackaging, Still, app, removal, provider, snapshots
  <2>2. /\ \A q \in Callers \ {t} : pc'[q] = pc[q]
        /\ pc[t] \notin Finishing
    BY <1>0, <1>12, OnlyOneMoves DEF EnterPackaging, Finishing
  <2>3. MayProceed(t)
    BY <1>s, <1>12, SetsProceed DEF EnterPackaging, MayProceed, app
  <2>. QED
    BY <2>1, <2>2, <2>3, MovesAlter
<1>13. CASE MarkRunningThrows(t)
  <2>1. Still
    BY <1>13 DEF MarkRunningThrows, Still, app, removal, provider, snapshots
  <2>2. /\ \A q \in Callers \ {t} : pc'[q] = pc[q]
        /\ pc[t] \notin Finishing
    BY <1>0, <1>13, OnlyOneMoves DEF MarkRunningThrows, ResumeFails, Abort, Finishing
  <2>3. MayProceed(t)
    BY <1>s, <1>13, SetsProceed DEF MarkRunningThrows, ResumeFails, Abort, MayProceed, app
  <2>. QED
    BY <2>1, <2>2, <2>3, MovesAlter
<1>14. CASE AdoptThrows(t)
  <2>1. Still
    BY <1>14 DEF AdoptThrows, Still, app, removal, provider, snapshots
  <2>2. /\ \A q \in Callers \ {t} : pc'[q] = pc[q]
        /\ pc[t] \notin Finishing
    BY <1>0, <1>14, OnlyOneMoves DEF AdoptThrows, Abort, Finishing
  <2>3. MayProceed(t)
    BY <1>s, <1>14, SetsProceed DEF AdoptThrows, Abort, MayProceed, app
  <2>. QED
    BY <2>1, <2>2, <2>3, MovesAlter
<1>. QED
  BY <1>1, <1>2, <1>3, <1>4, <1>5, <1>6, <1>7, <1>8, <1>9, <1>10, <1>11, <1>12,
     <1>13, <1>14

\* A new sandbox is empty, or has what a snapshot had.
LEMMA NewSpreads ==
    ASSUME StoreTypes, NEW t, NEW b \in Boxes, NEW w, NewBox(b, w),
           stored' = stored, published' = published,
           w = {} \/ \E s \in Snapshots : stored[s] # None /\ w = stored[s]
    PROVE  Spreads(t)
<1>1. \A c \in Boxes : work'[c] = IF c = b THEN w ELSE work[c]
  BY DEF StoreTypes, NewBox
<1>2. \A v \in Turns : v \in w => IsSomewhere(v)
  BY DEF IsSomewhere
<1>. QED
  BY <1>1, <1>2 DEF Spreads, IsSomewhere

\* A snapshot from which a sandbox is created is one that was stored.
LEMMA RestoredIsStored ==
    ASSUME SandboxInv, NEW t \in Turns, pc[t] = "resume", Restores(row[t])
    PROVE  row[t].snapshot \in Snapshots
<1>1. t \in Callers /\ backend = "store" /\ row[t].snapshot # None
  BY CallersAre DEF Restores
<1>2. row[t].snapshot \in 1 .. saves
  BY <1>1 DEF SandboxInv, SnapshotsAreOwn, Reads
<1>3. saves \in 0 .. MaxSnapshots /\ MaxSnapshots \in Nat
  BY SandboxAssumption DEF SandboxInv, TypeOK, SandboxAssumption
<1>. QED
  BY <1>2, <1>3 DEF Snapshots

\* The steps of a job that create a sandbox or connect to one.
LEMMA BoxesOf ==
    ASSUME SandboxInv, NEW t \in Turns, Resume(t) \/ ResumeThrows(t) \/ Create(t)
    PROVE  Alters(t)
<1>0. TypeOK /\ AppTypes /\ StoreTypes /\ CallerTypes /\ t \in Callers
  BY TypesAre, CallersAre DEF SandboxInv
<1>s. "error" \in Stages \cup {"error"}
  OBVIOUS
<1>1. CASE Resume(t)
  <2>1. /\ deleted' = deleted /\ deletion' = deletion /\ status' = status
        /\ published' = published /\ pc[t] = "resume" /\ Goto(t, "mark")
    BY <1>1 DEF Resume, app, removal
  <2>2. PICK b \in Boxes :
           \/ /\ Restores(row[t]) /\ stored[row[t].snapshot] # None
              /\ NewBox(b, stored[row[t].snapshot]) /\ UNCHANGED snapshots
           \/ Connect(b)
    BY <1>1 DEF Resume
  <2>3. Spreads(t)
    <3>1. CASE /\ Restores(row[t]) /\ stored[row[t].snapshot] # None
               /\ NewBox(b, stored[row[t].snapshot]) /\ UNCHANGED snapshots
      <4>1. row[t].snapshot \in Snapshots /\ stored' = stored
        BY <2>1, <3>1, RestoredIsStored DEF snapshots
      <4>. QED
        BY <1>0, <2>1, <3>1, <4>1, NewSpreads
    <3>2. CASE Connect(b)
      BY <2>1, <3>2, NothingSpreads DEF Connect, snapshots
    <3>. QED
      BY <2>2, <3>1, <3>2
  <2>. QED
    BY <1>0, <2>1, <2>3, OnlyOneMoves, AltersIf DEF MayProceed, Finishing, AppTypes
<1>2. CASE ResumeThrows(t)
  <2>1. /\ deleted' = deleted /\ deletion' = deletion
        /\ published' = published /\ pc[t] = "resume" /\ ResumeFails(t)
    BY <1>2 DEF ResumeThrows, removal
  <2>2. Spreads(t)
    <3>1. CASE UNCHANGED provider
      BY <2>1, <3>1, NothingSpreads DEF provider, snapshots
    <3>2. CASE (\E b \in Boxes : NewBox(b, {})) /\ UNCHANGED snapshots
      BY <1>0, <2>1, <3>2, NewSpreads DEF snapshots
    <3>. QED
      BY <1>2, <3>1, <3>2 DEF ResumeThrows
  <2>3. (\A q \in Callers \ {t} : pc'[q] = pc[q]) /\ MayProceed(t)
    BY <1>0, <1>s, <2>1, OnlyOneMoves, SetsProceed DEF ResumeFails, Abort, MayProceed
  <2>. QED
    BY <1>0, <2>1, <2>2, <2>3, AltersIf DEF Finishing, AppTypes
<1>3. CASE Create(t)
  <2>1. /\ deleted' = deleted /\ deletion' = deletion /\ status' = status
        /\ published' = published /\ pc[t] = "create" /\ Goto(t, "insert")
        /\ stored' = stored
    BY <1>3 DEF Create, app, removal, snapshots
  <2>2. Spreads(t)
    BY <1>0, <1>3, <2>1, NewSpreads DEF Create
  <2>. QED
    BY <1>0, <2>1, <2>2, OnlyOneMoves, AltersIf DEF MayProceed, Finishing, AppTypes
<1>. QED
  BY <1>1, <1>2, <1>3

\* The steps of a job that fill a workspace, and that package it.
LEMMA WorkOf ==
    ASSUME SandboxInv, NEW t \in Turns, RestoreSource(t) \/ Write(t) \/ Package(t)
    PROVE  Alters(t)
<1>0. TypeOK /\ AppTypes /\ StoreTypes /\ CallerTypes /\ t \in Callers
  BY TypesAre, CallersAre DEF SandboxInv
<1>s. "error" \in Stages \cup {"error"}
  OBVIOUS
<1>b. pc[t] \in {"restore", "write", "build"} => handle[t] \in Boxes
  BY <1>0 DEF SandboxInv, PlacesAreKnown, HasBox, CallerTypes
<1>1. CASE RestoreSource(t)
  <2>1. /\ deleted' = deleted /\ deletion' = deletion /\ status' = status
        /\ published' = published /\ pc[t] = "restore" /\ Goto(t, "enter")
        /\ stored' = stored
    BY <1>1 DEF RestoreSource, app, removal, snapshots
  <2>2. \/ work' = work
        \/ \E u \in Turns : work' = [work EXCEPT ![handle[t]] = published[u]]
    BY <1>1 DEF RestoreSource, ReadyTurns
  <2>3. Spreads(t)
    <3>1. CASE work' = work
      BY <2>1, <3>1, NothingSpreads
    <3>2. ASSUME NEW u \in Turns, work' = [work EXCEPT ![handle[t]] = published[u]]
          PROVE  Spreads(t)
      <4>1. \A c \in Boxes :
               work'[c] = IF c = handle[t] THEN published[u] ELSE work[c]
        BY <1>0, <1>b, <2>1, <3>2 DEF StoreTypes
      <4>. QED
        BY <2>1, <4>1 DEF Spreads, IsSomewhere
    <3>. QED
      BY <2>2, <3>1, <3>2
  <2>. QED
    BY <1>0, <2>1, <2>3, OnlyOneMoves, AltersIf DEF MayProceed, Finishing, AppTypes
<1>2. CASE Write(t)
  <2>1. /\ deleted' = deleted /\ deletion' = deletion
        /\ published' = published /\ pc[t] = "write"
        /\ stored' = stored
    BY <1>2 DEF Write, removal, snapshots
  <2>2. Spreads(t)
    <3>1. CASE work' = work
      BY <2>1, <3>1, NothingSpreads
    <3>2. CASE InProgress(t) /\ work' = [work EXCEPT ![handle[t]] = @ \cup {t}]
      <4>1. \A c \in Boxes : \A v \in work'[c] : v \in work[c] \/ v = t
        BY <1>0, <1>b, <2>1, <3>2 DEF StoreTypes
      <4>. QED
        BY <2>1, <3>2, <4>1 DEF Spreads, IsSomewhere
    <3>. QED
      BY <1>2, <3>1, <3>2 DEF Write
  <2>3. (\A q \in Callers \ {t} : pc'[q] = pc[q]) /\ MayProceed(t)
    BY <1>0, <1>s, <1>2, OnlyOneMoves, SetsProceed DEF Write, Fail, MayProceed
  <2>. QED
    BY <1>0, <2>1, <2>2, <2>3, AltersIf DEF Finishing, AppTypes
<1>3. CASE Package(t)
  <2>1. /\ deleted' = deleted /\ deletion' = deletion /\ pc[t] = "build"
        /\ stored' = stored /\ work' = work
    BY <1>3 DEF Package, removal, snapshots, provider
  <2>2. /\ published' \in [Turns -> SUBSET Turns]
        /\ \A u \in Turns \ {t} : published'[u] = published[u]
        /\ published'[t] \in {published[t], work[handle[t]]}
    BY <1>0, <1>b, <1>3, <2>1 DEF Package, AppTypes, StoreTypes
  <2>3. Spreads(t)
    BY <1>b, <2>1, <2>2 DEF Spreads, IsSomewhere
  <2>4. (\A q \in Callers \ {t} : pc'[q] = pc[q]) /\ MayProceed(t)
    BY <1>0, <1>s, <1>3, OnlyOneMoves, SetsProceed DEF Package, Fail, MayProceed
  <2>. QED
    BY <1>0, <2>1, <2>2, <2>3, <2>4, AltersIf DEF Finishing
<1>. QED
  BY <1>1, <1>2, <1>3

\* A version that is created, one that is published, and a job that dies or is
\* swept.
LEMMA EndsOf ==
    ASSUME SandboxInv, NEW t \in Turns,
           Iterate(t) \/ Publish(t) \/ Die(t) \/ Sweep(t)
    PROVE  Alters(t)
<1>0. TypeOK /\ AppTypes /\ StoreTypes /\ CallerTypes /\ t \in Callers
  BY TypesAre, CallersAre DEF SandboxInv
<1>r. Deleter \in Callers /\ Deleter # t /\ \A u \in Turns : u \in Callers
  BY CallersAre
<1>1. CASE Iterate(t)
  <2>1. Still /\ Goto(t, "queued") /\ pc[t] = "idle"
    BY <1>0, <1>1
       DEF Iterate, Still, removal, provider, snapshots, SandboxInv, JobsAreCounted
  <2>2. /\ status' \in [Turns -> Statuses] /\ Opens(t)
        /\ \A u \in Turns \ {t} : status'[u] = status[u]
    BY <1>0, <1>1 DEF Iterate, AppTypes, Opens, Statuses
  <2>3. Spreads(t) /\ published' = published /\ published' \in [Turns -> SUBSET Turns]
    BY <1>0, <2>1, NothingSpreads DEF Still, AppTypes
  <2>4. deleted' \in BOOLEAN /\ (deleted' <=> deleted) /\ deletion' = deletion
    BY <1>0, <2>1 DEF Still, AppTypes
  <2>5. \A q \in Callers \ {t} : pc'[q] = pc[q]
    BY <1>0, <2>1, OnlyOneMoves
  <2>. QED
    BY <1>r, <2>2, <2>3, <2>4, <2>5, <1>1 DEF Alters, Iterate
<1>2. CASE Publish(t)
  <2>1. Still /\ Goto(t, "persist") /\ SetStatus(t, "ready") /\ pc[t] = "publish"
    BY <1>2 DEF Publish, Still, removal, provider, snapshots
  <2>2. Spreads(t) /\ published' = published /\ published' \in [Turns -> SUBSET Turns]
    BY <1>0, <2>1, NothingSpreads DEF Still, AppTypes
  <2>3. deleted' \in BOOLEAN /\ (deleted' <=> deleted) /\ deletion' = deletion
    BY <1>0, <2>1 DEF Still, AppTypes
  <2>4. pc'[t] = "persist" /\ \A q \in Callers \ {t} : pc'[q] = pc[q]
    BY <1>0, <2>1, OnlyOneMoves
  <2>5. /\ status' \in [Turns -> Statuses]
        /\ \A u \in Turns \ {t} : status'[u] = status[u]
        /\ status'[t] = IF InProgress(t) THEN "ready" ELSE status[t]
    BY <1>0, <2>1, StatusMoves, StatusIsSet DEF Statuses
  <2>6. status'[t] = status[t] \/ Completes(t)
    BY <2>2, <2>4, <2>5 DEF Completes
  <2>. QED
    BY <1>r, <2>1, <2>2, <2>3, <2>4, <2>5, <2>6 DEF Alters, Finishing
<1>3. CASE Die(t) \/ Sweep(t)
  <2>1. /\ Still /\ status' = status
        /\ \/ Leave(t, "dead")
           \/ Goto(t, "queued") /\ InProgress(t)
    BY <1>3 DEF Die, Sweep, Still, app, removal, provider, snapshots
  <2>2. Spreads(t) /\ published' = published /\ published' \in [Turns -> SUBSET Turns]
    BY <1>0, <2>1, NothingSpreads DEF Still, AppTypes
  <2>3. deleted' \in BOOLEAN /\ (deleted' <=> deleted) /\ deletion' = deletion
    BY <1>0, <2>1 DEF Still, AppTypes
  <2>4. /\ \A q \in Callers \ {t} : pc'[q] = pc[q]
        /\ pc'[t] = "dead" \/ InProgress(t)
    BY <1>0, <2>1, OnlyOneMoves
  <2>5. status[t] = "ready" => pc'[t] \in Finishing
    BY <2>4, TypesAre DEF InProgress, Finishing
  <2>. QED
    BY <1>0, <1>r, <2>1, <2>2, <2>3, <2>4, <2>5 DEF Alters, AppTypes
<1>. QED
  BY <1>1, <1>2, <1>3

\* What a step within the manager does to the versions: nothing.
Spares(p) ==
    /\ status' = status /\ published' = published
    /\ deleted' = deleted /\ deletion' = deletion
    /\ \A v \in Turns : IsSomewhere(v)' => IsSomewhere(v)
    /\ \A q \in Callers \ {p} : pc'[q] = pc[q]
    /\ pc[p] # "ended"
    /\ p \in Turns /\ status[p] = "ready" /\ pc[p] \in Finishing
          => pc'[p] \in Finishing

\* A call of the manager that is over leaves a ready version's job ended.
LEMMA FinishEnds ==
    ASSUME NEW p \in Turns, status[p] = "ready"
    PROVE  Finish(p) = "ended"
  BY TypesAre, CallersAre DEF Finish, InProgress

\* The steps of the manager spare the versions.
LEMMA ManagerSpares ==
    ASSUME SandboxInv, NEW p \in Callers, Manage(p)
    PROVE  Spares(p)
<1>0. TypeOK /\ AppTypes /\ StoreTypes /\ CallerTypes
  BY TypesAre DEF SandboxInv
<1>1. CASE Persist(p)
  <2>1. /\ status' = status /\ published' = published /\ deleted' = deleted
        /\ deletion' = deletion /\ work' = work /\ pc[p] = "persist"
        /\ Goto(p, "park") \/ Goto(p, "remove")
    BY <1>1 DEF Persist, app, removal
  <2>2. handle[p] \in Boxes
    BY <2>1 DEF SandboxInv, PlacesAreKnown, HasBox, TypeOK
  <2>3. \A s \in Snapshots : stored'[s] = stored[s] \/ stored'[s] = work[handle[p]]
    <3>1. CASE UNCHANGED snapshots
      BY <3>1 DEF snapshots
    <3>2. CASE stored' = [stored EXCEPT ![saves'] = work[handle[p]]]
      BY <1>0, <3>2 DEF StoreTypes
    <3>. QED
      BY <1>1, <3>1, <3>2 DEF Persist
  <2>4. \A v \in Turns : IsSomewhere(v)' => IsSomewhere(v)
    BY <2>1, <2>2, <2>3 DEF IsSomewhere
  <2>. QED
    BY <1>0, <2>1, <2>4, OnlyOneMoves DEF Spares, Finishing
<1>2. CASE DeleteSnapshot(p)
  <2>1. /\ status' = status /\ published' = published /\ deleted' = deleted
        /\ deletion' = deletion /\ work' = work /\ pc[p] = "unstore"
        /\ \E l : Goto(p, l) \/ Leave(p, l)
    BY <1>2 DEF DeleteSnapshot, app, removal
  <2>2. \A s \in Snapshots : stored'[s] = stored[s] \/ stored'[s] = None
    BY <1>0, <1>2 DEF DeleteSnapshot, StoreTypes
  <2>3. \A v \in Turns : IsSomewhere(v)' => IsSomewhere(v)
    BY <2>1, <2>2 DEF IsSomewhere
  <2>. QED
    BY <1>0, <2>1, <2>3, OnlyOneMoves DEF Spares, Finishing
<1>3. CASE PersistThrows(p) \/ MarkSuspended(p) \/ MarkSuspendedThrows(p)
  <2>1. /\ status' = status /\ Still /\ Leave(p, Finish(p))
        /\ pc[p] \in {"persist", "park"}
    BY <1>3
       DEF PersistThrows, MarkSuspended, MarkSuspendedThrows, Still, app, removal,
           provider, snapshots
  <2>2. \A v \in Turns : IsSomewhere(v)' => IsSomewhere(v)
    BY <2>1 DEF Still, IsSomewhere
  <2>. QED
    BY <1>0, <2>1, <2>2, OnlyOneMoves, FinishEnds DEF Spares, Still, Finishing
<1>4. CASE \/ Remove(p) \/ FindOrphan(p) \/ ConnectOrphan(p) \/ ConnectThrows(p)
           \/ FindDoomed(p) \/ Kill(p) \/ KillThrows(p)
           \/ Unregister(p) \/ UnregisterThrows(p)
  <2>1. /\ status' = status /\ Still
        /\ \/ pc[p] = "remove" /\ Goto(p, "park")
           \/ /\ pc[p] \in {"seek", "connect", "doom", "kill", "unregister"}
              /\ \E l : Goto(p, l) \/ Leave(p, l)
    <3>1. CASE Remove(p)
      BY <3>1 DEF Remove, Still, app, removal, snapshots
    <3>2. CASE FindOrphan(p)
      <4>1. CASE registry[uuid[p]] = None
        BY <3>2, <4>1 DEF FindOrphan, Still, app, removal, provider, snapshots
      <4>2. CASE registry[uuid[p]] # None
        BY <3>2, <4>2 DEF FindOrphan, Still, app, removal, provider, snapshots
      <4>. QED
        BY <4>1, <4>2
    <3>3. CASE ConnectOrphan(p)
      BY <3>3 DEF ConnectOrphan, Connect, Still, app, removal, snapshots
    <3>4. CASE ConnectThrows(p)
      BY <3>4 DEF ConnectThrows, Still, app, removal, provider, snapshots
    <3>5. CASE FindDoomed(p)
      BY <3>5 DEF FindDoomed, Still, app, removal, provider, snapshots
    <3>6. CASE Kill(p)
      BY <3>6 DEF Kill, Still, app, removal, snapshots
    <3>7. CASE Unregister(p)
      BY <3>7 DEF Unregister, Still, app, removal, provider, snapshots
    <3>8. CASE KillThrows(p)
      BY <3>8 DEF KillThrows, Still, app, removal, provider, snapshots
    <3>9. CASE UnregisterThrows(p)
      BY <3>9 DEF UnregisterThrows, Still, app, removal, provider, snapshots
    <3>. QED
      BY <1>4, <3>1, <3>2, <3>3, <3>4, <3>5, <3>6, <3>7, <3>8, <3>9
  <2>2. \A v \in Turns : IsSomewhere(v)' => IsSomewhere(v)
    BY <2>1 DEF Still, IsSomewhere
  <2>. QED
    BY <1>0, <2>1, <2>2, OnlyOneMoves DEF Spares, Still, Finishing
<1>. QED
  BY <1>1, <1>2, <1>3, <1>4 DEF Manage

\* The requests to cancel a version and to delete the app.
Announces ==
    /\ status' = status /\ published' = published /\ deleted' = deleted
    /\ \A v \in Turns : IsSomewhere(v)' => IsSomewhere(v)
    /\ \A t \in Turns : pc'[t] = pc[t]
    /\ pc[Deleter] = "idle"

Drops ==
    /\ deleted' /\ ~deleted /\ pc'[Deleter] = "ended" /\ deletion' = deletion
    /\ \A v \in Turns : IsSomewhere(v)' => IsSomewhere(v)
    /\ \A t \in Turns : pc'[t] = pc[t]
    /\ \/ deletion = "soft" /\ status' = status /\ published' = published
       \/ /\ deletion # "soft"
          /\ status' = [t \in Turns |-> "none"] /\ published' = [t \in Turns |-> {}]

\* A step alters one version, or none, or it deletes the app.
LEMMA StepsAre ==
    ASSUME SandboxInv, VersionsInv, [Next]_vars
    PROVE  \/ \E t \in Turns : Alters(t)
           \/ \E p \in Callers \ Turns : Spares(p)
           \/ Announces \/ Drops
           \/ UNCHANGED vars
<1>0. TypeOK /\ AppTypes /\ StoreTypes /\ CallerTypes
  BY TypesAre DEF SandboxInv
<1>a. \A p \in Turns : p \in Callers
  BY CallersAre
<1>b. Deleter \in Callers \ Turns
  BY CallersAre
<1>1. ASSUME NEW t \in Turns, Manage(t)
      PROVE  Alters(t)
  <2>1. Spares(t)
    BY <1>a, <1>1, ManagerSpares
  <2>2. /\ status' \in [Turns -> Statuses] /\ published' \in [Turns -> SUBSET Turns]
        /\ deleted' \in BOOLEAN /\ (deleted' <=> deleted)
    BY <1>0, <2>1 DEF Spares, AppTypes
  <2>3. Spreads(t)
    BY <2>1 DEF Spares, Spreads
  <2>. QED
    BY <1>a, <1>b, <2>1, <2>2, <2>3 DEF Alters, Spares
<1>2. ASSUME NEW t \in Turns, Iterate(t) \/ Job(t)
      PROVE  Alters(t)
  BY <1>0, <1>1, <1>2, MovesOf, BoxesOf, WorkOf, EndsOf DEF Job, Advance
<1>3. ASSUME NEW t \in Cancellable, Cancellation(t)
      PROVE  (\E u \in Turns : Alters(u)) \/ \E p \in Callers \ Turns : Spares(p)
  <2>0. t \in Turns /\ Canceller(t) \in Callers \ Turns /\ Canceller(t) # Deleter
    BY CallersAre, SandboxAssumption DEF Canceller, Deleter, SandboxAssumption
  <2>1. CASE Manage(Canceller(t))
    BY <2>0, <2>1, ManagerSpares
  <2>2. CASE BeginCancel(t)
    <3>1. /\ status' = status /\ Still /\ pc[Canceller(t)] = "idle"
          /\ Goto(Canceller(t), "cancel")
      BY <2>2 DEF BeginCancel, Still, app, removal, provider, snapshots
    <3>2. \A v \in Turns : IsSomewhere(v)' => IsSomewhere(v)
      BY <3>1 DEF Still, IsSomewhere
    <3>3. Spares(Canceller(t))
      BY <1>0, <2>0, <3>1, <3>2, OnlyOneMoves DEF Spares, Still
    <3>. QED
      BY <2>0, <3>3
  <2>3. CASE Cancel(t)
    <3>1. /\ SetStatus(t, "error") /\ Still
          /\ \E l : Goto(Canceller(t), l)
      BY <2>3 DEF Cancel, Still, removal, provider, snapshots
    <3>2. /\ status' \in [Turns -> Statuses]
          /\ \A u \in Turns \ {t} : status'[u] = status[u]
          /\ status'[t] = IF InProgress(t) THEN "error" ELSE status[t]
      BY <1>0, <2>0, <3>1, StatusMoves, StatusIsSet DEF Statuses
    <3>3. Spreads(t) /\ published' = published /\ published' \in [Turns -> SUBSET Turns]
      BY <1>0, <3>1, NothingSpreads DEF Still, AppTypes
    <3>4. deleted' \in BOOLEAN /\ (deleted' <=> deleted) /\ deletion' = deletion
      BY <1>0, <3>1 DEF Still, AppTypes
    <3>5. \A q \in Callers \ {Canceller(t)} : pc'[q] = pc[q]
      BY <1>0, <2>0, <3>1, OnlyOneMoves
    <3>6. pc'[Deleter] = pc[Deleter] /\ \A u \in Turns : pc'[u] = pc[u]
      BY <1>a, <1>b, <2>0, <3>5
    <3>7. status'[t] = status[t] \/ Proceeds(t)
      BY <3>2 DEF Proceeds
    <3>8. Alters(t)
      BY <2>0, <3>2, <3>3, <3>4, <3>6, <3>7 DEF Alters
    <3>. QED
      BY <2>0, <3>8
  <2>. QED
    BY <1>3, <2>1, <2>2, <2>3 DEF Cancellation
<1>4. CASE Manage(Deleter)
  BY <1>b, <1>4, ManagerSpares
<1>5. CASE BeginDelete
  <2>1. /\ status' = status /\ published' = published /\ deleted' = deleted
        /\ work' = work /\ stored' = stored /\ pc[Deleter] = "idle"
        /\ \E l : Goto(Deleter, l)
    BY <1>5 DEF BeginDelete, provider, snapshots
  <2>2. \A v \in Turns : IsSomewhere(v)' => IsSomewhere(v)
    BY <2>1 DEF IsSomewhere
  <2>3. \A q \in Callers \ {Deleter} : pc'[q] = pc[q]
    BY <1>0, <1>b, <2>1, OnlyOneMoves
  <2>4. Announces
    BY <1>a, <1>b, <2>1, <2>2, <2>3 DEF Announces
  <2>. QED
    BY <2>4
<1>6. CASE Drop
  <2>1. /\ deleted' /\ deletion' = deletion /\ Leave(Deleter, "ended")
        /\ work' = work /\ stored' = stored /\ pc[Deleter] = "drop"
        /\ \/ deletion = "soft" /\ status' = status /\ published' = published
           \/ /\ deletion # "soft"
              /\ status' = [t \in Turns |-> "none"]
              /\ published' = [t \in Turns |-> {}]
    BY <1>6 DEF Drop, provider, snapshots
  <2>2. pc'[Deleter] = "ended" /\ \A t \in Turns : pc'[t] = pc[t]
    BY <1>0, <1>a, <1>b, <2>1, OnlyOneMoves
  <2>3. ~deleted
    BY <2>1 DEF VersionsInv, DeletedOnce
  <2>4. \A v \in Turns : IsSomewhere(v)' => IsSomewhere(v)
    BY <2>1 DEF IsSomewhere
  <2>5. Drops
    BY <2>1, <2>2, <2>3, <2>4 DEF Drops
  <2>. QED
    BY <2>5
<1>. QED
  BY <1>2, <1>3, <1>4, <1>5, <1>6 DEF Next, Deletion

\* A step that alters one version keeps the invariant of all.
LEMMA AltersKeeps ==
    ASSUME TypeOK, VersionsInv, NEW t \in Turns, Alters(t)
    PROVE  VersionsInv'
<1>1. /\ \A u \in Turns \ {t} : status'[u] = status[u] /\ pc'[u] = pc[u]
      /\ status'[t] = status[t] \/ Opens(t) \/ Proceeds(t) \/ Completes(t)
  BY DEF Alters
<1>2. InProgress(t) => status[t] \notin {"none", "ready", "error"}
  BY TypesAre DEF InProgress
<1>3. \/ status'[t] = status[t]
      \/ Opens(t)
      \/ InProgress(t) /\ status'[t] # "none"
  BY <1>1, TypesAre DEF Proceeds, Completes
<1>4. OneAtATime'
  <2>1. SUFFICES ASSUME NEW u \in Turns, NEW v \in Turns, status'[u] # "none", v < u
                 PROVE  status'[v] \in {"ready", "error"}
    BY DEF OneAtATime
  <2>2. CASE u = t /\ Opens(t)
    <3>1. t - 1 \in Turns /\ (v = t - 1 \/ v < t - 1) /\ v # t /\ t > 1
      <4>1. /\ t \in Nat /\ v \in Nat /\ v >= 1 /\ v < t
            /\ MaxTurns \in Nat /\ t <= MaxTurns
        BY <2>1, <2>2, SandboxAssumption DEF SandboxAssumption, Turns
      <4>2. t - 1 \in 1 .. MaxTurns /\ (v = t - 1 \/ v < t - 1) /\ v # t /\ t > 1
        BY <4>1
      <4>. QED
        BY <4>2 DEF Turns
    <3>2. status[t - 1] \in {"ready", "error"}
      BY <2>2, <3>1 DEF Opens
    <3>3. status[v] \in {"ready", "error"}
      BY <3>1, <3>2 DEF VersionsInv, OneAtATime
    <3>. QED
      BY <1>1, <3>1, <3>3
  <2>3. CASE ~(u = t /\ Opens(t))
    <3>1. status[u] # "none"
      BY <1>1, <1>2, <1>3, <2>1, <2>3
    <3>2. status[v] \in {"ready", "error"}
      BY <2>1, <3>1 DEF VersionsInv, OneAtATime
    <3>. QED
      BY <1>1, <1>2, <1>3, <3>2 DEF Opens
  <2>. QED
    BY <2>2, <2>3
<1>5. ReadyIsBuilt'
  <2>1. ASSUME NEW u \in Turns, status'[u] = "ready"
        PROVE  pc'[u] \in Finishing
    <3>1. CASE u # t
      BY <1>1, <2>1, <3>1 DEF VersionsInv, ReadyIsBuilt
    <3>2. CASE u = t /\ status'[t] = status[t]
      BY <2>1, <3>2 DEF VersionsInv, ReadyIsBuilt, Alters
    <3>3. CASE u = t /\ status'[t] # status[t]
      BY <1>1, <2>1, <3>3, TypesAre DEF Opens, Proceeds, Completes, Finishing
    <3>. QED
      BY <3>1, <3>2, <3>3
  <2>. QED
    BY <2>1 DEF ReadyIsBuilt
<1>6. Erased' <=> Erased
  BY DEF Alters, Erased
<1>7. DeletedOnce'
  <2>1. deleted' => pc'[Deleter] = "ended"
    BY DEF Alters, VersionsInv, DeletedOnce
  <2>2. ASSUME Erased, NEW u \in Turns
        PROVE  status'[u] = "none"
    <3>1. status[u] = "none" /\ status[t] = "none" /\ deleted
      BY <2>2 DEF VersionsInv, DeletedOnce, Erased
    <3>. QED
      BY <1>1, <1>2, <1>3, <3>1 DEF Opens
  <2>. QED
    BY <1>6, <2>1, <2>2 DEF DeletedOnce
<1>8. NoEarlyWork'
  <2>1. SUFFICES ASSUME ~Erased', NEW v \in Turns, status'[v] = "none", IsSomewhere(v)'
                 PROVE  FALSE
    BY DEF NoEarlyWork
  <2>2. status[v] = "none"
    BY <1>1, <1>3, <2>1 DEF Opens
  <2>3. ~IsSomewhere(v)
    BY <1>6, <2>1, <2>2 DEF VersionsInv, NoEarlyWork
  <2>4. v = t /\ InProgress(t)
    BY <2>1, <2>3 DEF Alters, Spreads
  <2>. QED
    BY <1>2, <2>2, <2>4
<1>. QED
  BY <1>4, <1>5, <1>7, <1>8 DEF VersionsInv

\* Nor is it lost by the other steps.
LEMMA OthersKeep ==
    ASSUME TypeOK, VersionsInv,
           \/ \E p \in Callers \ Turns : Spares(p)
           \/ Announces \/ Drops
    PROVE  VersionsInv'
<1>1. CASE \E p \in Callers \ Turns : Spares(p)
  <2>1. PICK p \in Callers \ Turns : Spares(p)
    BY <1>1
  <2>2. \A t \in Turns : pc'[t] = pc[t]
    BY <2>1, CallersAre DEF Spares
  <2>3. deleted => pc'[Deleter] = "ended"
    BY <2>1, CallersAre DEF VersionsInv, DeletedOnce, Spares
  <2>. QED
    BY <2>1, <2>2, <2>3
       DEF Spares, VersionsInv, OneAtATime, ReadyIsBuilt, DeletedOnce, NoEarlyWork,
           Erased
<1>2. CASE Announces
  <2>1. ~deleted /\ ~deleted'
    BY <1>2 DEF Announces, VersionsInv, DeletedOnce
  <2>. QED
    BY <1>2, <2>1
       DEF Announces, VersionsInv, OneAtATime, ReadyIsBuilt, DeletedOnce,
           NoEarlyWork, Erased
<1>3. CASE Drops
  <2>1. ~Erased /\ (Erased' <=> deletion # "soft")
    BY <1>3 DEF Drops, Erased
  <2>2. CASE deletion = "soft"
    BY <1>3, <2>1, <2>2
       DEF Drops, VersionsInv, OneAtATime, ReadyIsBuilt, DeletedOnce, NoEarlyWork
  <2>3. CASE deletion # "soft"
    <3>1. \A t \in Turns : status'[t] = "none"
      BY <1>3, <2>3 DEF Drops
    <3>. QED
      BY <1>3, <2>1, <2>3, <3>1
         DEF Drops, VersionsInv, OneAtATime, ReadyIsBuilt, DeletedOnce, NoEarlyWork
  <2>. QED
    BY <2>2, <2>3
<1>. QED
  BY <1>1, <1>2, <1>3

\* The invariant of the versions holds, from the first state on.
LEMMA VersionsHold == Spec => []VersionsInv
<1>1. Init => VersionsInv
  <2>1. SUFFICES ASSUME Init PROVE VersionsInv
    OBVIOUS
  <2>2. /\ \A t \in Turns : status[t] = "none" /\ published[t] = {}
        /\ \A b \in Boxes : work[b] = {}
        /\ \A s \in Snapshots : stored[s] = None
        /\ ~deleted
    BY <2>1 DEF Init
  <2>. QED
    BY <2>2 DEF VersionsInv, OneAtATime, ReadyIsBuilt, DeletedOnce, NoEarlyWork,
                IsSomewhere, Erased
<1>2. SandboxInv /\ VersionsInv /\ [Next]_vars => VersionsInv'
  <2>1. SUFFICES ASSUME SandboxInv, VersionsInv, [Next]_vars PROVE VersionsInv'
    OBVIOUS
  <2>2. TypeOK
    BY <2>1 DEF SandboxInv
  <2>3. CASE UNCHANGED vars
    BY <2>1, <2>3
       DEF vars, app, removal, provider, snapshots, caller, VersionsInv, OneAtATime,
           ReadyIsBuilt, DeletedOnce, NoEarlyWork, IsSomewhere, Erased
  <2>. QED
    BY <2>1, <2>2, <2>3, StepsAre, AltersKeeps, OthersKeep
<1>. QED
  BY <1>1, <1>2, InvHolds, PTL DEF Spec

(***************************************************************************)
(* Sandbox implements AppVersions.                                         *)
(***************************************************************************)

\* What users see of one version, before and after a step.
LEMMA SeenOf ==
    /\ DOMAIN Shown = Turns /\ DOMAIN Shown' = Turns
    /\ DOMAIN ShownPackage = Turns /\ DOMAIN ShownPackage' = Turns
    /\ \A u \in Turns :
          /\ Shown[u] = IF status[u] \in Stages THEN "building" ELSE status[u]
          /\ Shown'[u] = IF status'[u] \in Stages THEN "building" ELSE status'[u]
          /\ ShownPackage[u] = IF status[u] = "ready" THEN published[u] ELSE {}
          /\ ShownPackage'[u] = IF status'[u] = "ready" THEN published'[u] ELSE {}
  BY DEF Shown, ShownPackage, InProgress

\* A version whose status stays is seen as it was.
LEMMA SameIsSeen ==
    ASSUME NEW u \in Turns, status'[u] = status[u],
           status[u] = "ready" => published'[u] = published[u]
    PROVE  Shown'[u] = Shown[u] /\ ShownPackage'[u] = ShownPackage[u]
  BY SeenOf

\* Nothing that is packaged for a version in progress is of a later one.
LEMMA PackagesArePast ==
    ASSUME TypeOK, VersionsInv, NEW t \in Turns, InProgress(t)
    PROVE  published[t] \in SUBSET (1 .. t)
<1>1. SUFFICES ASSUME NEW v \in published[t] PROVE v \in 1 .. t
  OBVIOUS
<1>2. v \in Turns
  BY <1>1 DEF TypeOK
<1>3. status[t] \notin {"none", "ready", "error"}
  BY TypesAre DEF InProgress
<1>4. ~Erased
  BY <1>3 DEF VersionsInv, DeletedOnce
<1>5. IsSomewhere(v)
  BY <1>1 DEF IsSomewhere
<1>6. status[v] # "none"
  BY <1>2, <1>4, <1>5 DEF VersionsInv, NoEarlyWork
<1>7. ~(t < v)
  BY <1>2, <1>3, <1>6 DEF VersionsInv, OneAtATime
<1>. QED
  BY <1>2, <1>7, SandboxAssumption DEF Turns, SandboxAssumption

\* A step that alters a version is a step of AppVersions, or none.
LEMMA AltersAreSeen ==
    ASSUME TypeOK, VersionsInv, NEW t \in Turns, Alters(t)
    PROVE  \/ Shown' = Shown /\ ShownPackage' = ShownPackage /\ deleted' = deleted
           \/ Public!Begin(t) \/ Public!Publish(t) \/ Public!Fail(t)
<1>0. deleted' = deleted
  BY DEF TypeOK, Alters
<1>1. \A u \in Turns \ {t} :
         Shown'[u] = Shown[u] /\ ShownPackage'[u] = ShownPackage[u]
  BY SameIsSeen DEF Alters
<1>2. InProgress(t) => status[t] \in Stages
  BY DEF InProgress
<1>3. /\ "pending" \in Stages
      /\ \A s \in {"none", "ready", "error"} : s \notin Stages
  BY TypesAre
<1>4. /\ Shown = [u \in Turns |-> Shown[u]] /\ Shown' = [u \in Turns |-> Shown'[u]]
      /\ ShownPackage = [u \in Turns |-> ShownPackage[u]]
      /\ ShownPackage' = [u \in Turns |-> ShownPackage'[u]]
  BY DEF Shown, ShownPackage
<1>5. CASE status'[t] = status[t]
  <2>1. status[t] = "ready" => published'[t] = published[t]
    <3>1. status[t] = "ready" => pc[t] # "build"
      BY DEF VersionsInv, ReadyIsBuilt, Finishing
    <3>. QED
      BY <3>1 DEF Alters
  <2>2. Shown'[t] = Shown[t] /\ ShownPackage'[t] = ShownPackage[t]
    BY <1>5, <2>1, SameIsSeen
  <2>. QED
    BY <1>0, <1>1, <1>4, <2>2
<1>6. CASE Opens(t)
  <2>1. /\ Shown[t] = "none" /\ Shown'[t] = "building"
        /\ ShownPackage[t] = {} /\ ShownPackage'[t] = {}
    BY <1>3, <1>6, SeenOf DEF Opens
  <2>2. /\ Shown' = [Shown EXCEPT ![t] = "building"]
        /\ ShownPackage' = ShownPackage
    BY <1>1, <1>4, <2>1
  <2>3. t > 1 => Shown[t - 1] \in {"ready", "error"}
    <3>1. ASSUME t > 1
          PROVE  t - 1 \in Turns
      BY <3>1, SandboxAssumption DEF Turns, SandboxAssumption
    <3>. QED
      BY <1>3, <1>6, <3>1, SeenOf DEF Opens
  <2>4. Public!Begin(t)
    BY <1>0, <1>6, <2>1, <2>2, <2>3 DEF Public!Begin, Opens
  <2>. QED
    BY <2>4
<1>7. CASE Proceeds(t)
  <2>1. /\ Shown[t] = "building" /\ ShownPackage[t] = {} /\ ShownPackage'[t] = {}
        /\ Shown'[t] = IF status'[t] = "error" THEN "error" ELSE "building"
    BY <1>2, <1>3, <1>7, SeenOf DEF Proceeds
  <2>2. ShownPackage' = ShownPackage
    BY <1>1, <1>4, <2>1
  <2>3. CASE status'[t] = "error"
    <3>1. Shown' = [Shown EXCEPT ![t] = "error"]
      BY <1>1, <1>4, <2>1, <2>3
    <3>2. Public!Fail(t)
      BY <1>0, <2>1, <2>2, <3>1 DEF Public!Fail, Public!End
    <3>. QED
      BY <3>2
  <2>4. CASE status'[t] # "error"
    <3>1. Shown' = Shown
      BY <1>1, <1>4, <2>1, <2>4
    <3>. QED
      BY <1>0, <2>2, <3>1
  <2>. QED
    BY <2>3, <2>4
<1>8. CASE Completes(t)
  <2>1. /\ Shown[t] = "building" /\ Shown'[t] = "ready"
        /\ ShownPackage'[t] = published[t]
    BY <1>2, <1>3, <1>8, SeenOf DEF Completes
  <2>2. /\ Shown' = [Shown EXCEPT ![t] = "ready"]
        /\ ShownPackage' = [ShownPackage EXCEPT ![t] = published[t]]
    BY <1>1, <1>4, <2>1
  <2>3. published[t] \in SUBSET (1 .. t)
    BY <1>8, PackagesArePast DEF Completes
  <2>4. Public!Publish(t)
    BY <1>0, <2>1, <2>2, <2>3 DEF Public!Publish, Public!End
  <2>. QED
    BY <2>4
<1>. QED
  BY <1>5, <1>6, <1>7, <1>8 DEF Alters

\* So is a deletion, and the other steps are none.
LEMMA OthersAreSeen ==
    ASSUME TypeOK, VersionsInv,
           \/ \E p \in Callers \ Turns : Spares(p)
           \/ Announces \/ Drops
    PROVE  \/ Shown' = Shown /\ ShownPackage' = ShownPackage /\ deleted' = deleted
           \/ Public!Delete
<1>1. ASSUME status' = status, published' = published
      PROVE  Shown' = Shown /\ ShownPackage' = ShownPackage
  BY <1>1 DEF Shown, ShownPackage, InProgress
<1>2. CASE (\E p \in Callers \ Turns : Spares(p)) \/ Announces
  BY <1>1, <1>2 DEF Spares, Announces
<1>3. CASE Drops
  <2>1. CASE deletion = "soft"
    BY <1>1, <1>3, <2>1 DEF Drops, Public!Delete
  <2>2. CASE deletion # "soft"
    <3>1. \A u \in Turns : status'[u] = "none" /\ "none" \notin Stages
      BY <1>3, <2>2, TypesAre DEF Drops
    <3>2. /\ Shown' = [u \in Turns |-> "none"]
          /\ ShownPackage' = [u \in Turns |-> {}]
      BY <3>1 DEF Shown, ShownPackage, InProgress
    <3>. QED
      BY <1>3, <3>2 DEF Drops, Public!Delete, Public!Turns, Turns
  <2>. QED
    BY <2>1, <2>2
<1>. QED
  BY <1>2, <1>3

\* The app knows what its sandboxes are, and its versions are built in order,
\* whatever fails, dies, is cancelled or deleted on the way.
THEOREM AppInvariance == Spec => []AppInv
  BY InvHolds, VersionsHold, PTL DEF AppInv

\* To those who look at its versions an app is as AppVersions says: whatever
\* jobs are retried, cancelled or still running, and whoever deletes the app, a
\* version begins when the one before has ended (iterateApp), ends once
\* (updateVersionStatusIfInProgress), and when it is ready nobody uploads
\* another package for it, and there is no later work in the one it has.
THEOREM VersionsAreAHistory == Spec => ImplementsVersions
<1>1. Init => Public!Init
  <2>1. SUFFICES ASSUME Init PROVE Public!Init
    OBVIOUS
  <2>2. \A u \in Turns : status[u] = "none" /\ "none" \notin Stages
    BY <2>1, TypesAre DEF Init
  <2>3. /\ Shown = [u \in Turns |-> "none"]
        /\ ShownPackage = [u \in Turns |-> {}]
    BY <2>2 DEF Shown, ShownPackage, InProgress
  <2>. QED
    BY <2>1, <2>3 DEF Init, Public!Init, Public!Turns, Turns
<1>2. SandboxInv /\ VersionsInv /\ [Next]_vars
         => [Public!Next]_<<Shown, ShownPackage, deleted>>
  <2>1. SUFFICES ASSUME SandboxInv, VersionsInv, [Next]_vars
                 PROVE  [Public!Next]_<<Shown, ShownPackage, deleted>>
    OBVIOUS
  <2>2. TypeOK
    BY <2>1 DEF SandboxInv
  <2>3. CASE UNCHANGED vars
    <3>1. status' = status /\ published' = published /\ deleted' = deleted
      BY <2>3 DEF vars, app, removal
    <3>. QED
      BY <3>1 DEF Shown, ShownPackage, InProgress
  <2>4. ASSUME NEW t \in Turns, Alters(t)
        PROVE  [Public!Next]_<<Shown, ShownPackage, deleted>>
    <3>1. t \in Public!Turns
      BY DEF Public!Turns, Turns
    <3>. QED
      BY <2>1, <2>2, <2>4, <3>1, AltersAreSeen DEF Public!Next
  <2>5. CASE (\E p \in Callers \ Turns : Spares(p)) \/ Announces \/ Drops
    BY <2>1, <2>2, <2>5, OthersAreSeen DEF Public!Next
  <2>. QED
    BY <2>1, <2>3, <2>4, <2>5, StepsAre
<1>. QED
  BY <1>1, <1>2, InvHolds, VersionsHold, PTL DEF Spec, ImplementsVersions, Public!Spec
=============================================================================
