--------------------------- MODULE SecretRotation ---------------------------
(***************************************************************************)
(* The rotation of LIGHTDASH_SECRET: the command rotate-lightdash-secret,  *)
(* the replicas that go on writing while it runs, and the operator.        *)
(*                                                                         *)
(* Replicas are restarted one by one with the keyring that the operator    *)
(* deploys: first with the new secret as a fallback, then with the two     *)
(* swapped, and in the end without the old one.  In between the command    *)
(* pages through what is stored, re-encrypts it when it is told to, and    *)
(* lists what blocks the removal of the fallback.                          *)
(*                                                                         *)
(* A ciphertext is what it decrypts to and the secret it was made with.    *)
(* Salts are left out: two ciphertexts of one value and secret only differ *)
(* in them, and overwriting either with the other changes nothing.  So are *)
(* session cookies and signed links, which expire: the operator waits.     *)
(***************************************************************************)
EXTENDS Naturals, FiniteSets

CONSTANTS
    Replicas,   \* API servers and workers
    Tables,     \* tables that hold ciphertext
    Registry,   \* those of CIPHERTEXT_REGISTRY
    Copied,     \* those whose ciphertext is copied from row to row
    Cell,       \* places for a ciphertext: <<table, primary key>>
    Values,     \* what the ciphertexts of each table may decrypt to
    Initially,  \* what the cells hold before the rotation
    Old, New,   \* the secrets
    NoValue,    \* NULL, or no row
    Nothing,    \* a replica has no write, or no job, under way
    BatchSize,  \* --batch-size
    MaxRequests,\* bound on the writes and deletions of the replicas
    MaxSwaps,   \* bound on the swaps of the two secrets
    MaxDeaths   \* bound on the deaths of the command

Sources == Tables \cup {"jobs", "tokens"}

ASSUME RotationAssumption ==
    /\ Old # New
    /\ Registry \subseteq Tables
    /\ Copied \subseteq Tables
    /\ {"jobs", "tokens"} \cap Tables = {}
    /\ Cell \subseteq Sources \X (Nat \ {0})
    /\ IsFiniteSet(Cell)
    /\ \A c \in Cell : Initially[c] \in Values[c[1]] \cup {NoValue}
    /\ BatchSize \in Nat \ {0}
    /\ {MaxRequests, MaxSwaps, MaxDeaths} \subseteq Nat

VARIABLES
    target,   \* the keyring the operator deploys
    swaps,    \* how often the secrets were swapped
    cleared,  \* the last run reported no blocker and was a final dry run
    keyring,  \* the keyring each replica was started with
    sending,  \* the write each replica has under way
    taken,    \* the job each replica has locked, with its payload
    requests, \* how many writes and deletions were begun
    stored,   \* the ciphertext in each cell
    jobs,     \* the state of each job
    running,  \* whether the command runs
    execute,  \* --execute
    tables,   \* --table, or all of the registry
    keys,     \* the keyring the command was started with
    fresh,    \* no swap since the command was started
    cursor,   \* the last primary key of the page that was read last
    open,     \* sources with pages to read
    page,     \* updates of the current pages that are still to be made
    blocked,  \* the list of blockers is not empty
    deaths    \* how often the command died

operator == <<target, swaps, cleared>>
replica  == <<keyring, sending, taken>>
database == <<stored, jobs, requests>>
options  == <<execute, tables, keys>>
command  == <<running, options, fresh, cursor, open, page, blocked, deaths>>
vars == <<operator, replica, database, command>>

Secrets == {Old, New}
Keyrings == [active : Secrets, fallbacks : SUBSET Secrets]
Plaintexts == UNION {Values[s] : s \in Sources}
Ciphertexts == [value : Plaintexts, secret : Secrets]
Writes == [cell : Cell, cipher : Ciphertexts, insert : BOOLEAN,
           copy : BOOLEAN]

JobIds == {c[2] : c \in {d \in Cell : d[1] = "jobs"}}
Payloads == [job : JobIds, cipher : Ciphertexts]

\* NULL is not a ciphertext, and doing nothing no write and no job.
ASSUME NullAssumption ==
    /\ NoValue \notin Ciphertexts
    /\ Nothing \notin Writes \cup Payloads

TypeOK ==
    /\ target \in Keyrings
    /\ swaps \in 0 .. MaxSwaps
    /\ cleared \in BOOLEAN
    /\ keyring \in [Replicas -> Keyrings]
    /\ sending \in [Replicas -> Writes \cup {Nothing}]
    /\ taken \in [Replicas -> Payloads \cup {Nothing}]
    /\ stored \in [Cell -> Ciphertexts \cup {NoValue}]
    /\ jobs \in [JobIds -> {"free", "queued", "locked", "spent"}]
    /\ requests \in 0 .. MaxRequests
    /\ running \in BOOLEAN
    /\ execute \in BOOLEAN
    /\ tables \subseteq Registry
    /\ keys \in Keyrings
    /\ fresh \in BOOLEAN
    /\ cursor \in [Sources -> Nat]
    /\ open \subseteq Sources
    /\ page \subseteq Cell \X Ciphertexts
    /\ blocked \in BOOLEAN
    /\ deaths \in 0 .. MaxDeaths

(***************************************************************************)
(* The keyring.                                                            *)
(***************************************************************************)

\* lightdashSecrets.all
All(k) == {k.active} \cup k.fallbacks

Encrypt(k, v) == [value |-> v, secret |-> k.active]

\* decryptWithMeta finds a secret it was made with.
Reads(k, cipher) == cipher.secret \in All(k)

IsJob(c) == c[1] = "jobs"

\* The ciphertext of a cell will be decrypted, or looked up by a hash: a
\* job that was attempted once is not attempted again.
Needed(c) ==
    /\ stored[c] # NoValue
    /\ IsJob(c) => jobs[c[2]] = "queued"

Init ==
    /\ target = [active |-> Old, fallbacks |-> {}]
    /\ swaps = 0
    /\ cleared = FALSE
    /\ keyring = [r \in Replicas |-> target]
    /\ sending = [r \in Replicas |-> Nothing]
    /\ taken = [r \in Replicas |-> Nothing]
    /\ stored = [c \in Cell |->
                     IF Initially[c] = NoValue \/ IsJob(c)
                     THEN NoValue ELSE Encrypt(target, Initially[c])]
    /\ jobs = [i \in JobIds |-> "free"]
    /\ requests = 0
    /\ running = FALSE
    /\ execute = FALSE
    /\ tables = {}
    /\ keys = target
    /\ fresh = FALSE
    /\ cursor = [s \in Sources |-> 0]
    /\ open = {}
    /\ page = {}
    /\ blocked = FALSE
    /\ deaths = 0

(***************************************************************************)
(* The replicas.                                                           *)
(***************************************************************************)

Request == requests < MaxRequests /\ requests' = requests + 1

Put(r, w) == sending' = [sending EXCEPT ![r] = w]

Take(r, j) == taken' = [taken EXCEPT ![r] = j]

\* A value is encrypted, or a token hashed, and awaits its INSERT or UPDATE.
EncryptValue(r, c, v) ==
    /\ sending[r] = Nothing
    /\ Put(r, [cell |-> c, cipher |-> Encrypt(keyring[r], v),
               insert |-> IsJob(c), copy |-> FALSE])
    /\ Request
    /\ UNCHANGED <<operator, keyring, taken, stored, jobs, command>>

\* A preview project takes over the ciphertext of its upstream project
\* verbatim: it is read, and inserted in another statement or transaction.
CopyVerbatim(r, c, d) ==
    /\ sending[r] = Nothing
    /\ c[1] \in Copied /\ c[1] = d[1]
    /\ stored[c] # NoValue /\ stored[d] = NoValue
    /\ Put(r, [cell |-> d, cipher |-> stored[c],
               insert |-> TRUE, copy |-> TRUE])
    /\ Request
    /\ UNCHANGED <<operator, keyring, taken, stored, jobs, command>>

\* The statement commits; of two inserts of one key the second has no
\* effect.  A job is queued by the same statement.
Land(r) ==
    /\ sending[r] # Nothing
    /\ LET w == sending[r]
           written == ~w.insert \/ stored[w.cell] = NoValue
       IN  /\ stored' = IF written THEN [stored EXCEPT ![w.cell] = w.cipher]
                                   ELSE stored
           /\ jobs' = IF written /\ IsJob(w.cell)
                      THEN [jobs EXCEPT ![w.cell[2]] = "queued"] ELSE jobs
    /\ Put(r, Nothing)
    /\ UNCHANGED <<operator, keyring, taken, requests, command>>

\* A row is deleted.
Delete(c) ==
    /\ c[1] \in Tables
    /\ stored[c] # NoValue
    /\ stored' = [stored EXCEPT ![c] = NoValue]
    /\ Request
    /\ UNCHANGED <<operator, replica, jobs, command>>

\* A worker locks a job, and reads its payload.
GetJob(r, c) ==
    /\ IsJob(c) /\ jobs[c[2]] = "queued"
    /\ taken[r] = Nothing
    /\ Take(r, [job |-> c[2], cipher |-> stored[c]])
    /\ jobs' = [jobs EXCEPT ![c[2]] = "locked"]
    /\ UNCHANGED <<operator, keyring, sending, stored, requests, command>>

\* createProjectWithCompile ends.  complete_job deletes the job; fail_job
\* unlocks it, but its one attempt is spent.
JobEnds(r) ==
    /\ taken[r] # Nothing
    /\ LET i == taken[r].job
       IN  \/ /\ jobs' = [jobs EXCEPT ![i] = "free"]
              /\ stored' = [stored EXCEPT ![<<"jobs", i>>] = NoValue]
           \/ /\ jobs' = [jobs EXCEPT ![i] = "spent"]
              /\ UNCHANGED stored
    /\ Take(r, Nothing)
    /\ UNCHANGED <<operator, keyring, sending, requests, command>>

\* A replica is restarted with the deployed keyring.  A job it has locked
\* is released, or stays locked.
Roll(r) ==
    /\ keyring[r] # target
    /\ keyring' = [keyring EXCEPT ![r] = target]
    /\ Put(r, Nothing)
    /\ Take(r, Nothing)
    /\ \/ UNCHANGED jobs
       \/ /\ taken[r] # Nothing
          /\ jobs' = [jobs EXCEPT ![taken[r].job] = "spent"]
    /\ UNCHANGED <<operator, stored, requests, command>>

(***************************************************************************)
(* The command.                                                            *)
(***************************************************************************)

\* Ciphertext first, then the queued jobs, then the token hashes; all tables
\* are paged through at once, of which the code has two under way.
MayFetch(s) ==
    /\ s \in open
    /\ s = "jobs"   => page = {} /\ open \cap Tables = {}
    /\ s = "tokens" => page = {} /\ open = {"tokens"}
    /\ \A e \in page : e[1][1] # s

\* Mutant: the next page begins with the last row of this one.
RowsAgain(s) ==
    {c \in Cell : c[1] = s /\ stored[c] # NoValue /\ c[2] >= cursor[s]
                  /\ (IsJob(c) => jobs[c[2]] # "locked")}

\* The rows behind the cursor.  Locked jobs are not selected.
Rows(s) ==
    {c \in Cell : c[1] = s /\ stored[c] # NoValue /\ c[2] > cursor[s]
                  /\ (IsJob(c) => jobs[c[2]] # "locked")}

\* ORDER BY the primary key LIMIT BatchSize
Page(s) ==
    {c \in Rows(s) :
        Cardinality({d \in Rows(s) : d[2] < c[2]}) < BatchSize}

NeedsFallback(cipher) == cipher.secret \in keys.fallbacks

\* A page is read.  What the command can re-encrypt it will; the rest, and
\* what no secret decrypts, is reported.  Token hashes cannot be rewritten.
FetchPage(s) ==
    /\ MayFetch(s)
    /\ LET fallback == {c \in Page(s) : NeedsFallback(stored[c])}
           rotates  == execute /\ s # "tokens"
       IN  /\ page' = IF rotates THEN page \cup {<<c, stored[c]>> : c \in fallback}
                                 ELSE page
           /\ blocked' = \/ blocked
                         \/ ~rotates /\ fallback # {}
                         \/ s # "tokens" /\ \E c \in Page(s) :
                                               ~Reads(keys, stored[c])
    /\ \/ /\ Cardinality(Rows(s)) < BatchSize
          /\ open' = open \ {s}
          /\ cursor' = [cursor EXCEPT ![s] = 0]
       \/ /\ Cardinality(Rows(s)) >= BatchSize
          /\ UNCHANGED open
          /\ \E m \in Page(s) :
                /\ \A c \in Page(s) : c[2] <= m[2]
                /\ cursor' = [cursor EXCEPT ![s] = m[2]]
    /\ UNCHANGED <<operator, replica, database, running, options, fresh,
                   deaths>>

\* Mutant: the UPDATE only matches the primary key.
MatchesKey(e) == stored[e[1]] # NoValue

\* The UPDATE matches the ciphertext that was read, of an unlocked job.
Matches(e) ==
    /\ stored[e[1]] = e[2]
    /\ IsJob(e[1]) => jobs[e[1][2]] # "locked"

\* The updates of a page are made in any order.  One that matches no row is
\* a concurrent skip, and blocks.
ReEncrypt(e) ==
    /\ e \in page
    /\ page' = page \ {e}
    /\ IF Matches(e)
       THEN /\ stored' = [stored EXCEPT ![e[1]] = Encrypt(keys, e[2].value)]
            /\ UNCHANGED blocked
       ELSE blocked' = TRUE /\ UNCHANGED stored
    /\ UNCHANGED <<operator, replica, jobs, requests, running, options, fresh,
                   cursor, open, deaths>>

Reset ==
    /\ running' = FALSE
    /\ execute' = FALSE
    /\ tables' = {}
    /\ keys' = target
    /\ fresh' = FALSE
    /\ cursor' = [s \in Sources |-> 0]
    /\ open' = {}
    /\ page' = {}
    /\ blocked' = FALSE

\* Mutant: the operator trusts "No blockers found by this command".
NoBlockersFound == ~blocked

\* The report of a dry run of the whole registry, since the last rollout.
FinalReport == ~blocked /\ ~execute /\ tables = Registry /\ fresh

Report ==
    /\ running /\ open = {} /\ page = {}
    /\ cleared' = FinalReport
    /\ Reset
    /\ UNCHANGED <<target, swaps, replica, database, deaths>>

CommandDies ==
    /\ running
    /\ deaths < MaxDeaths
    /\ deaths' = deaths + 1
    /\ Reset
    /\ UNCHANGED <<operator, replica, database>>

(***************************************************************************)
(* The operator, who follows docs/lightdash-secret-rotation.md.            *)
(***************************************************************************)

RolledOut == \A r \in Replicas : keyring[r] = target

Deploy(k) == target' = k

\* Phase 0: the proposed secret becomes a fallback.
AddFallback ==
    /\ target = [active |-> Old, fallbacks |-> {}]
    /\ swaps = 0
    /\ Deploy([active |-> Old, fallbacks |-> {New}])
    /\ UNCHANGED <<swaps, cleared, replica, database, command>>

\* Mutant: phase 1 is begun at once.
SwapAtOnce == target.fallbacks # {}

\* Every replica has both secrets.
MaySwap ==
    /\ target.fallbacks # {}
    /\ \A r \in Replicas : All(keyring[r]) = Secrets

\* Phase 1, or a rollback of it.
Swap ==
    /\ MaySwap
    /\ swaps < MaxSwaps
    /\ swaps' = swaps + 1
    /\ \E s \in target.fallbacks :
          Deploy([active |-> s, fallbacks |-> {target.active}])
    /\ cleared' = FALSE
    /\ fresh' = FALSE
    /\ UNCHANGED <<replica, database, running, options, cursor, open,
                   page, blocked, deaths>>

\* Mutant: the command is run before the last old-active replica stopped.
RunAtOnce == TRUE

\* Phase 2: the last replica with another keyring was stopped.
MayRun == RolledOut

StartCommand(x, t) ==
    /\ ~running /\ ~cleared
    /\ target.fallbacks # {} /\ swaps > 0
    /\ MayRun
    /\ running' = TRUE
    /\ execute' = x
    /\ tables' = t
    /\ keys' = target
    /\ fresh' = TRUE
    /\ open' = t \cup {"jobs", "tokens"}
    /\ UNCHANGED <<operator, replica, database, cursor, page, blocked, deaths>>

\* Phase 3: a token whose hash needs the fallback is revoked.
Revoke(c) ==
    /\ c[1] = "tokens" /\ stored[c] # NoValue
    /\ stored[c].secret \in target.fallbacks
    /\ stored' = [stored EXCEPT ![c] = NoValue]
    /\ UNCHANGED <<operator, replica, jobs, requests, command>>

\* Phase 3: the gates.
RemoveFallback ==
    /\ cleared
    /\ Deploy([target EXCEPT !.fallbacks = {}])
    /\ cleared' = FALSE
    /\ UNCHANGED <<swaps, replica, database, command>>

Run ==
    \/ \E s \in Sources : FetchPage(s)
    \/ \E e \in page : ReEncrypt(e)
    \/ Report

Next ==
    \/ \E r \in Replicas :
          \/ \E c \in Cell : \E v \in Values[c[1]] : EncryptValue(r, c, v)
          \/ \E c, d \in Cell : CopyVerbatim(r, c, d)
          \/ Land(r)
          \/ \E c \in Cell : GetJob(r, c)
          \/ JobEnds(r)
          \/ Roll(r)
    \/ \E c \in Cell : Delete(c) \/ Revoke(c)
    \/ Run \/ CommandDies
    \/ AddFallback \/ Swap \/ RemoveFallback
    \/ \E x \in BOOLEAN, t \in SUBSET Registry \ {{}} : StartCommand(x, t)

Spec == Init /\ [][Next]_vars

\* Replicas answer their requests and are restarted, and the command goes
\* on while it lives.  The operator repeats dry runs and executions until
\* nothing blocks the removal, and revokes the tokens that do.
Fairness ==
    /\ \A r \in Replicas : WF_vars(Land(r)) /\ WF_vars(Roll(r))
    /\ WF_vars(Run)
    /\ WF_vars(\E c \in Cell : Revoke(c))
    /\ SF_vars(StartCommand(TRUE, Registry))
    /\ SF_vars(StartCommand(FALSE, Registry))
    /\ WF_vars(RemoveFallback)

FairSpec == Spec /\ Fairness

(***************************************************************************)
(* The abstract specification, and how this one implements it.             *)
(***************************************************************************)

Content == [c \in Cell |->
               IF stored[c] = NoValue THEN <<>> ELSE <<stored[c].value>>]

Writing == [r \in Replicas |->
               IF sending[r] = Nothing THEN <<>>
               ELSE <<sending[r].cell, sending[r].cipher.value,
                      IF sending[r].insert THEN "insert" ELSE "upsert">>]

Working == [r \in Replicas |->
               IF taken[r] = Nothing THEN <<>>
                                     ELSE <<taken[r].job, taken[r].cipher.value>>]

Plain == INSTANCE PlainStore WITH
    content <- Content, writing <- Writing, working <- Working

\* Whoever reads plaintexts cannot tell that secrets are rotated, but for
\* restarts and revoked tokens: no step of the command, dying or rerun, and
\* none of the operator changes a value, whatever is written in between.
ImplementsPlainStore == Plain!Spec

(***************************************************************************)
(* Properties.                                                             *)
(***************************************************************************)

\* The command can find what a cell holds, as opposed to a table that the
\* registry leaves out and to one where a copy may put an old ciphertext
\* behind the cursor.
Covered(c) == c[1] \in {"jobs", "tokens"} \cup (Registry \ Copied)

\* Every replica can decrypt what it will be asked for, at every moment of
\* the rollout, the rotation and a rollback, and, where the command looked,
\* after the removal: no dry run but a final one opens the gate.
StaysReadable ==
    \A r \in Replicas :
        /\ \A c \in Cell :
              /\ Needed(c)
              /\ swaps = 0 \/ target.fallbacks # {} \/ Covered(c)
              => Reads(keyring[r], stored[c])
        /\ taken[r] # Nothing => Reads(keyring[r], taken[r].cipher)

\* The command never overwrites what a replica wrote after it had read the
\* row, nor brings back a row that was deleted.
CommandKeepsValues ==
    [][\A c \in Cell :
          running /\ page' # page /\ stored'[c] # stored[c]
              => /\ stored[c] # NoValue
                 /\ stored'[c].value = stored[c].value]_vars

\* Once a final dry run found nothing, nothing needs the fallback any more:
\* what the runbook concludes from an empty list of blockers.
ClearedIsFinal ==
    cleared => \A c \in Cell : Needed(c) => stored[c].secret = target.active

\* That much is true of what the command can find, whatever is written
\* behind its cursor and is written after it.
ClearedWhereCovered ==
    cleared => \A c \in Cell : Needed(c) /\ Covered(c)
                                   => stored[c].secret = target.active

\* Whether the command went past a cell.
Scanned(c) ==
    /\ c[1] \in tables \cup {"jobs", "tokens"}
    /\ c[1] \in open => c[2] <= cursor[c[1]]

\* A write under way was encrypted by the replica that makes it, or copies.
OwnWrites ==
    \A r \in Replicas :
        sending[r] # Nothing =>
            IF sending[r].copy THEN sending[r].cell[1] \in Copied
                               ELSE sending[r].cipher.secret = keyring[r].active

\* Before the swap everything was made with the old secret.
Before ==
    swaps = 0 =>
        /\ target.active = Old /\ target.fallbacks \subseteq {New}
        /\ ~running /\ ~cleared
        /\ \A r \in Replicas :
              /\ keyring[r].active = Old
              /\ sending[r] # Nothing => sending[r].cipher.secret = Old
              /\ taken[r] # Nothing => taken[r].cipher.secret = Old
        /\ \A c \in Cell : stored[c] # NoValue => stored[c].secret = Old

\* While there are two secrets every replica has both.
During ==
    swaps > 0 /\ target.fallbacks # {} =>
        /\ All(target) = Secrets /\ target.active \notin target.fallbacks
        /\ \A r \in Replicas : All(keyring[r]) = Secrets

\* Nothing that is covered needs the fallback after the gate.
NothingNeedsFallback ==
    /\ \A c \in Cell : Needed(c) /\ Covered(c)
                           => stored[c].secret = target.active
    /\ \A r \in Replicas :
          /\ keyring[r].active = target.active
          /\ taken[r] # Nothing => Reads(keyring[r], taken[r].cipher)

After ==
    cleared \/ (swaps > 0 /\ target.fallbacks = {})
        => swaps > 0 /\ ~running /\ NothingNeedsFallback

\* A dry run that found no blocker so far left none behind.
Running ==
    running =>
        /\ swaps > 0 /\ target.fallbacks # {} /\ All(keys) = Secrets
        /\ ~execute => page = {}
        /\ fresh => keys = target /\ RolledOut
        /\ fresh /\ ~execute /\ ~blocked =>
              \A c \in Cell : Scanned(c) /\ Needed(c) /\ Covered(c)
                                => stored[c].secret = target.active

\* The next command begins with the first rows.
Idle == ~running => open = {} /\ page = {} /\ cursor = [s \in Sources |-> 0]

\* A queued job has a payload.
QueuedIsStored ==
    \A c \in Cell : IsJob(c) /\ jobs[c[2]] = "queued" => stored[c] # NoValue

\* The inductive invariant, and the part of it that needs no order of the
\* phases.
StoreInv == TypeOK /\ QueuedIsStored /\ Idle

RotationInv ==
    /\ StoreInv /\ OwnWrites
    /\ Before /\ During /\ After /\ Running

\* A rotation that was begun ends: the old secret, or after a rollback the
\* new one, is removed everywhere.
RotationEnds == swaps > 0 ~> target.fallbacks = {} /\ RolledOut
=============================================================================
