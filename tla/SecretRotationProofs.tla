------------------------ MODULE SecretRotationProofs ------------------------
(***************************************************************************)
(* Proofs about SecretRotation for every set of replicas, tables and rows, *)
(* every batch size and every number of swaps, requests and deaths of the  *)
(* command, every registry and every set of tables that are copied.        *)
(***************************************************************************)
EXTENDS SecretRotation, FiniteSetTheorems, TLAPS

\* The cells.
LEMMA Cells ==
    /\ \A c \in Cell :
          /\ c = <<c[1], c[2]>>
          /\ c[1] \in Sources
          /\ c[2] \in Nat /\ c[2] > 0
          /\ c[1] = "jobs" => c[2] \in JobIds
    /\ \A i \in JobIds : <<"jobs", i>> \in Cell
    /\ Cell \subseteq Sources \X Nat
    /\ {"jobs", "tokens"} \cap Tables = {}
    /\ Sources = Tables \cup {"jobs", "tokens"}
    /\ Registry \subseteq Tables
    /\ \A c \in Cell : c[1] \in Copied => c[1] \in Tables /\ ~Covered(c)
  BY RotationAssumption DEF RotationAssumption, JobIds, Sources, Covered

\* The bounds.
LEMMA Bounds == MaxRequests \in Nat /\ MaxSwaps \in Nat /\ MaxDeaths \in Nat
  BY RotationAssumption, Zenon DEF RotationAssumption

\* What is encrypted is a ciphertext of the active secret.
LEMMA Encrypts ==
    ASSUME NEW k \in Keyrings, NEW v \in Plaintexts
    PROVE  Encrypt(k, v) \in Ciphertexts /\ Encrypt(k, v).secret = k.active
                                         /\ Encrypt(k, v).value = v
  BY DEF Encrypt, Ciphertexts, Keyrings

\* The values of a table are plaintexts.
LEMMA Plaintext ==
    ASSUME NEW c \in Cell, NEW v \in Values[c[1]]
    PROVE  v \in Plaintexts
  BY Cells DEF Plaintexts

\* A ciphertext has a value and a secret.
LEMMA CipherValues ==
    \A x \in Ciphertexts : x.value \in Plaintexts /\ x.secret \in Secrets
  BY DEF Ciphertexts

\* The rows of a page hold ciphertext.
LEMMA PageIsStored ==
    ASSUME TypeOK, NEW s \in Sources
    PROVE  /\ Page(s) \subseteq Cell
           /\ \A c \in Page(s) : stored[c] \in Ciphertexts /\ c[2] \in Nat
                                 /\ c[1] = s
  BY Cells DEF Page, Rows, TypeOK

\* The types.
LEMMA TypeStep ==
    ASSUME TypeOK, QueuedIsStored,
           [Next]_vars
    PROVE  TypeOK'
<1>. USE DEF TypeOK, Payloads, operator, replica, database, options, command
<1>1. ASSUME NEW r \in Replicas, NEW c \in Cell, NEW v \in Values[c[1]],
     EncryptValue(r, c, v)
      PROVE  TypeOK'
  <2>1. Encrypt(keyring[r], v) \in Ciphertexts
    BY Encrypts, Plaintext
  <2>2. [cell |-> c, cipher |-> Encrypt(keyring[r], v), insert |-> IsJob(c),
         copy |-> FALSE] \in Writes
    BY <2>1 DEF Writes, IsJob
  <2>3. sending' \in [Replicas -> Writes \cup {Nothing}]
    BY <1>1, <2>2 DEF EncryptValue, Put
  <2>. QED
    BY <1>1, Bounds, <2>3 DEF EncryptValue, Request
<1>2. ASSUME NEW r \in Replicas, NEW c \in Cell, NEW d \in Cell,
     CopyVerbatim(r, c, d)
      PROVE  TypeOK'
  BY Cells, Bounds, <1>2 DEF CopyVerbatim, Put, Request, Writes
<1>3. ASSUME NEW r \in Replicas, Land(r)
      PROVE  TypeOK'
  BY Cells, Bounds, <1>3 DEF Land, Put, Writes
<1>4. ASSUME NEW r \in Replicas, NEW c \in Cell, GetJob(r, c)
      PROVE  TypeOK'
  <2>1. stored[c] \in Ciphertexts /\ c[2] \in JobIds
    BY <1>4, Cells DEF GetJob, QueuedIsStored, IsJob
  <2>2. taken' \in [Replicas -> Payloads \cup {Nothing}]
    BY <1>4, <2>1 DEF GetJob, Take
  <2>. QED
    BY <1>4, <2>1, <2>2 DEF GetJob
<1>5. ASSUME NEW r \in Replicas, JobEnds(r)
      PROVE  TypeOK'
  BY Cells, Bounds, <1>5 DEF JobEnds, Take
<1>6. ASSUME NEW r \in Replicas, Roll(r)
      PROVE  TypeOK'
  BY Cells, Bounds, <1>6 DEF Roll, Put, Take, Keyrings
<1>7. ASSUME NEW c \in Cell, Delete(c)
      PROVE  TypeOK'
  BY Cells, Bounds, <1>7 DEF Delete, Request
<1>8. ASSUME NEW c \in Cell, Revoke(c)
      PROVE  TypeOK'
  BY Cells, Bounds, <1>8 DEF Revoke
<1>9. ASSUME NEW s \in Sources, FetchPage(s)
      PROVE  TypeOK'
  BY Cells, PageIsStored, <1>9 DEF FetchPage
<1>10. ASSUME NEW e \in page, ReEncrypt(e)
      PROVE  TypeOK'
  <2>1. e[1] \in Cell /\ e[2] \in Ciphertexts
    OBVIOUS
  <2>2. Encrypt(keys, e[2].value) \in Ciphertexts
    BY <2>1, Encrypts, CipherValues
  <2>. QED
    BY <1>10, <2>1, <2>2 DEF ReEncrypt
<1>11. CASE Report
  BY Cells, Bounds, <1>11 DEF Report, Reset, FinalReport
<1>12. CASE CommandDies
  <2>1. deaths' \in 0 .. MaxDeaths
    BY <1>12, Bounds DEF CommandDies
  <2>. QED
    BY <1>12, <2>1 DEF CommandDies, Reset
<1>13. CASE AddFallback
  BY Cells, Bounds, <1>13 DEF AddFallback, Deploy, Keyrings, Secrets
<1>14. CASE Swap
  <2>1. swaps' \in 0 .. MaxSwaps
    BY <1>14, Bounds DEF Swap
  <2>2. target' \in Keyrings
    BY <1>14 DEF Swap, Deploy, Keyrings
  <2>. QED
    BY <1>14, <2>1, <2>2 DEF Swap
<1>15. CASE RemoveFallback
  BY Cells, Bounds, <1>15 DEF RemoveFallback, Deploy, Keyrings
<1>16. ASSUME NEW x \in BOOLEAN, NEW t \in SUBSET Registry \ {{}},
     StartCommand(x, t)
      PROVE  TypeOK'
  BY Cells, Bounds, <1>16 DEF StartCommand
<1>17. CASE UNCHANGED vars
  BY <1>17 DEF vars
<1>. QED
  BY <1>1, <1>2, <1>3, <1>4, <1>5, <1>6, <1>7, <1>8, <1>9, <1>10, <1>11,
       <1>12, <1>13, <1>14, <1>15, <1>16, <1>17 DEF Next, Run

\* A replica that is restarted drops its write.
LEMMA OwnWritesStep ==
    ASSUME TypeOK, OwnWrites,
           [Next]_vars
    PROVE  OwnWrites'
<1>. USE DEF TypeOK, Payloads, OwnWrites, operator, replica, database, options, command
<1>1. ASSUME NEW r \in Replicas, NEW c \in Cell, NEW v \in Values[c[1]],
     EncryptValue(r, c, v)
      PROVE  OwnWrites'
  BY <1>1 DEF EncryptValue, Put, Request, Encrypt
<1>2. ASSUME NEW r \in Replicas, NEW c \in Cell, NEW d \in Cell,
     CopyVerbatim(r, c, d)
      PROVE  OwnWrites'
  BY <1>2 DEF CopyVerbatim, Put, Request
<1>3. ASSUME NEW r \in Replicas, Land(r)
      PROVE  OwnWrites'
  BY <1>3 DEF Land, Put
<1>4. ASSUME NEW r \in Replicas, NEW c \in Cell, GetJob(r, c)
      PROVE  OwnWrites'
  BY <1>4 DEF GetJob, Take
<1>5. ASSUME NEW r \in Replicas, JobEnds(r)
      PROVE  OwnWrites'
  BY <1>5 DEF JobEnds, Take
<1>6. ASSUME NEW r \in Replicas, Roll(r)
      PROVE  OwnWrites'
  BY <1>6 DEF Roll, Put, Take
<1>7. ASSUME NEW c \in Cell, Delete(c)
      PROVE  OwnWrites'
  BY <1>7 DEF Delete, Request
<1>8. ASSUME NEW c \in Cell, Revoke(c)
      PROVE  OwnWrites'
  BY <1>8 DEF Revoke
<1>9. ASSUME NEW s \in Sources, FetchPage(s)
      PROVE  OwnWrites'
  BY <1>9 DEF FetchPage
<1>10. ASSUME NEW e \in page, ReEncrypt(e)
      PROVE  OwnWrites'
  BY <1>10 DEF ReEncrypt
<1>11. CASE Report
  BY <1>11 DEF Report, Reset
<1>12. CASE CommandDies
  BY <1>12 DEF CommandDies, Reset
<1>13. CASE AddFallback
  BY <1>13 DEF AddFallback, Deploy
<1>14. CASE Swap
  BY <1>14 DEF Swap, Deploy
<1>15. CASE RemoveFallback
  BY <1>15 DEF RemoveFallback, Deploy
<1>16. ASSUME NEW x \in BOOLEAN, NEW t \in SUBSET Registry \ {{}},
     StartCommand(x, t)
      PROVE  OwnWrites'
  BY <1>16 DEF StartCommand
<1>17. CASE UNCHANGED vars
  BY <1>17 DEF vars
<1>. QED
  BY <1>1, <1>2, <1>3, <1>4, <1>5, <1>6, <1>7, <1>8, <1>9, <1>10, <1>11,
       <1>12, <1>13, <1>14, <1>15, <1>16, <1>17 DEF Next, Run

\* A job and its payload are written, and deleted, together.
LEMMA QueuedStep ==
    ASSUME TypeOK, QueuedIsStored,
           [Next]_vars
    PROVE  QueuedIsStored'
<1>. USE DEF TypeOK, Payloads, QueuedIsStored, IsJob, operator, replica, database,
     options, command
<1>1. ASSUME NEW r \in Replicas, NEW c \in Cell, NEW v \in Values[c[1]],
     EncryptValue(r, c, v)
      PROVE  QueuedIsStored'
  BY Cells, NullAssumption, <1>1 DEF EncryptValue, Put, Request
<1>2. ASSUME NEW r \in Replicas, NEW c \in Cell, NEW d \in Cell,
     CopyVerbatim(r, c, d)
      PROVE  QueuedIsStored'
  BY Cells, NullAssumption, <1>2 DEF CopyVerbatim, Put, Request
<1>3. ASSUME NEW r \in Replicas, Land(r)
      PROVE  QueuedIsStored'
  BY Cells, NullAssumption, <1>3 DEF Land, Put, Writes
<1>4. ASSUME NEW r \in Replicas, NEW c \in Cell, GetJob(r, c)
      PROVE  QueuedIsStored'
  BY Cells, NullAssumption, <1>4 DEF GetJob, Take
<1>5. ASSUME NEW r \in Replicas, JobEnds(r)
      PROVE  QueuedIsStored'
  BY Cells, NullAssumption, <1>5 DEF JobEnds, Take
<1>6. ASSUME NEW r \in Replicas, Roll(r)
      PROVE  QueuedIsStored'
  BY Cells, NullAssumption, <1>6 DEF Roll, Put, Take
<1>7. ASSUME NEW c \in Cell, Delete(c)
      PROVE  QueuedIsStored'
  BY Cells, NullAssumption, <1>7 DEF Delete, Request
<1>8. ASSUME NEW c \in Cell, Revoke(c)
      PROVE  QueuedIsStored'
  BY Cells, NullAssumption, <1>8 DEF Revoke
<1>9. ASSUME NEW s \in Sources, FetchPage(s)
      PROVE  QueuedIsStored'
  BY Cells, NullAssumption, <1>9 DEF FetchPage
<1>10. ASSUME NEW e \in page, ReEncrypt(e)
      PROVE  QueuedIsStored'
  BY Cells, NullAssumption, Encrypts, CipherValues, <1>10 DEF ReEncrypt
<1>11. CASE Report
  BY Cells, NullAssumption, <1>11 DEF Report, Reset
<1>12. CASE CommandDies
  BY Cells, NullAssumption, <1>12 DEF CommandDies, Reset
<1>13. CASE AddFallback
  BY Cells, NullAssumption, <1>13 DEF AddFallback, Deploy
<1>14. CASE Swap
  BY Cells, NullAssumption, <1>14 DEF Swap, Deploy
<1>15. CASE RemoveFallback
  BY Cells, NullAssumption, <1>15 DEF RemoveFallback, Deploy
<1>16. ASSUME NEW x \in BOOLEAN, NEW t \in SUBSET Registry \ {{}},
     StartCommand(x, t)
      PROVE  QueuedIsStored'
  BY Cells, NullAssumption, <1>16 DEF StartCommand
<1>17. CASE UNCHANGED vars
  BY Cells, <1>17 DEF vars
<1>. QED
  BY <1>1, <1>2, <1>3, <1>4, <1>5, <1>6, <1>7, <1>8, <1>9, <1>10, <1>11,
       <1>12, <1>13, <1>14, <1>15, <1>16, <1>17 DEF Next, Run

\* A command that ended left no page and no cursor.
LEMMA IdleStep ==
    ASSUME TypeOK, Idle,
           [Next]_vars
    PROVE  Idle'
<1>. USE DEF TypeOK, Payloads, Idle, operator, replica, database, options, command
<1>1. ASSUME NEW r \in Replicas, NEW c \in Cell, NEW v \in Values[c[1]],
     EncryptValue(r, c, v)
      PROVE  Idle'
  BY <1>1 DEF EncryptValue, Put, Request
<1>2. ASSUME NEW r \in Replicas, NEW c \in Cell, NEW d \in Cell,
     CopyVerbatim(r, c, d)
      PROVE  Idle'
  BY <1>2 DEF CopyVerbatim, Put, Request
<1>3. ASSUME NEW r \in Replicas, Land(r)
      PROVE  Idle'
  BY <1>3 DEF Land, Put
<1>4. ASSUME NEW r \in Replicas, NEW c \in Cell, GetJob(r, c)
      PROVE  Idle'
  BY <1>4 DEF GetJob, Take
<1>5. ASSUME NEW r \in Replicas, JobEnds(r)
      PROVE  Idle'
  BY <1>5 DEF JobEnds, Take
<1>6. ASSUME NEW r \in Replicas, Roll(r)
      PROVE  Idle'
  BY <1>6 DEF Roll, Put, Take
<1>7. ASSUME NEW c \in Cell, Delete(c)
      PROVE  Idle'
  BY <1>7 DEF Delete, Request
<1>8. ASSUME NEW c \in Cell, Revoke(c)
      PROVE  Idle'
  BY <1>8 DEF Revoke
<1>9. ASSUME NEW s \in Sources, FetchPage(s)
      PROVE  Idle'
  BY <1>9 DEF FetchPage, MayFetch
<1>10. ASSUME NEW e \in page, ReEncrypt(e)
      PROVE  Idle'
  BY <1>10 DEF ReEncrypt
<1>11. CASE Report
  BY <1>11 DEF Report, Reset
<1>12. CASE CommandDies
  BY <1>12 DEF CommandDies, Reset
<1>13. CASE AddFallback
  BY <1>13 DEF AddFallback, Deploy
<1>14. CASE Swap
  BY <1>14 DEF Swap, Deploy
<1>15. CASE RemoveFallback
  BY <1>15 DEF RemoveFallback, Deploy
<1>16. ASSUME NEW x \in BOOLEAN, NEW t \in SUBSET Registry \ {{}},
     StartCommand(x, t)
      PROVE  Idle'
  BY <1>16 DEF StartCommand
<1>17. CASE UNCHANGED vars
  BY <1>17 DEF vars
<1>. QED
  BY <1>1, <1>2, <1>3, <1>4, <1>5, <1>6, <1>7, <1>8, <1>9, <1>10, <1>11,
       <1>12, <1>13, <1>14, <1>15, <1>16, <1>17 DEF Next, Run

\* The old secret is active until the first swap.
LEMMA BeforeStep ==
    ASSUME TypeOK, Idle, QueuedIsStored, Before,
           [Next]_vars
    PROVE  Before'
<1>. USE DEF TypeOK, Payloads, Idle, Before, operator, replica, database, options,
     command
<1>1. ASSUME NEW r \in Replicas, NEW c \in Cell, NEW v \in Values[c[1]],
     EncryptValue(r, c, v)
      PROVE  Before'
  BY Cells, <1>1 DEF EncryptValue, Put, Request, Encrypt
<1>2. ASSUME NEW r \in Replicas, NEW c \in Cell, NEW d \in Cell,
     CopyVerbatim(r, c, d)
      PROVE  Before'
  BY Cells, <1>2 DEF CopyVerbatim, Put, Request
<1>3. ASSUME NEW r \in Replicas, Land(r)
      PROVE  Before'
  BY Cells, <1>3 DEF Land, Put
<1>4. ASSUME NEW r \in Replicas, NEW c \in Cell, GetJob(r, c)
      PROVE  Before'
  BY Cells, <1>4 DEF GetJob, Take, QueuedIsStored
<1>5. ASSUME NEW r \in Replicas, JobEnds(r)
      PROVE  Before'
  <2>1. \A c \in Cell : stored'[c] = stored[c] \/ stored'[c] = NoValue
    BY <1>5 DEF JobEnds
  <2>. QED
    BY <1>5, <2>1 DEF JobEnds, Take
<1>6. ASSUME NEW r \in Replicas, Roll(r)
      PROVE  Before'
  BY Cells, <1>6 DEF Roll, Put, Take
<1>7. ASSUME NEW c \in Cell, Delete(c)
      PROVE  Before'
  BY Cells, <1>7 DEF Delete, Request
<1>8. ASSUME NEW c \in Cell, Revoke(c)
      PROVE  Before'
  BY Cells, <1>8 DEF Revoke
<1>9. ASSUME NEW s \in Sources, FetchPage(s)
      PROVE  Before'
  BY Cells, <1>9 DEF FetchPage, MayFetch
<1>10. ASSUME NEW e \in page, ReEncrypt(e)
      PROVE  Before'
  BY Cells, <1>10 DEF ReEncrypt
<1>11. CASE Report
  BY Cells, <1>11 DEF Report, Reset
<1>12. CASE CommandDies
  BY Cells, <1>12 DEF CommandDies, Reset
<1>13. CASE AddFallback
  BY Cells, <1>13 DEF AddFallback, Deploy
<1>14. CASE Swap
  BY Cells, <1>14 DEF Swap, Deploy
<1>15. CASE RemoveFallback
  BY Cells, <1>15 DEF RemoveFallback, Deploy
<1>16. ASSUME NEW x \in BOOLEAN, NEW t \in SUBSET Registry \ {{}},
     StartCommand(x, t)
      PROVE  Before'
  BY Cells, <1>16 DEF StartCommand
<1>17. CASE UNCHANGED vars
  BY <1>17 DEF vars
<1>. QED
  BY <1>1, <1>2, <1>3, <1>4, <1>5, <1>6, <1>7, <1>8, <1>9, <1>10, <1>11,
       <1>12, <1>13, <1>14, <1>15, <1>16, <1>17 DEF Next, Run

\* The swap waits for every replica to have both secrets.
LEMMA DuringStep ==
    ASSUME TypeOK, Before, During,
           [Next]_vars
    PROVE  During'
<1>. USE DEF TypeOK, Payloads, Before, During, Secrets, Keyrings, All, operator,
     replica, database, options, command
<1>1. ASSUME NEW r \in Replicas, NEW c \in Cell, NEW v \in Values[c[1]],
     EncryptValue(r, c, v)
      PROVE  During'
  BY <1>1 DEF EncryptValue, Put, Request
<1>2. ASSUME NEW r \in Replicas, NEW c \in Cell, NEW d \in Cell,
     CopyVerbatim(r, c, d)
      PROVE  During'
  BY <1>2 DEF CopyVerbatim, Put, Request
<1>3. ASSUME NEW r \in Replicas, Land(r)
      PROVE  During'
  BY <1>3 DEF Land, Put
<1>4. ASSUME NEW r \in Replicas, NEW c \in Cell, GetJob(r, c)
      PROVE  During'
  BY <1>4 DEF GetJob, Take
<1>5. ASSUME NEW r \in Replicas, JobEnds(r)
      PROVE  During'
  BY <1>5 DEF JobEnds, Take
<1>6. ASSUME NEW r \in Replicas, Roll(r)
      PROVE  During'
  BY <1>6 DEF Roll, Put, Take
<1>7. ASSUME NEW c \in Cell, Delete(c)
      PROVE  During'
  BY <1>7 DEF Delete, Request
<1>8. ASSUME NEW c \in Cell, Revoke(c)
      PROVE  During'
  BY <1>8 DEF Revoke
<1>9. ASSUME NEW s \in Sources, FetchPage(s)
      PROVE  During'
  BY <1>9 DEF FetchPage
<1>10. ASSUME NEW e \in page, ReEncrypt(e)
      PROVE  During'
  BY <1>10 DEF ReEncrypt
<1>11. CASE Report
  BY <1>11 DEF Report, Reset
<1>12. CASE CommandDies
  BY <1>12 DEF CommandDies, Reset
<1>13. CASE AddFallback
  BY <1>13 DEF AddFallback, Deploy
<1>14. CASE Swap
  <2>1. target.fallbacks = Secrets \ {target.active}
    <3>1. CASE swaps = 0
      BY <1>14, <3>1, RotationAssumption DEF Swap, MaySwap, RotationAssumption
    <3>2. CASE swaps > 0
      BY <1>14, <3>2 DEF Swap, MaySwap
    <3>. QED  BY <3>1, <3>2
  <2>2. PICK s \in target.fallbacks :
            target' = [active |-> s, fallbacks |-> {target.active}]
    BY <1>14 DEF Swap, Deploy
  <2>. QED
    BY <1>14, <2>1, <2>2 DEF Swap, MaySwap
<1>15. CASE RemoveFallback
  BY <1>15 DEF RemoveFallback, Deploy
<1>16. ASSUME NEW x \in BOOLEAN, NEW t \in SUBSET Registry \ {{}},
     StartCommand(x, t)
      PROVE  During'
  BY <1>16 DEF StartCommand
<1>17. CASE UNCHANGED vars
  BY <1>17 DEF vars
<1>. QED
  BY <1>1, <1>2, <1>3, <1>4, <1>5, <1>6, <1>7, <1>8, <1>9, <1>10, <1>11,
       <1>12, <1>13, <1>14, <1>15, <1>16, <1>17 DEF Next, Run

\* A page has every row between the old cursor and the new one.
LEMMA NewlyScanned ==
    ASSUME TypeOK, NEW s \in Sources, FetchPage(s),
           NEW c \in Cell, Needed(c), Scanned(c)', ~Scanned(c)
    PROVE  c \in Page(s)
<1>1. /\ open' \subseteq open /\ open \ {s} \subseteq open'
      /\ \A q \in Sources \ {s} : cursor'[q] = cursor[q]
      /\ tables' = tables
      /\ s \in open
  BY DEF FetchPage, MayFetch, options, TypeOK
<1>2. c[1] = s /\ c[2] > cursor[s]
  <2>1. CASE c[1] # s
    BY <1>1, <2>1, Cells DEF Scanned
  <2>2. CASE c[1] = s
    BY <1>1, <2>2, Cells DEF Scanned, TypeOK
  <2>. QED  BY <2>1, <2>2
<1>3. c \in Rows(s)
  BY <1>2 DEF Rows, Needed
<1>4. IsFiniteSet(Rows(s))
  BY RotationAssumption, FS_Subset DEF RotationAssumption, Rows
<1>. DEFINE Behind(d) == {e \in Rows(s) : e[2] < d[2]}
<1>5. \A S \in SUBSET Rows(s), T \in SUBSET Rows(s) :
         S \subseteq T => /\ Cardinality(S) \in Nat /\ Cardinality(T) \in Nat
                         /\ Cardinality(S) <= Cardinality(T)
  BY <1>4, FS_Subset, FS_CardinalityType
<1>6. BatchSize \in Nat
  BY RotationAssumption, Zenon DEF RotationAssumption
<1>7. Cardinality(Behind(c)) < BatchSize
  <2>1. CASE Cardinality(Rows(s)) < BatchSize
    <3>. Behind(c) \subseteq Rows(s)
      OBVIOUS
    <3>. QED  BY <1>5, <1>6, <2>1
  <2>2. CASE ~(Cardinality(Rows(s)) < BatchSize)
    <3>1. PICK m \in Page(s) : cursor' = [cursor EXCEPT ![s] = m[2]]
      BY <2>2 DEF FetchPage
    <3>2. open' = open
      BY <2>2 DEF FetchPage
    <3>3. c[2] <= m[2]
      BY <1>1, <1>2, <3>1, <3>2 DEF Scanned, TypeOK
    <3>4. Cardinality(Behind(m)) < BatchSize
      BY <3>1 DEF Page
    <3>5. Behind(c) \subseteq Behind(m)
      BY <3>1, <3>3, Cells, PageIsStored DEF Rows
    <3>. QED  BY <1>5, <1>6, <3>4, <3>5
  <2>. QED  BY <2>1, <2>2
<1>. QED  BY <1>3, <1>7 DEF Page

\* A write changes one cell, and the need for no other.
LEMMA LandWrites ==
    ASSUME TypeOK, NEW r \in Replicas, Land(r), NEW c \in Cell, Needed(c)'
    PROVE  \/ Needed(c) /\ stored'[c] = stored[c]
           \/ /\ sending[r] # Nothing
              /\ c = sending[r].cell /\ stored'[c] = sending[r].cipher
<1>. DEFINE w == sending[r]
            written == ~w.insert \/ stored[w.cell] = NoValue
<1>1. w # Nothing /\ w.cell \in Cell
  BY DEF Land, TypeOK, Writes
<1>2. CASE written /\ c = w.cell
  BY <1>1, <1>2 DEF Land, TypeOK
<1>3. CASE written /\ c # w.cell
  <2>1. stored'[c] = stored[c]
    BY <1>1, <1>3 DEF Land, TypeOK
  <2>2. IsJob(c) => jobs'[c[2]] = jobs[c[2]]
    <3>1. CASE IsJob(w.cell)
      <4>1. IsJob(c) => c[2] # w.cell[2]
        BY <1>1, <1>3, <3>1, Cells DEF IsJob
      <4>. QED  BY <1>3, <3>1, <4>1, Cells DEF Land, TypeOK, IsJob
    <3>2. CASE ~IsJob(w.cell)
      BY <1>3, <3>2 DEF Land
    <3>. QED  BY <3>1, <3>2
  <2>. QED  BY <2>1, <2>2 DEF Needed, IsJob
<1>4. CASE ~written
  BY <1>4 DEF Land, Needed, IsJob
<1>. QED  BY <1>2, <1>3, <1>4

\* A dry run leaves no row behind that needs the fallback.
LEMMA RunningStep ==
    ASSUME TypeOK, OwnWrites, QueuedIsStored,
           Before, During, After, Running, Idle,
           [Next]_vars
    PROVE  Running'
<1>. USE DEF TypeOK, Payloads, OwnWrites, Running, RolledOut, operator,
     replica, database, options, command
<1>1. ASSUME NEW r \in Replicas, NEW c \in Cell, NEW v \in Values[c[1]],
     EncryptValue(r, c, v)
      PROVE  Running'
  BY Cells, <1>1 DEF EncryptValue, Put, Request, Needed, Scanned, Covered, IsJob,
       Encrypt
<1>2. ASSUME NEW r \in Replicas, NEW c \in Cell, NEW d \in Cell,
     CopyVerbatim(r, c, d)
      PROVE  Running'
  BY Cells, <1>2 DEF CopyVerbatim, Put, Request, Needed, Scanned, Covered, IsJob
<1>3. ASSUME NEW r \in Replicas, Land(r)
      PROVE  Running'
  <2>1. sending[r] \in Writes
    BY <1>3 DEF Land
  <2>2. \/ sending[r].cipher.secret = keyring[r].active
        \/ ~Covered(sending[r].cell)
    BY <1>3, <2>1, Cells DEF Writes, Land
  <2>3. \A c \in Cell : Needed(c)' /\ Covered(c) =>
            \/ Needed(c) /\ stored'[c] = stored[c]
            \/ stored'[c].secret = keyring[r].active
    BY <1>3, <2>2, LandWrites
  <2>. QED
    BY <1>3, <2>3 DEF Land, Put, Scanned, Covered
<1>4. ASSUME NEW r \in Replicas, NEW c \in Cell, GetJob(r, c)
      PROVE  Running'
  BY Cells, <1>4 DEF GetJob, Take, Needed, Scanned, Covered, IsJob
<1>5. ASSUME NEW r \in Replicas, JobEnds(r)
      PROVE  Running'
  BY Cells, <1>5 DEF JobEnds, Take, Needed, Scanned, Covered, IsJob
<1>6. ASSUME NEW r \in Replicas, Roll(r)
      PROVE  Running'
  BY Cells, <1>6 DEF Roll, Put, Take, Needed, Scanned, Covered, IsJob
<1>7. ASSUME NEW c \in Cell, Delete(c)
      PROVE  Running'
  BY Cells, <1>7 DEF Delete, Request, Needed, Scanned, Covered, IsJob
<1>8. ASSUME NEW c \in Cell, Revoke(c)
      PROVE  Running'
  BY Cells, <1>8 DEF Revoke, Needed, Scanned, Covered, IsJob
<1>9. ASSUME NEW s \in Sources, FetchPage(s)
      PROVE  Running'
  <2>. SUFFICES ASSUME running, fresh, ~execute, ~blocked',
                       NEW c \in Cell, Scanned(c)', Needed(c), Covered(c)
                PROVE  stored[c].secret = target.active
    BY <1>9, Cells DEF FetchPage, Needed, IsJob, Covered
  <2>1. CASE Scanned(c)
    BY <1>9, <2>1 DEF FetchPage
  <2>2. CASE ~Scanned(c)
    <3>1. c \in Page(s)
      BY <1>9, <2>2, NewlyScanned
    <3>2. ~NeedsFallback(stored[c])
      BY <1>9, <3>1 DEF FetchPage
    <3>3. stored[c].secret \in Secrets /\ Secrets = {keys.active} \cup
         keys.fallbacks
      BY <3>1, PageIsStored, CipherValues DEF All
    <3>. QED
      BY <3>2, <3>3 DEF NeedsFallback
  <2>. QED  BY <2>1, <2>2
<1>10. ASSUME NEW e \in page, ReEncrypt(e)
      PROVE  Running'
  BY Cells, <1>10 DEF ReEncrypt, Needed, Scanned, Covered, IsJob
<1>11. CASE Report
  BY Cells, <1>11 DEF Report, Reset, Needed, Scanned, Covered, IsJob
<1>12. CASE CommandDies
  BY Cells, <1>12 DEF CommandDies, Reset, Needed, Scanned, Covered, IsJob
<1>13. CASE AddFallback
  BY Cells, <1>13 DEF AddFallback, Deploy, Needed, Scanned, Covered, IsJob, Before
<1>14. CASE Swap
  BY Cells, <1>14 DEF Swap, Deploy, Needed, Scanned, Covered, IsJob
<1>15. CASE RemoveFallback
  BY Cells, <1>15 DEF RemoveFallback, Deploy, Needed, Scanned, Covered, IsJob, After
<1>16. ASSUME NEW x \in BOOLEAN, NEW t \in SUBSET Registry \ {{}},
     StartCommand(x, t)
      PROVE  Running'
  <2>1. swaps > 0 /\ All(target) = Secrets /\ RolledOut
    BY <1>16 DEF StartCommand, MayRun, During
  <2>2. \A c \in Cell : ~Scanned(c)'
    BY <1>16, Cells DEF StartCommand, Scanned, Idle
  <2>. QED
    BY <1>16, <2>1, <2>2 DEF StartCommand, Idle
<1>17. CASE UNCHANGED vars
  BY Cells, <1>17 DEF vars, Needed, Scanned, Covered, IsJob
<1>. QED
  BY <1>1, <1>2, <1>3, <1>4, <1>5, <1>6, <1>7, <1>8, <1>9, <1>10, <1>11,
       <1>12, <1>13, <1>14, <1>15, <1>16, <1>17 DEF Next, Run

\* The report of a final dry run vouches for every replica and every row.
LEMMA AfterStep ==
    ASSUME TypeOK, OwnWrites, QueuedIsStored,
           Before, During, After, Running, Idle,
           [Next]_vars
    PROVE  After'
<1>. USE DEF TypeOK, Payloads, OwnWrites, After, NothingNeedsFallback, operator,
     replica, database, options, command
<1>1. ASSUME NEW r \in Replicas, NEW c \in Cell, NEW v \in Values[c[1]],
     EncryptValue(r, c, v)
      PROVE  After'
  BY Cells, <1>1 DEF EncryptValue, Put, Request, Needed, Covered, IsJob, Encrypt
<1>2. ASSUME NEW r \in Replicas, NEW c \in Cell, NEW d \in Cell,
     CopyVerbatim(r, c, d)
      PROVE  After'
  BY Cells, <1>2 DEF CopyVerbatim, Put, Request, Needed, Covered, IsJob
<1>3. ASSUME NEW r \in Replicas, Land(r)
      PROVE  After'
  <2>. SUFFICES ASSUME cleared \/ (swaps > 0 /\ target.fallbacks = {})
                PROVE  NothingNeedsFallback'
    BY <1>3 DEF Land
  <2>1. sending[r] \in Writes
    BY <1>3 DEF Land
  <2>2. \/ sending[r].cipher.secret = target.active
        \/ ~Covered(sending[r].cell)
    BY <1>3, <2>1, Cells DEF Writes, Land
  <2>3. \A c \in Cell : Needed(c)' /\ Covered(c)
                             => stored'[c].secret = target.active
    BY <1>3, <2>2, LandWrites DEF Land
  <2>. QED
    BY <1>3, <2>3 DEF Land, Reads, All, Covered
<1>4. ASSUME NEW r \in Replicas, NEW c \in Cell, GetJob(r, c)
      PROVE  After'
  <2>1. Needed(c)
    BY <1>4 DEF GetJob, QueuedIsStored, Needed
  <2>2. \A d \in Cell : Needed(d)' => Needed(d)
    BY <1>4, Cells DEF GetJob, Needed, IsJob
  <2>3. Covered(c)
    BY <1>4 DEF GetJob, IsJob, Covered
  <2>. QED
    BY <1>4, <2>1, <2>2, <2>3 DEF GetJob, Take, Reads, All, Covered
<1>5. ASSUME NEW r \in Replicas, JobEnds(r)
      PROVE  After'
  BY Cells, <1>5 DEF JobEnds, Take, Needed, Covered, IsJob
<1>6. ASSUME NEW r \in Replicas, Roll(r)
      PROVE  After'
  BY Cells, <1>6 DEF Roll, Put, Take, Needed, Covered, IsJob
<1>7. ASSUME NEW c \in Cell, Delete(c)
      PROVE  After'
  BY Cells, <1>7 DEF Delete, Request, Needed, Covered, IsJob
<1>8. ASSUME NEW c \in Cell, Revoke(c)
      PROVE  After'
  BY Cells, <1>8 DEF Revoke, Needed, Covered, IsJob
<1>9. ASSUME NEW s \in Sources, FetchPage(s)
      PROVE  After'
  BY Cells, <1>9 DEF FetchPage, Needed, Covered, IsJob, MayFetch, Idle
<1>10. ASSUME NEW e \in page, ReEncrypt(e)
      PROVE  After'
  BY Cells, <1>10 DEF ReEncrypt, Needed, Covered, IsJob, Idle
<1>11. CASE Report
  <2>1. target.fallbacks # {} /\ swaps > 0
    BY <1>11 DEF Report, Running
  <2>. SUFFICES ASSUME cleared'
                PROVE  ~running' /\ NothingNeedsFallback'
    BY <1>11, <2>1 DEF Report
  <2>2. running /\ fresh /\ ~execute /\ ~blocked /\ open = {} /\ tables =
       Registry
    BY <1>11 DEF Report, FinalReport
  <2>3. \A c \in Cell : Covered(c) => Scanned(c)
    BY <2>2 DEF Scanned, Covered
  <2>4. \A c \in Cell : Needed(c) /\ Covered(c)
                             => stored[c].secret = target.active
    BY <2>2, <2>3 DEF Running
  <2>5. \A r \in Replicas : keyring[r] = target /\ All(keyring[r]) = Secrets
    BY <2>1, <2>2 DEF Running, RolledOut
  <2>6. \A r \in Replicas : taken[r] # Nothing => Reads(keyring[r],
       taken[r].cipher)
    BY <2>5, CipherValues DEF Reads
  <2>. QED
    BY <1>11, <2>4, <2>5, <2>6 DEF Report, Reset, Needed, Covered, IsJob, Reads, All
<1>12. CASE CommandDies
  BY Cells, <1>12 DEF CommandDies, Reset, Needed, Covered, IsJob
<1>13. CASE AddFallback
  BY Cells, <1>13 DEF AddFallback, Deploy, Needed, Covered, IsJob, Before
<1>14. CASE Swap
  <2>. ~cleared' /\ target'.fallbacks # {}
    BY <1>14 DEF Swap, Deploy
  <2>. QED  OBVIOUS
<1>15. CASE RemoveFallback
  BY Cells, <1>15 DEF RemoveFallback, Deploy, Needed, Covered, IsJob
<1>16. ASSUME NEW x \in BOOLEAN, NEW t \in SUBSET Registry \ {{}},
     StartCommand(x, t)
      PROVE  After'
  BY Cells, <1>16 DEF StartCommand, Needed, Covered, IsJob
<1>17. CASE UNCHANGED vars
  BY Cells, <1>17 DEF vars, Needed, Covered, IsJob
<1>. QED
  BY <1>1, <1>2, <1>3, <1>4, <1>5, <1>6, <1>7, <1>8, <1>9, <1>10, <1>11,
       <1>12, <1>13, <1>14, <1>15, <1>16, <1>17 DEF Next, Run

\* At the start everything is made with the old secret.
LEMMA InitStored ==
    ASSUME Init
    PROVE  /\ target \in Keyrings /\ All(target) = {Old}
           /\ \A c \in Cell : /\ stored[c] \in Ciphertexts \cup {NoValue}
                              /\ stored[c] # NoValue => stored[c].secret = Old
                              /\ IsJob(c) => stored[c] = NoValue
<1>1. target \in Keyrings /\ All(target) = {Old}
  BY DEF Init, Keyrings, Secrets, All
<1>. SUFFICES ASSUME NEW c \in Cell
              PROVE  /\ stored[c] \in Ciphertexts \cup {NoValue}
                     /\ stored[c] # NoValue => stored[c].secret = Old
                     /\ IsJob(c) => stored[c] = NoValue
  BY <1>1
<1>2. CASE Initially[c] = NoValue \/ IsJob(c)
  BY <1>2 DEF Init
<1>3. CASE ~(Initially[c] = NoValue \/ IsJob(c))
  <2>1. Initially[c] \in Plaintexts
    BY <1>3, RotationAssumption, Plaintext DEF RotationAssumption
  <2>2. stored[c] = Encrypt(target, Initially[c])
    BY <1>3 DEF Init
  <2>. QED  BY <1>1, <1>3, <2>1, <2>2, Encrypts DEF Init
<1>. QED  BY <1>2, <1>3

\* The initial state has the types, and no command.
LEMMA InitStoreInv == Init => StoreInv /\ OwnWrites
<1>. SUFFICES ASSUME Init
              PROVE  StoreInv /\ OwnWrites
  OBVIOUS
<1>1. TypeOK
  <2>1. /\ swaps \in 0 .. MaxSwaps /\ requests \in 0 .. MaxRequests
        /\ deaths \in 0 .. MaxDeaths
    BY Bounds DEF Init
  <2>2. /\ keyring \in [Replicas -> Keyrings] /\ keys \in Keyrings
        /\ sending \in [Replicas -> Writes \cup {Nothing}]
        /\ taken \in [Replicas -> Payloads \cup {Nothing}]
        /\ jobs \in [JobIds -> {"free", "queued", "locked", "spent"}]
        /\ cursor \in [Sources -> Nat]
    BY InitStored DEF Init
  <2>3. stored \in [Cell -> Ciphertexts \cup {NoValue}]
    BY InitStored DEF Init
  <2>. QED  BY InitStored, <2>1, <2>2, <2>3 DEF Init, TypeOK
<1>2. OwnWrites /\ Idle
  BY DEF Init, OwnWrites, Idle
<1>3. \A i \in JobIds : jobs[i] # "queued"
  BY DEF Init
<1>4. QueuedIsStored
  BY <1>3, Cells DEF QueuedIsStored, IsJob
<1>. QED  BY <1>1, <1>2, <1>4 DEF StoreInv

\* Types, payloads of queued jobs and the state of the command, which need
\* no order of the phases.
LEMMA StoreInvariance == Spec => []StoreInv
<1>1. Init => StoreInv
  BY InitStoreInv
<1>2. StoreInv /\ [Next]_vars => StoreInv'
  BY TypeStep, QueuedStep, IdleStep DEF StoreInv
<1>. QED  BY <1>1, <1>2, PTL DEF Spec

\* The initial state satisfies the inductive invariant.
LEMMA InitRotationInv == Init => RotationInv
<1>. SUFFICES ASSUME Init
              PROVE  RotationInv
  OBVIOUS
<1>1. swaps = 0 /\ ~running /\ ~cleared
  BY DEF Init
<1>2. \A r \in Replicas : /\ keyring[r] = target /\ sending[r] = Nothing
                          /\ taken[r] = Nothing
  BY DEF Init
<1>3. target.active = Old /\ target.fallbacks = {}
  BY DEF Init
<1>4. Before
  BY InitStored, <1>1, <1>2, <1>3 DEF Before
<1>5. During /\ After /\ Running
  BY <1>1 DEF During, After, Running
<1>. QED  BY InitStoreInv, <1>4, <1>5 DEF RotationInv, StoreInv

\* The inductive invariant holds in every reachable state.
THEOREM RotationInvariance == Spec => []RotationInv
<1>1. Init => RotationInv
  BY InitRotationInv
<1>2. RotationInv /\ [Next]_vars => RotationInv'
  BY TypeStep, OwnWritesStep, QueuedStep, IdleStep, BeforeStep, DuringStep,
     AfterStep, RunningStep DEF RotationInv, StoreInv
<1>. QED  BY <1>1, <1>2, PTL DEF Spec

\* Every replica can decrypt what it will be asked for, at every moment of
\* the rollout, the rotation and its rollback, and after the removal of the
\* old secret too, except in tables that the registry leaves out or whose
\* ciphertext is copied (decryptWithMeta, docs/lightdash-secret-rotation.md).
THEOREM RotationStaysReadable == Spec => []StaysReadable
<1>1. RotationInv => StaysReadable
  <2>. SUFFICES ASSUME RotationInv, NEW r \in Replicas
                PROVE  /\ \A c \in Cell :
                             /\ Needed(c)
                             /\ \/ swaps = 0 \/ target.fallbacks # {}
                                \/ Covered(c)
                             => Reads(keyring[r], stored[c])
                       /\ taken[r] # Nothing
                             => Reads(keyring[r], taken[r].cipher)
    BY DEF StaysReadable
  <2>1. TypeOK /\ Before /\ During /\ After
    BY DEF RotationInv, StoreInv
  <2>2. \A c \in Cell : Needed(c) => stored[c] # NoValue
                                     /\ stored[c].secret \in Secrets
    BY <2>1, CipherValues DEF Needed, TypeOK
  <2>3. taken[r] # Nothing => taken[r].cipher.secret \in Secrets
    BY <2>1, CipherValues DEF TypeOK, Payloads
  <2>4. CASE swaps = 0
    BY <2>1, <2>2, <2>4 DEF Before, Reads, All
  <2>5. CASE swaps > 0 /\ target.fallbacks # {}
    BY <2>1, <2>2, <2>3, <2>5 DEF During, Reads
  <2>6. CASE swaps > 0 /\ target.fallbacks = {}
    BY <2>1, <2>6 DEF After, NothingNeedsFallback, Reads, All
  <2>. QED  BY <2>1, <2>4, <2>5, <2>6 DEF TypeOK
<1>. QED  BY <1>1, RotationInvariance, PTL

\* The report of a final dry run is not undone by what is written while it
\* runs or after it (collectBlockers, the gates of phase 3), except in tables
\* that the registry leaves out or whose ciphertext is copied.
THEOREM ClearanceIsFinal == Spec => []ClearedWhereCovered
<1>1. RotationInv => ClearedWhereCovered
  BY DEF RotationInv, After, NothingNeedsFallback, ClearedWhereCovered
<1>. QED  BY <1>1, RotationInvariance, PTL

\* The command never overwrites a newer value, nor brings a row back (the
\* WHERE clause of updateCiphertext).
THEOREM ValuesSurviveTheCommand == Spec => CommandKeepsValues
<1>1. StoreInv /\ [Next]_vars
        => [\A c \in Cell :
              running /\ page' # page /\ stored'[c] # stored[c]
                 => /\ stored[c] # NoValue
                    /\ stored'[c].value = stored[c].value]_vars
  <2>. SUFFICES ASSUME TypeOK, Idle, Next, NEW c \in Cell,
                       page' # page, stored'[c] # stored[c]
                PROVE  /\ stored[c] # NoValue
                       /\ stored'[c].value = stored[c].value
    BY DEF StoreInv, vars
  <2>. USE DEF command, options
  <2>1. ASSUME NEW e \in page, ReEncrypt(e)
        PROVE  stored[c] # NoValue /\ stored'[c].value = stored[c].value
    <3>1. e[1] \in Cell /\ e[2] \in Ciphertexts
      BY DEF TypeOK
    <3>2. c = e[1] /\ stored[c] = e[2]
      BY <2>1, <3>1 DEF ReEncrypt, Matches, TypeOK
    <3>3. stored'[c] = Encrypt(keys, e[2].value)
      BY <2>1, <3>1, <3>2 DEF ReEncrypt, Matches, TypeOK
    <3>. QED  BY <3>1, <3>2, <3>3, NullAssumption DEF NullAssumption, Encrypt
  <2>2. ASSUME NEW s \in Sources, FetchPage(s)
        PROVE  FALSE
    BY <2>2 DEF FetchPage, database
  <2>3. CASE Report \/ CommandDies
    BY <2>3 DEF Report, CommandDies, database
  <2>4. ASSUME NEW r \in Replicas, NEW d \in Cell,
               \/ \E v \in Values[d[1]] : EncryptValue(r, d, v)
               \/ \E e \in Cell : CopyVerbatim(r, d, e)
               \/ Land(r) \/ GetJob(r, d) \/ JobEnds(r) \/ Roll(r)
        PROVE  FALSE
    BY <2>4 DEF EncryptValue, CopyVerbatim, Land, GetJob, JobEnds, Roll
  <2>5. ASSUME NEW d \in Cell, Delete(d) \/ Revoke(d)
        PROVE  FALSE
    BY <2>5 DEF Delete, Revoke
  <2>6. CASE AddFallback \/ Swap \/ RemoveFallback
    BY <2>6 DEF AddFallback, Swap, RemoveFallback
  <2>7. ASSUME NEW x \in BOOLEAN, NEW t \in SUBSET Registry \ {{}},
               StartCommand(x, t)
        PROVE  FALSE
    BY <2>7 DEF StartCommand
  <2>. QED
    BY <2>1, <2>2, <2>3, <2>4, <2>5, <2>6, <2>7 DEF Next, Run
<1>. QED  BY <1>1, StoreInvariance, PTL DEF Spec, CommandKeepsValues

\* What a cell holds is read off its ciphertext.
LEMMA CellContent ==
    ASSUME NEW c \in Cell
    PROVE  /\ stored[c] = NoValue <=> Content[c] = <<>>
           /\ stored[c] # NoValue => /\ Content[c] = <<stored[c].value>>
                                     /\ Content[c][1] = stored[c].value
  BY DEF Content

\* What is written to a cell is its value.
LEMMA CellWritten ==
    ASSUME TypeOK, NEW c \in Cell, NEW cipher \in Ciphertexts \cup {NoValue},
           stored' = [stored EXCEPT ![c] = cipher]
    PROVE  /\ cipher = NoValue => Content' = [Content EXCEPT ![c] = <<>>]
           /\ cipher # NoValue => Content' = [Content EXCEPT ![c] = <<cipher.value>>]
  BY DEF Content, TypeOK

\* How a write is made is seen, with what secret is not.
Mode(w) == IF w.insert THEN "insert" ELSE "upsert"

\* The write a replica has under way.
LEMMA ReplicaSends ==
    ASSUME TypeOK, NEW r \in Replicas, NEW w \in Writes \cup {Nothing},
           sending' = [sending EXCEPT ![r] = w]
    PROVE  /\ w = Nothing => Writing' = [Writing EXCEPT ![r] = <<>>]
           /\ w # Nothing => Writing' = [Writing EXCEPT ![r] =
                                            <<w.cell, w.cipher.value, Mode(w)>>]
  BY DEF Writing, TypeOK, Mode

\* The job a replica has locked.
LEMMA ReplicaTakes ==
    ASSUME TypeOK, NEW r \in Replicas, NEW j \in Payloads \cup {Nothing},
           taken' = [taken EXCEPT ![r] = j]
    PROVE  /\ j = Nothing => Working' = [Working EXCEPT ![r] = <<>>]
           /\ j # Nothing => Working' = [Working EXCEPT ![r] =
                                            <<j.job, j.cipher.value>>]
  BY DEF Working, TypeOK

\* What a replica has under way.
LEMMA UnderWay ==
    ASSUME NEW r \in Replicas
    PROVE  /\ sending[r] = Nothing <=> Writing[r] = <<>>
           /\ sending[r] # Nothing
                 => /\ Writing[r][1] = sending[r].cell
                    /\ Writing[r][2] = sending[r].cipher.value
                    /\ Writing[r][3] = Mode(sending[r])
           /\ taken[r] = Nothing <=> Working[r] = <<>>
           /\ taken[r] # Nothing => Working[r][1] = taken[r].job
  BY DEF Writing, Working, Mode

\* A step that changes no ciphertext, write or job is not seen.
LEMMA NothingSeen ==
    /\ UNCHANGED stored => UNCHANGED Content
    /\ UNCHANGED sending => UNCHANGED Writing
    /\ UNCHANGED taken => UNCHANGED Working
  BY DEF Content, Writing, Working

\* A re-encryption writes the value that was read, to a row that has it still.
LEMMA ReEncryptedIsSame ==
    ASSUME TypeOK, NEW e \in page, ReEncrypt(e)
    PROVE  Content' = Content
<1>1. e[1] \in Cell /\ e[2] \in Ciphertexts
  BY DEF TypeOK
<1>2. CASE Matches(e)
  <2>. DEFINE cipher == Encrypt(keys, e[2].value)
  <2>1. cipher \in Ciphertexts /\ cipher.value = e[2].value
    BY <1>1, Encrypts, CipherValues DEF TypeOK
  <2>2. stored' = [stored EXCEPT ![e[1]] = cipher]
    BY <1>2 DEF ReEncrypt
  <2>3. cipher # NoValue /\ stored[e[1]] # NoValue
    BY <1>1, <1>2, <2>1, NullAssumption DEF Matches, NullAssumption
  <2>. HIDE DEF cipher
  <2>4. Content' = [Content EXCEPT ![e[1]] = <<e[2].value>>]
    BY <1>1, <2>1, <2>2, <2>3, CellWritten
  <2>5. Content[e[1]] = <<e[2].value>>
    BY <1>1, <1>2, <2>3, CellContent DEF Matches
  <2>. QED  BY <2>4, <2>5 DEF Content
<1>3. CASE ~Matches(e)
  BY <1>3, NothingSeen DEF ReEncrypt
<1>. QED  BY <1>2, <1>3

\* The write of a value, whatever it is encrypted with.
LEMMA EncryptWrites ==
    ASSUME TypeOK, NEW r \in Replicas, NEW c \in Cell, NEW v \in Values[c[1]],
           EncryptValue(r, c, v)
    PROVE  Plain!Write(r, c)
<1>. DEFINE w == [cell |-> c, cipher |-> Encrypt(keyring[r], v),
                  insert |-> IsJob(c), copy |-> FALSE]
<1>1. w \in Writes /\ w # Nothing
  <2>1. Encrypt(keyring[r], v) \in Ciphertexts
    BY Encrypts, Plaintext DEF TypeOK
  <2>2. w \in Writes
    BY <2>1 DEF Writes, IsJob
  <2>. QED  BY <2>2, NullAssumption DEF NullAssumption
<1>2. /\ sending' = [sending EXCEPT ![r] = w] /\ sending[r] = Nothing
      /\ UNCHANGED <<taken, stored, jobs>>
  BY DEF EncryptValue, Put
<1>3. /\ w.cell = c /\ w.cipher.value = v
      /\ Mode(w) = IF IsJob(c) THEN "insert" ELSE "upsert"
  BY DEF Encrypt, Mode
<1>. HIDE DEF w
<1>4. Writing' = [Writing EXCEPT ![r] = <<w.cell, w.cipher.value, Mode(w)>>]
  BY <1>1, <1>2, ReplicaSends
<1>5. Writing' = [Writing EXCEPT ![r] =
                     <<c, v, IF IsJob(c) THEN "insert" ELSE "upsert">>]
  BY <1>3, <1>4
<1>. QED
  BY <1>2, <1>5, UnderWay, NothingSeen
     DEF Plain!Write, Plain!Begin, Plain!None, IsJob, Plain!IsJob

\* A copy of a ciphertext is a copy of its value.
LEMMA CopyWrites ==
    ASSUME TypeOK, NEW r \in Replicas, NEW c \in Cell, NEW d \in Cell,
           CopyVerbatim(r, c, d)
    PROVE  Plain!Copy(r, c, d)
<1>. DEFINE w == [cell |-> d, cipher |-> stored[c],
                  insert |-> TRUE, copy |-> TRUE]
<1>1. w \in Writes /\ w # Nothing
  <2>1. stored[c] \in Ciphertexts
    BY DEF CopyVerbatim, TypeOK
  <2>2. w \in Writes
    BY <2>1 DEF Writes
  <2>. QED  BY <2>2, NullAssumption DEF NullAssumption
<1>2. /\ sending' = [sending EXCEPT ![r] = w] /\ sending[r] = Nothing
      /\ UNCHANGED <<taken, stored, jobs>>
  BY DEF CopyVerbatim, Put
<1>3. w.cell = d /\ w.cipher.value = stored[c].value /\ Mode(w) = "insert"
  BY DEF Mode
<1>. HIDE DEF w
<1>4. stored[c] # NoValue /\ stored[d] = NoValue /\ c[1] \in Tables /\ c[1] = d[1]
  BY Cells DEF CopyVerbatim
<1>5. w.cipher.value = Content[c][1]
  BY <1>3, <1>4, CellContent
<1>6. Writing' = [Writing EXCEPT ![r] = <<w.cell, w.cipher.value, Mode(w)>>]
  BY <1>1, <1>2, ReplicaSends
<1>7. Writing' = [Writing EXCEPT ![r] = <<d, Content[c][1], "insert">>]
  BY <1>3, <1>5, <1>6
<1>. QED
  BY <1>2, <1>4, <1>7, UnderWay, NothingSeen, CellContent
     DEF Plain!Copy, Plain!Begin, Plain!None

\* A statement that commits writes its value, if it writes at all.
LEMMA LandLands ==
    ASSUME TypeOK, NEW r \in Replicas, Land(r)
    PROVE  Plain!Land(r)
<1>. DEFINE w == sending[r]
            written == ~w.insert \/ stored[w.cell] = NoValue
            wrote == Mode(w) = "upsert" \/ Content[w.cell] = <<>>
<1>1. w \in Writes /\ w # Nothing
  BY DEF Land, TypeOK
<1>2. w.cell \in Cell /\ w.cipher \in Ciphertexts /\ w.cipher # NoValue
  BY <1>1, NullAssumption DEF Writes, NullAssumption
<1>3. written <=> wrote
  BY <1>2, CellContent DEF Mode
<1>4. Writing' = [Writing EXCEPT ![r] = <<>>] /\ UNCHANGED Working
  BY ReplicaSends, NothingSeen DEF Land, Put
<1>5. Content' = IF wrote THEN [Content EXCEPT ![w.cell] = <<w.cipher.value>>]
                          ELSE Content
  <2>1. CASE written
    <3>1. stored' = [stored EXCEPT ![w.cell] = w.cipher]
      BY <2>1 DEF Land
    <3>2. Content' = [Content EXCEPT ![w.cell] = <<w.cipher.value>>]
      BY <1>2, <3>1, CellWritten
    <3>. QED  BY <1>3, <2>1, <3>2
  <2>2. CASE ~written
    <3>1. stored' = stored
      BY <2>2 DEF Land
    <3>. QED  BY <1>3, <2>2, <3>1, NothingSeen
  <2>. QED  BY <2>1, <2>2
<1>6. jobs' = IF wrote /\ IsJob(w.cell) THEN [jobs EXCEPT ![w.cell[2]] = "queued"]
                                        ELSE jobs
  BY <1>3 DEF Land
<1>7. /\ Writing[r] # <<>>
      /\ Writing[r][1] = w.cell /\ Writing[r][2] = w.cipher.value
      /\ Writing[r][3] = Mode(w)
  BY <1>1, UnderWay
<1>. HIDE DEF w
<1>. QED
  BY <1>4, <1>5, <1>6, <1>7
     DEF Plain!Land, Plain!None, IsJob, Plain!IsJob

\* A job is locked, and ends, whatever its payload is encrypted with.
LEMMA JobsRun ==
    ASSUME StoreInv, NEW r \in Replicas
    PROVE  /\ \A c \in Cell : GetJob(r, c) => Plain!GetJob(r, c)
           /\ JobEnds(r) => Plain!JobEnds(r)
<1>. USE DEF StoreInv
<1>1. ASSUME NEW c \in Cell, GetJob(r, c)
      PROVE  Plain!GetJob(r, c)
  <2>. DEFINE j == [job |-> c[2], cipher |-> stored[c]]
  <2>1. stored[c] \in Ciphertexts /\ stored[c] # NoValue
    BY <1>1 DEF GetJob, QueuedIsStored, TypeOK
  <2>2. j \in Payloads /\ j # Nothing
    BY <1>1, <2>1, Cells, NullAssumption
       DEF GetJob, IsJob, Payloads, NullAssumption
  <2>3. taken' = [taken EXCEPT ![r] = j] /\ taken[r] = Nothing
    BY <1>1 DEF GetJob, Take
  <2>4. j.job = c[2] /\ j.cipher.value = Content[c][1]
    BY <2>1, CellContent
  <2>. HIDE DEF j
  <2>5. Working' = [Working EXCEPT ![r] = <<c[2], Content[c][1]>>]
    BY <2>2, <2>3, <2>4, ReplicaTakes
  <2>6. Working[r] = <<>>
    BY <2>3, UnderWay
  <2>. QED
    BY <1>1, <2>5, <2>6, NothingSeen
       DEF GetJob, Plain!GetJob, Plain!None, IsJob, Plain!IsJob
<1>2. ASSUME JobEnds(r)
      PROVE  Plain!JobEnds(r)
  <2>1. taken[r] \in Payloads /\ taken[r] # Nothing
    BY <1>2 DEF JobEnds, TypeOK
  <2>2. Working[r] # <<>> /\ Working[r][1] = taken[r].job
    BY <2>1, UnderWay
  <2>3. <<"jobs", taken[r].job>> \in Cell
    BY <2>1, Cells DEF Payloads
  <2>4. Working' = [Working EXCEPT ![r] = <<>>] /\ UNCHANGED Writing
    BY <1>2, ReplicaTakes, NothingSeen DEF JobEnds, Take
  <2>5. CASE /\ jobs' = [jobs EXCEPT ![taken[r].job] = "free"]
             /\ stored' = [stored EXCEPT ![<<"jobs", taken[r].job>>] = NoValue]
    <3>1. Content' = [Content EXCEPT ![<<"jobs", taken[r].job>>] = <<>>]
      BY <2>3, <2>5, CellWritten
    <3>. QED
      BY <2>2, <2>4, <2>5, <3>1 DEF Plain!JobEnds, Plain!None
  <2>6. CASE jobs' = [jobs EXCEPT ![taken[r].job] = "spent"] /\ stored' = stored
    BY <2>2, <2>4, <2>6, NothingSeen DEF Plain!JobEnds, Plain!None
  <2>. QED  BY <1>2, <2>5, <2>6 DEF JobEnds
<1>. QED  BY <1>1, <1>2

\* A new keyring is a restart, and no more.
LEMMA RollRestarts ==
    ASSUME TypeOK, NEW r \in Replicas, Roll(r)
    PROVE  Plain!Restart(r)
<1>1. /\ Writing' = [Writing EXCEPT ![r] = <<>>]
      /\ Working' = [Working EXCEPT ![r] = <<>>]
      /\ UNCHANGED Content
  BY ReplicaSends, ReplicaTakes, NothingSeen DEF Roll, Put, Take
<1>2. \/ UNCHANGED jobs
      \/ Working[r] # <<>> /\ jobs' = [jobs EXCEPT ![Working[r][1]] = "spent"]
  BY UnderWay DEF Roll
<1>. QED  BY <1>1, <1>2 DEF Plain!Restart, Plain!None

\* A row that is deleted, or a token that is revoked, is gone.
LEMMA DeletesDelete ==
    ASSUME TypeOK, NEW c \in Cell, Delete(c) \/ Revoke(c)
    PROVE  Plain!Delete(c)
<1>1. stored' = [stored EXCEPT ![c] = NoValue] /\ UNCHANGED <<sending, taken, jobs>>
  BY DEF Delete, Revoke, replica
<1>2. Content' = [Content EXCEPT ![c] = <<>>]
  BY <1>1, CellWritten
<1>3. ~IsJob(c)
  BY Cells DEF Delete, Revoke, IsJob
<1>. QED
  BY <1>1, <1>2, <1>3, NothingSeen
     DEF Plain!Delete, Plain!None, IsJob, Plain!IsJob

\* Whoever reads plaintexts cannot tell that secrets are rotated, but for
\* restarts and revoked tokens: no step of the command and none of the
\* operator changes a value, whatever is written, copied, deleted or killed in
\* between, and whatever the registry leaves out (updateCiphertext, the keyset
\* pages, decryptWithMeta).
THEOREM RotationIsUnseen == Spec => ImplementsPlainStore
<1>. DEFINE PNext == [Plain!Next]_<<Content, Writing, Working, jobs>>
<1>1. Init => Plain!Init
  <2>. SUFFICES ASSUME Init
                PROVE  Plain!Init
    OBVIOUS
  <2>1. ASSUME NEW c \in Cell
        PROVE  Content[c] = IF Initially[c] = NoValue \/ IsJob(c)
                            THEN <<>> ELSE <<Initially[c]>>
    <3>1. CASE Initially[c] = NoValue \/ IsJob(c)
      BY <3>1, CellContent DEF Init
    <3>2. CASE ~(Initially[c] = NoValue \/ IsJob(c))
      <4>1. Initially[c] \in Plaintexts
        BY <3>2, RotationAssumption, Plaintext DEF RotationAssumption
      <4>2. stored[c] = Encrypt(target, Initially[c]) /\ target \in Keyrings
        BY <3>2, InitStored DEF Init
      <4>3. stored[c] # NoValue /\ stored[c].value = Initially[c]
        BY <4>1, <4>2, Encrypts, NullAssumption DEF NullAssumption
      <4>. QED  BY <3>2, <4>3, CellContent
    <3>. QED  BY <3>1, <3>2
  <2>2. Content = [c \in Cell |-> IF Initially[c] = NoValue \/ IsJob(c)
                                  THEN <<>> ELSE <<Initially[c]>>]
    BY <2>1 DEF Content
  <2>3. /\ Writing = [r \in Replicas |-> <<>>]
        /\ Working = [r \in Replicas |-> <<>>]
    BY DEF Init, Writing, Working
  <2>4. jobs = [i \in {c[2] : c \in {d \in Cell : IsJob(d)}} |-> "free"]
    BY DEF Init, JobIds, IsJob
  <2>. QED
    BY <2>2, <2>3, <2>4 DEF Plain!Init, Plain!None, IsJob, Plain!IsJob
<1>2. StoreInv /\ [Next]_vars => PNext
  <2>. SUFFICES ASSUME StoreInv, [Next]_vars
                PROVE  PNext
    OBVIOUS
  <2>1. TypeOK
    BY DEF StoreInv
  <2>2. ASSUME NEW r \in Replicas, NEW c \in Cell,
               \/ Plain!Write(r, c) \/ Plain!GetJob(r, c)
               \/ \E d \in Cell : Plain!Copy(r, c, d)
               \/ Plain!Delete(c)
        PROVE  PNext
    BY <2>2 DEF Plain!Next
  <2>3. ASSUME NEW r \in Replicas,
               Plain!Land(r) \/ Plain!JobEnds(r) \/ Plain!Restart(r)
        PROVE  PNext
    BY <2>3 DEF Plain!Next
  <2>4. ASSUME UNCHANGED <<stored, sending, taken, jobs>>
        PROVE  PNext
    BY <2>4, NothingSeen
  <2>5. ASSUME NEW r \in Replicas, NEW c \in Cell,
               \/ \E v \in Values[c[1]] : EncryptValue(r, c, v)
               \/ \E d \in Cell : CopyVerbatim(r, c, d)
               \/ GetJob(r, c)
        PROVE  PNext
    BY <2>1, <2>2, <2>5, EncryptWrites, CopyWrites, JobsRun
  <2>6. ASSUME NEW r \in Replicas, Land(r) \/ JobEnds(r) \/ Roll(r)
        PROVE  PNext
    BY <2>1, <2>3, <2>6, LandLands, JobsRun, RollRestarts
  <2>7. ASSUME NEW c \in Cell, Delete(c) \/ Revoke(c)
        PROVE  PNext
    BY <2>1, <2>7, DeletesDelete DEF Plain!Next
  <2>8. ASSUME NEW e \in page, ReEncrypt(e)
        PROVE  PNext
    <3>1. UNCHANGED <<sending, taken, jobs>>
      BY <2>8 DEF ReEncrypt, replica
    <3>. QED  BY <2>1, <2>8, <3>1, ReEncryptedIsSame, NothingSeen
  <2>9. ASSUME NEW s \in Sources, FetchPage(s)
        PROVE  PNext
    BY <2>4, <2>9 DEF FetchPage, replica, database
  <2>10. CASE \/ Report \/ CommandDies \/ AddFallback \/ Swap \/ RemoveFallback
    BY <2>4, <2>10
       DEF Report, CommandDies, AddFallback, Swap, RemoveFallback, replica,
           database
  <2>11. ASSUME NEW x \in BOOLEAN, NEW t \in SUBSET Registry \ {{}},
                StartCommand(x, t)
         PROVE  PNext
    BY <2>4, <2>11 DEF StartCommand, replica, database
  <2>12. CASE UNCHANGED vars
    BY <2>4, <2>12 DEF vars, replica, database
  <2>. HIDE DEF PNext
  <2>. QED
    BY <2>5, <2>6, <2>7, <2>8, <2>9, <2>10, <2>11, <2>12 DEF Next, Run
<1>. QED
  BY <1>1, <1>2, StoreInvariance, PTL
     DEF Spec, ImplementsPlainStore, Plain!Spec
=============================================================================
