----------------------------- MODULE PlainStore -----------------------------
(***************************************************************************)
(* What a rotation of the secret promises to the users of an instance:     *)
(* that they see nothing of it.  Replicas write, read and delete values,   *)
(* queue and run jobs and are restarted, as if nothing were encrypted and  *)
(* no command ran.                                                         *)
(***************************************************************************)
CONSTANTS Replicas, Tables, Cell, Values, Initially, NoValue

VARIABLES
    content,  \* what each cell holds: a value, or nothing
    writing,  \* the write of each replica: where, what, and how
    working,  \* the job of each replica, and its payload
    jobs      \* the state of each job

None == <<>>

IsJob(c) == c[1] = "jobs"

Init ==
    /\ content = [c \in Cell |-> IF Initially[c] = NoValue \/ IsJob(c)
                                 THEN None ELSE <<Initially[c]>>]
    /\ writing = [r \in Replicas |-> None]
    /\ working = [r \in Replicas |-> None]
    /\ jobs = [i \in {c[2] : c \in {d \in Cell : IsJob(d)}} |-> "free"]

Begin(r, c, v, mode) ==
    /\ writing[r] = None
    /\ writing' = [writing EXCEPT ![r] = <<c, v, mode>>]
    /\ UNCHANGED <<content, working, jobs>>

Write(r, c) ==
    \E v \in Values[c[1]] : Begin(r, c, v, IF IsJob(c) THEN "insert" ELSE "upsert")

Copy(r, c, d) ==
    /\ c[1] \in Tables /\ c[1] = d[1]
    /\ content[c] # None /\ content[d] = None
    /\ Begin(r, d, content[c][1], "insert")

\* Of two inserts of one key the second has no effect.
Land(r) ==
    /\ writing[r] # None
    /\ LET c == writing[r][1]
           written == writing[r][3] = "upsert" \/ content[c] = None
       IN  /\ content' = IF written THEN [content EXCEPT ![c] = <<writing[r][2]>>]
                                    ELSE content
           /\ jobs' = IF written /\ IsJob(c) THEN [jobs EXCEPT ![c[2]] = "queued"]
                                             ELSE jobs
    /\ writing' = [writing EXCEPT ![r] = None]
    /\ UNCHANGED working

\* A row is deleted, or a token revoked.
Delete(c) ==
    /\ ~IsJob(c)
    /\ content' = [content EXCEPT ![c] = None]
    /\ UNCHANGED <<writing, working, jobs>>

GetJob(r, c) ==
    /\ IsJob(c) /\ jobs[c[2]] = "queued"
    /\ working[r] = None
    /\ working' = [working EXCEPT ![r] = <<c[2], content[c][1]>>]
    /\ jobs' = [jobs EXCEPT ![c[2]] = "locked"]
    /\ UNCHANGED <<content, writing>>

JobEnds(r) ==
    /\ working[r] # None
    /\ \/ /\ jobs' = [jobs EXCEPT ![working[r][1]] = "free"]
          /\ content' = [content EXCEPT ![<<"jobs", working[r][1]>>] = None]
       \/ /\ jobs' = [jobs EXCEPT ![working[r][1]] = "spent"]
          /\ UNCHANGED content
    /\ working' = [working EXCEPT ![r] = None]
    /\ UNCHANGED writing

\* What the replica has under way is lost.
Restart(r) ==
    /\ writing' = [writing EXCEPT ![r] = None]
    /\ working' = [working EXCEPT ![r] = None]
    /\ \/ UNCHANGED jobs
       \/ /\ working[r] # None
          /\ jobs' = [jobs EXCEPT ![working[r][1]] = "spent"]
    /\ UNCHANGED content

Next ==
    \/ \E r \in Replicas :
          \/ \E c \in Cell : Write(r, c) \/ GetJob(r, c)
          \/ \E c, d \in Cell : Copy(r, c, d)
          \/ Land(r) \/ JobEnds(r) \/ Restart(r)
    \/ \E c \in Cell : Delete(c)

Spec == Init /\ [][Next]_<<content, writing, working, jobs>>
=============================================================================
