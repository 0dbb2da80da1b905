--------------------------- MODULE DerivedQueries ---------------------------
(***************************************************************************)
(* What composed queries promise whoever reads their rows, with messages,  *)
(* worker loops, polls, claims and cache keys left out: a join is answered *)
(* in one step, by its SQL over the files its references name, be it from  *)
(* a run of its own or with the file of an earlier join that was asked the *)
(* same.  Answers are never exchanged; a failure may follow one, but no    *)
(* answer a failure.                                                       *)
(***************************************************************************)
CONSTANTS Legs, Joins, Places, Sqls, NoFile

VARIABLES
    phase,      \* of each query: none, open, ready or failed
    refs, sql,  \* what a join asks for
    file,       \* the results file a query names
    answer      \* what the file of a join was computed from: SQL and files

Queries == Legs \cup Joins

NoAnswer == <<>>

Init ==
    /\ phase = [q \in Queries |-> "none"]
    /\ refs \in [Joins -> [Places -> Queries]]
    /\ sql \in [Joins -> Sqls]
    /\ file = [q \in Queries |-> NoFile]
    /\ answer = [q \in Joins |-> NoAnswer]

Move(q, from, to) ==
    /\ phase[q] = from
    /\ phase' = [phase EXCEPT ![q] = to]

Names(q, f) == file' = [file EXCEPT ![q] = f]

SubmitLeg(q) ==
    /\ Move(q, "none", "open")
    /\ UNCHANGED <<refs, sql, file, answer>>

\* A join only refers to queries that exist.
SubmitJoin(q) ==
    /\ Move(q, "none", "open")
    /\ \E r \in [Places -> {s \in Queries : phase[s] # "none"}] :
          refs' = [refs EXCEPT ![q] = r]
    /\ UNCHANGED <<sql, file, answer>>

AnswerLeg(q) ==
    /\ Move(q, "open", "ready")
    /\ Names(q, q)
    /\ UNCHANGED <<refs, sql, answer>>

ReuseLeg(q) ==
    /\ Move(q, "none", "ready")
    /\ \E l \in Legs : file[l] # NoFile /\ Names(q, file[l])
    /\ UNCHANGED <<refs, sql, answer>>

AnswerJoin(q) ==
    /\ Move(q, "open", "ready")
    /\ \A t \in Places : file[refs[q][t]] # NoFile
    /\ answer' = [answer EXCEPT ![q] = <<sql[q], [t \in Places |-> file[refs[q][t]]]>>]
    /\ \/ Names(q, q)
       \/ \E r \in Joins : answer[r] = answer'[q] /\ Names(q, file[r])
    /\ UNCHANGED <<refs, sql>>

\* An error, a refusal, an expiry or a cancellation, of an answered query too.
Fail(q) ==
    /\ phase[q] # "none"
    /\ phase' = [phase EXCEPT ![q] = "failed"]
    /\ UNCHANGED <<refs, sql, file, answer>>

Next ==
    \/ \E q \in Legs : SubmitLeg(q) \/ AnswerLeg(q) \/ ReuseLeg(q)
    \/ \E q \in Joins : SubmitJoin(q) \/ AnswerJoin(q)
    \/ \E q \in Queries : Fail(q)

Spec == Init /\ [][Next]_<<phase, refs, sql, file, answer>>
=============================================================================
