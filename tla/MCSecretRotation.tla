-------------------------- MODULE MCSecretRotation --------------------------
(***************************************************************************)
(* Instances of SecretRotation: two tables of two rows, which are read     *)
(* page by page and of which one is copied, a table that the registry      *)
(* leaves out, a queued job and a token.                                   *)
(***************************************************************************)
EXTENDS SecretRotation

CONSTANTS x, y

SomeCells == {<<"projects", 1>>, <<"projects", 2>>, <<"jira", 1>>,
              <<"external_connection_secrets", 1>>,
              <<"external_connection_secrets", 2>>,
              <<"jobs", 1>>, <<"tokens", 1>>}

RowValues == [s \in Sources |-> IF s = "projects" THEN {x, y} ELSE {x}]

\* The first rows are free for an insert behind the cursor.
SecondRowOn == [c \in Cell |->
                    IF c \in {<<"projects", 1>>, <<"jobs", 1>>,
                              <<"external_connection_secrets", 1>>}
                    THEN NoValue ELSE x]

\* One row of a table that is registered, and one of a table that is not.
OneRowEach == {<<"projects", 1>>, <<"jira", 1>>}

AllFull == [c \in Cell |-> x]
=============================================================================
