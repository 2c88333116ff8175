------------------------ MODULE MCProcedureExecutor ------------------------
(***************************************************************************)
(* Small instances of ProcedureExecutor for TLC.                           *)
(***************************************************************************)
EXTENDS ProcedureExecutor, TLC

CONSTANTS p1, p2, kLoad

\* Two procedures with their own ids (the tablet procedures, whose ids end in
\* a timestamp) and two that share one (EnableTable:t asked for twice).
UniqueIds == (p1 :> "LoadTablet:a:1") @@ (p2 :> "LoadTablet:b:2")
SharedIds == (p1 :> "EnableTable:t") @@ (p2 :> "EnableTable:t")

AllLoad == [p \in Proc |-> kLoad]
AllNoLimit == [p \in Proc |-> NoLimit]

LimitOne == [t \in LockType |-> 1]
TwoStages == [p \in Proc |-> 2]

=============================================================================
