---------------------- MODULE ProcedureExecutorProofs ----------------------
(***************************************************************************)
(* TLAPS proofs about ProcedureExecutor, for any set of procedures, any    *)
(* limits, stage counts and pool size.                                     *)
(***************************************************************************)
EXTENDS ProcedureExecutor, TLAPS

\* scheduling_ says exactly whether a task of the procedure is between being
\* queued and clearing the flag, and there is at most one such task.
SchedulingMatchesTask ==
    \A p \in Proc : queued[p] + in_stage[p] + ran[p] = IF scheduling_[p] THEN 1 ELSE 0

\* A thread that released the limiter slot belongs to a finished procedure.
ReleasedIsDone == \A p \in Proc : released[p] > 0 => Done(p)

\* The inductive invariant behind the theorems.
IInv == TypeOK /\ SchedulingMatchesTask /\ ReleasedIsDone

\* Inc and Dec move one counter by one and keep the others.
LEMMA IncType ==
    ASSUME NEW phase \in [Proc -> Nat], NEW p \in Proc
    PROVE  /\ Inc(phase, p) \in [Proc -> Nat]
           /\ \A q \in Proc : Inc(phase, p)[q] = IF q = p THEN phase[q] + 1 ELSE phase[q]
  BY SMT DEF Inc

LEMMA DecType ==
    ASSUME NEW phase \in [Proc -> Nat], NEW p \in Proc, phase[p] > 0
    PROVE  /\ Dec(phase, p) \in [Proc -> Nat]
           /\ \A q \in Proc : Dec(phase, p)[q] = IF q = p THEN phase[q] - 1 ELSE phase[q]
  BY SMT DEF Dec

\* GetLock and ReleaseLock keep the counters uint32_t values.
LEMMA LimiterType ==
    ASSUME TypeOK, NEW t \in LockType \cup {NoLimit}
    PROVE  /\ GetLock(t) \in [LockType -> 0..(UIntMod - 1)]
           /\ ReleaseLock(t) \in [LockType -> 0..(UIntMod - 1)]
<1>1. \A n \in Nat : n % UIntMod \in 0..(UIntMod - 1)
  BY ConstantsAssumption, SMT
<1>2. \A u \in LockType : in_use_[u] + 1 \in Nat /\ in_use_[u] + UIntMod - 1 \in Nat
  BY ConstantsAssumption, SMT DEF TypeOK
<1>. QED  BY <1>1, <1>2, SMT DEF TypeOK, GetLock, ReleaseLock

LEMMA InitIInv == Init => IInv
<1>. SUFFICES ASSUME Init PROVE IInv
  OBVIOUS
<1>1. TypeOK
  BY ConstantsAssumption, SMT DEF Init, TypeOK
<1>2. SchedulingMatchesTask /\ ReleasedIsDone
  BY SMT DEF Init, SchedulingMatchesTask, ReleasedIsDone
<1>. QED  BY <1>1, <1>2 DEF IInv

\* Every step keeps the invariant.  Only VisitScheduling and ClearScheduling
\* touch scheduling_; the former creates the one task the flag stands for, the
\* latter retires it.
LEMMA NextIInv == IInv /\ [Next]_vars => IInv'
<1>. SUFFICES ASSUME IInv, [Next]_vars PROVE IInv'
  OBVIOUS
<1>0. TypeOK /\ SchedulingMatchesTask /\ ReleasedIsDone
  BY DEF IInv
<1>c. \A p \in Proc : TypeOf[p] \in LockType \cup {NoLimit}
  BY ConstantsAssumption
<1>t. /\ queued \in [Proc -> Nat] /\ in_stage \in [Proc -> Nat] /\ ran \in [Proc -> Nat]
      /\ cleared \in [Proc -> Nat] /\ released \in [Proc -> Nat]
  BY <1>0 DEF TypeOK
<1>. USE DEF schedVars, taskVars, limiterVars, Done
<1>1. ASSUME NEW p \in Proc, AddProcedure(p) PROVE IInv'
  BY <1>0, <1>1, SMT DEF AddProcedure, IInv, TypeOK, SchedulingMatchesTask, ReleasedIsDone
<1>2. ASSUME NEW p \in Proc, VisitNoLock(p) PROVE IInv'
  BY <1>0, <1>2, SMT DEF VisitNoLock, IInv, TypeOK, SchedulingMatchesTask, ReleasedIsDone
<1>3. ASSUME NEW p \in Proc, VisitDone(p) PROVE IInv'
  <2>2. in_use_' \in [LockType -> 0..(UIntMod - 1)]
    BY <1>0, <1>3, <1>c, LimiterType DEF VisitDone, TypeOK
  <2>3. got_lock_' \in [Proc -> BOOLEAN] /\ round' \subseteq Proc /\ visiting' \in Proc \cup {NoProc}
    BY <1>0, <1>3 DEF VisitDone, TypeOK
  <2>. QED
    BY <1>0, <1>3, <2>2, <2>3 DEF VisitDone, IInv, TypeOK, SchedulingMatchesTask, ReleasedIsDone
<1>4. ASSUME NEW p \in Proc, VisitScheduling(p) PROVE IInv'
  <2>1. CASE scheduling_[p]
    BY <1>0, <1>4, <2>1, SMT
       DEF VisitScheduling, IInv, TypeOK, SchedulingMatchesTask, ReleasedIsDone
  <2>2. CASE ~scheduling_[p]
    <3>1. scheduling_' \in [Proc -> BOOLEAN] /\ \A q \in Proc : scheduling_'[q] = (q = p \/ scheduling_[q])
      BY <1>0, <1>4, <2>2, Zenon DEF VisitScheduling, TypeOK
    <3>2. queued' \in [Proc -> Nat] /\ \A q \in Proc : queued'[q] = IF q = p THEN queued[q] + 1 ELSE queued[q]
      BY <1>t, <1>4, <2>2, IncType DEF VisitScheduling
    <3>3. TypeOK'
      BY <1>0, <1>4, <3>1, <3>2 DEF VisitScheduling, TypeOK
    <3>4. UNCHANGED <<in_stage, ran, released, remaining>>
      BY <1>4 DEF VisitScheduling
    <3>5. SchedulingMatchesTask'
      <4>. SUFFICES ASSUME NEW q \in Proc
                    PROVE (queued[q] + in_stage[q] + ran[q] = IF scheduling_[q] THEN 1 ELSE 0)'
        BY DEF SchedulingMatchesTask
      <4>1. queued[q] + in_stage[q] + ran[q] = IF scheduling_[q] THEN 1 ELSE 0
        BY <1>0 DEF SchedulingMatchesTask
      <4>2. queued[q] \in Nat /\ in_stage[q] \in Nat /\ ran[q] \in Nat
        BY <1>t
      <4>. QED  BY <4>1, <4>2, <2>2, <3>1, <3>2, <3>4, SMT
    <3>6. ReleasedIsDone'
      BY <1>0, <3>4, SMT DEF ReleasedIsDone
    <3>. QED  BY <3>3, <3>5, <3>6 DEF IInv
  <2>. QED  BY <2>1, <2>2
<1>5. ASSUME NEW p \in Proc, BeginStage(p) PROVE IInv'
  <2>1. /\ queued' \in [Proc -> Nat] /\ in_stage' \in [Proc -> Nat]
        /\ \A q \in Proc : /\ queued'[q] = IF q = p THEN queued[q] - 1 ELSE queued[q]
                           /\ in_stage'[q] = IF q = p THEN in_stage[q] + 1 ELSE in_stage[q]
    <3>1. queued' = Dec(queued, p) /\ queued[p] > 0 /\ in_stage' = Inc(in_stage, p)
      BY <1>5 DEF BeginStage
    <3>2. queued' \in [Proc -> Nat] /\ \A q \in Proc : queued'[q] = IF q = p THEN queued[q] - 1 ELSE queued[q]
      BY <1>t, <3>1, SMT DEF Dec
    <3>3. in_stage' \in [Proc -> Nat] /\ \A q \in Proc : in_stage'[q] = IF q = p THEN in_stage[q] + 1 ELSE in_stage[q]
      BY <1>t, <3>1, SMT DEF Inc
    <3>. QED  BY <3>2, <3>3
  <2>2. TypeOK'
    BY <1>0, <1>5, <2>1 DEF BeginStage, TypeOK
  <2>u. UNCHANGED <<ran, scheduling_, released, remaining>>
    BY <1>5 DEF BeginStage
  <2>3. SchedulingMatchesTask'
    <3>. SUFFICES ASSUME NEW q \in Proc
                  PROVE (queued[q] + in_stage[q] + ran[q] = IF scheduling_[q] THEN 1 ELSE 0)'
      BY DEF SchedulingMatchesTask
    <3>1. queued[q] + in_stage[q] + ran[q] = IF scheduling_[q] THEN 1 ELSE 0
      BY <1>0 DEF SchedulingMatchesTask
    <3>2. queued[q] \in Nat /\ in_stage[q] \in Nat /\ ran[q] \in Nat
      BY <1>t
    <3>. QED  BY <3>1, <3>2, <2>1, <2>u, SMT
  <2>4. ReleasedIsDone'
    BY <1>0, <2>u, SMT DEF ReleasedIsDone
  <2>. QED  BY <2>2, <2>3, <2>4 DEF IInv
<1>6. ASSUME NEW p \in Proc, EndStage(p) PROVE IInv'
  <2>1. /\ in_stage' \in [Proc -> Nat] /\ ran' \in [Proc -> Nat]
        /\ \A q \in Proc : /\ in_stage'[q] = IF q = p THEN in_stage[q] - 1 ELSE in_stage[q]
                           /\ ran'[q] = IF q = p THEN ran[q] + 1 ELSE ran[q]
    <3>1. in_stage' = Dec(in_stage, p) /\ in_stage[p] > 0 /\ ran' = Inc(ran, p)
      BY <1>6 DEF EndStage
    <3>2. in_stage' \in [Proc -> Nat] /\ \A q \in Proc : in_stage'[q] = IF q = p THEN in_stage[q] - 1 ELSE in_stage[q]
      BY <1>t, <3>1, SMT DEF Dec
    <3>3. ran' \in [Proc -> Nat] /\ \A q \in Proc : ran'[q] = IF q = p THEN ran[q] + 1 ELSE ran[q]
      BY <1>t, <3>1, SMT DEF Inc
    <3>. QED  BY <3>2, <3>3
  <2>2. remaining' \in [Proc -> Nat] /\ \A q \in Proc : remaining[q] = 0 => remaining'[q] = 0
    BY <1>0, <1>6, SMT DEF EndStage, TypeOK
  <2>3. TypeOK'
    BY <1>0, <1>6, <2>1, <2>2 DEF EndStage, TypeOK
  <2>u. UNCHANGED <<queued, scheduling_, released>>
    BY <1>6 DEF EndStage
  <2>4. SchedulingMatchesTask'
    <3>. SUFFICES ASSUME NEW q \in Proc
                  PROVE (queued[q] + in_stage[q] + ran[q] = IF scheduling_[q] THEN 1 ELSE 0)'
      BY DEF SchedulingMatchesTask
    <3>1. queued[q] + in_stage[q] + ran[q] = IF scheduling_[q] THEN 1 ELSE 0
      BY <1>0 DEF SchedulingMatchesTask
    <3>2. queued[q] \in Nat /\ in_stage[q] \in Nat /\ ran[q] \in Nat
      BY <1>t
    <3>. QED  BY <3>1, <3>2, <2>1, <2>u, SMT
  <2>5. ReleasedIsDone'
    BY <1>0, <2>u, <2>2, SMT DEF ReleasedIsDone
  <2>. QED  BY <2>3, <2>4, <2>5 DEF IInv
<1>7. ASSUME NEW p \in Proc, ClearScheduling(p) PROVE IInv'
  <2>1. /\ ran' \in [Proc -> Nat] /\ cleared' \in [Proc -> Nat]
        /\ \A q \in Proc : /\ ran'[q] = IF q = p THEN ran[q] - 1 ELSE ran[q]
                           /\ cleared'[q] = IF q = p THEN cleared[q] + 1 ELSE cleared[q]
    <3>1. ran' = Dec(ran, p) /\ ran[p] > 0 /\ cleared' = Inc(cleared, p)
      BY <1>7 DEF ClearScheduling
    <3>2. ran' \in [Proc -> Nat] /\ \A q \in Proc : ran'[q] = IF q = p THEN ran[q] - 1 ELSE ran[q]
      BY <1>t, <3>1, SMT DEF Dec
    <3>3. cleared' \in [Proc -> Nat] /\ \A q \in Proc : cleared'[q] = IF q = p THEN cleared[q] + 1 ELSE cleared[q]
      BY <1>t, <3>1, SMT DEF Inc
    <3>. QED  BY <3>2, <3>3
  <2>2. scheduling_' \in [Proc -> BOOLEAN] /\ \A q \in Proc : scheduling_'[q] = (q # p /\ scheduling_[q])
    BY <1>0, <1>7, Zenon DEF ClearScheduling, TypeOK
  <2>3. TypeOK'
    BY <1>0, <1>7, <2>1, <2>2 DEF ClearScheduling, TypeOK
  <2>u. UNCHANGED <<queued, in_stage, released, remaining>> /\ ran[p] > 0
    BY <1>7 DEF ClearScheduling
  <2>4. SchedulingMatchesTask'
    <3>. SUFFICES ASSUME NEW q \in Proc
                  PROVE (queued[q] + in_stage[q] + ran[q] = IF scheduling_[q] THEN 1 ELSE 0)'
      BY DEF SchedulingMatchesTask
    <3>1. queued[q] + in_stage[q] + ran[q] = IF scheduling_[q] THEN 1 ELSE 0
      BY <1>0 DEF SchedulingMatchesTask
    <3>2. queued[q] \in Nat /\ in_stage[q] \in Nat /\ ran[q] \in Nat
      BY <1>t
    <3>. QED  BY <3>1, <3>2, <2>1, <2>2, <2>u, SMT
  <2>5. ReleasedIsDone'
    BY <1>0, <2>u, SMT DEF ReleasedIsDone
  <2>. QED  BY <2>3, <2>4, <2>5 DEF IInv
<1>8. ASSUME NEW p \in Proc, TestDone(p) PROVE IInv'
  <2>1. cleared' \in [Proc -> Nat]
    BY <1>t, <1>8, DecType DEF TestDone
  <2>2. /\ released' \in [Proc -> Nat]
        /\ \A q \in Proc : released'[q] > 0 => released[q] > 0 \/ (q = p /\ Done(p))
    <3>1. CASE Done(p)
      BY <1>t, <1>8, <3>1, IncType DEF TestDone
    <3>2. CASE ~Done(p)
      BY <1>t, <1>8, <3>2 DEF TestDone
    <3>. QED  BY <3>1, <3>2
  <2>3. in_use_' \in [LockType -> 0..(UIntMod - 1)]
    BY <1>0, <1>8, <1>c, LimiterType DEF TestDone, TypeOK
  <2>4. TypeOK'
    BY <1>0, <1>8, <2>1, <2>2, <2>3 DEF TestDone, TypeOK
  <2>5. SchedulingMatchesTask' /\ ReleasedIsDone'
    BY <1>0, <1>8, <2>2 DEF TestDone, SchedulingMatchesTask, ReleasedIsDone
  <2>. QED  BY <2>4, <2>5 DEF IInv
<1>9. ASSUME NEW p \in Proc, RemoveProcedure(p) PROVE IInv'
  <2>1. /\ released' \in [Proc -> Nat]
        /\ \A q \in Proc : released'[q] > 0 => released[q] > 0
    <3>1. /\ released' \in [Proc -> Nat]
          /\ \A q \in Proc : released'[q] = IF q = p THEN released[q] - 1 ELSE released[q]
      BY <1>t, <1>9, DecType DEF RemoveProcedure
    <3>. QED  BY <1>t, <3>1, SMT
  <2>2. procedures_' \subseteq Proc
    BY <1>0, <1>9 DEF RemoveProcedure, TypeOK
  <2>3. TypeOK'
    BY <1>0, <1>9, <2>1, <2>2 DEF RemoveProcedure, TypeOK
  <2>4. SchedulingMatchesTask' /\ ReleasedIsDone'
    BY <1>0, <1>9, <2>1 DEF RemoveProcedure, SchedulingMatchesTask, ReleasedIsDone
  <2>. QED  BY <2>3, <2>4 DEF IInv
<1>10. CASE StartRound
  BY <1>0, <1>10, Zenon DEF StartRound, IInv, TypeOK, SchedulingMatchesTask, ReleasedIsDone
<1>11. CASE Stop
  BY <1>0, <1>11, Zenon DEF Stop, IInv, TypeOK, SchedulingMatchesTask, ReleasedIsDone
<1>12. ASSUME NEW t \in LockType, NEW n \in NewLimits, SetLockLimit(t, n) PROVE IInv'
  BY <1>0, <1>12, ConstantsAssumption, SMT DEF SetLockLimit, IInv, TypeOK, SchedulingMatchesTask, ReleasedIsDone
<1>13. CASE UNCHANGED vars
  BY <1>0, <1>13 DEF vars, IInv, TypeOK, SchedulingMatchesTask, ReleasedIsDone
<1>. QED
  BY <1>1, <1>2, <1>3, <1>4, <1>5, <1>6, <1>7, <1>8, <1>9, <1>10, <1>11, <1>12, <1>13
     DEF Next, Schedule, Work

\* The variables of the executor, the wrappers and the limiter keep their
\* types; in particular in_use_ stays a uint32_t, wrapped or not.
THEOREM TypeCorrect == Spec => []TypeOK
<1>1. IInv => TypeOK
  BY DEF IInv
<1>. QED  BY InitIInv, NextIInv, <1>1, PTL DEF Spec

\* RunNextStage of one procedure never runs on two pool threads at once, for
\* any number of procedures, stages and pool threads, shared ids included.
THEOREM StagesNeverOverlap == Spec => []StageExclusive
<1>1. IInv => StageExclusive
  <2>. SUFFICES ASSUME IInv, NEW p \in Proc PROVE in_stage[p] + ran[p] <= 1
    BY DEF StageExclusive
  <2>1. queued[p] \in Nat /\ in_stage[p] \in Nat /\ ran[p] \in Nat
    BY DEF IInv, TypeOK
  <2>2. queued[p] + in_stage[p] + ran[p] <= 1
    BY SMT DEF IInv, SchedulingMatchesTask
  <2>. QED  BY <2>1, <2>2, SMT
<1>. QED  BY InitIInv, NextIInv, <1>1, PTL DEF Spec

\* When no two procedures share an id, RemoveProcedure takes away finished
\* procedures only, even though two threads may both believe they finish one.
THEOREM RemovalsAreFinal ==
    ASSUME \A p, q \in Proc : ProcId[p] = ProcId[q] => p = q
    PROVE  Spec => RemovedOnlyWhenDone
<1>1. IInv /\ [Next]_vars => [\A p \in procedures_ \ procedures_' : Done(p)]_vars
  <2>. SUFFICES ASSUME IInv, Next, NEW p \in procedures_, p \notin procedures_' PROVE Done(p)
    BY DEF vars
  <2>1. PICK q \in Proc : RemoveProcedure(q)
    BY DEF Next, Schedule, Work, AddProcedure, VisitNoLock, VisitDone, VisitScheduling, BeginStage,
           EndStage, ClearScheduling, TestDone, StartRound, Stop, SetLockLimit
  <2>2. p \in Proc /\ ProcId[p] = ProcId[q]
    BY <2>1 DEF RemoveProcedure, IInv, TypeOK
  <2>3. Done(q)
    BY <2>1 DEF RemoveProcedure, IInv, ReleasedIsDone
  <2>. QED  BY <2>1, <2>2, <2>3
<1>. QED  BY InitIInv, NextIInv, <1>1, PTL DEF Spec, RemovedOnlyWhenDone
=============================================================================
