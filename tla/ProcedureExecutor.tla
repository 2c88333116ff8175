-------------------------- MODULE ProcedureExecutor --------------------------
(***************************************************************************)
(* The master runs every long operation as a Procedure: a state machine    *)
(* whose stages are executed one at a time by ProcedureExecutor.  One      *)
(* schedule thread polls the procedures and hands stages to a thread pool; *)
(* a pool thread runs the stage, then decides whether the procedure is     *)
(* finished, gives its ProcedureLimiter slot back and removes it.          *)
(*                                                                         *)
(* Sources: master/procedure_executor.{h,cc}, master/procedure_limiter.h,  *)
(* master/procedure.h, and common/thread_pool.h for the pool.              *)
(*                                                                         *)
(* What a stage does is abstracted to "one of the remaining stages is      *)
(* over"; everything the executor, the wrapper and the limiter do between  *)
(* two accesses to shared state is a separate step.                        *)
(***************************************************************************)
EXTENDS Integers, FiniteSets, FiniteSetsExt

CONSTANTS
    Proc,       \* procedure objects; each is handed to AddProcedure at most once
    ProcId,     \* [Proc -> string]: Procedure::ProcId(), reused by table procedures
    LockType,   \* the limited lock types (kMerge, kSplit, kMove, kLoad, kUnload)
    NoLimit,    \* LockType::kNoLimit
    TypeOf,     \* [Proc -> LockType \cup {NoLimit}]: Procedure::GetLockType()
    InitLimit,  \* [LockType -> Nat]: the master_*_procedure_limit flags
    NewLimits,  \* the values an operator passes to SetLockLimit
    Stages,     \* [Proc -> Nat \ {0}]: stages until the procedure is Done
    ThreadNum,  \* FLAGS_procedure_executor_thread_num
    UIntMod,    \* 2^32, the modulus of the limiter's uint32_t counters
    NoProc      \* "the schedule thread is not inside TrySchedule"

ASSUME ConstantsAssumption ==
    /\ NoLimit \notin LockType
    /\ TypeOf \in [Proc -> LockType \cup {NoLimit}]
    /\ InitLimit \in [LockType -> Nat]
    /\ NewLimits \subseteq Nat
    /\ Stages \in [Proc -> Nat \ {0}]
    /\ UIntMod \in Nat \ {0}
    /\ NoProc \notin Proc

VARIABLES
    running_,      \* ProcedureExecutor::running_
    procedures_,   \* procedures in procedures_ (procedure_indexs_ mirrors it)
    index,         \* [Proc -> Nat]: key in procedures_, 0 before AddProcedure
    proc_index_,   \* the last key handed out
    round,         \* procedures of the current round not visited yet
    visiting,      \* the procedure whose Done() the schedule thread found FALSE
    got_lock_,     \* [Proc -> BOOLEAN]: ProcedureWrapper::got_lock_
    scheduling_,   \* [Proc -> BOOLEAN]: ProcedureWrapper::scheduling_
    remaining,     \* [Proc -> Nat]: stages still to run; Done() iff 0
    \* [Proc -> Nat]: how many tasks of the pool, each a bound
    \* ProcedureWrapper::RunNextStage of the procedure, stand
    queued,        \* in the queue of the pool
    in_stage,      \* inside proc_->RunNextStage()
    ran,           \* after it, with scheduling_ still set
    cleared,       \* after scheduling_.store(false), before Done() is tested
    released,      \* after ReleaseLock, before RemoveProcedure
    limit_,        \* [LockType -> Nat]: ProcedureLimiter::limit_
    in_use_        \* [LockType -> 0..UIntMod-1]: ProcedureLimiter::in_use_

schedVars == <<round, visiting>>
taskVars == <<queued, in_stage, ran, cleared, released>>
limiterVars == <<limit_, in_use_>>
vars == <<running_, procedures_, index, proc_index_, schedVars, got_lock_,
          scheduling_, remaining, taskVars, limiterVars>>

Done(p) == remaining[p] = 0

\* One task of p more, or less, in a phase.
Inc(phase, p) == [phase EXCEPT ![p] = @ + 1]
Dec(phase, p) == [phase EXCEPT ![p] = @ - 1]

TypeOK ==
    /\ running_ \in BOOLEAN
    /\ procedures_ \subseteq Proc
    /\ index \in [Proc -> Nat]
    /\ proc_index_ \in Nat
    /\ round \subseteq Proc
    /\ visiting \in Proc \cup {NoProc}
    /\ got_lock_ \in [Proc -> BOOLEAN]
    /\ scheduling_ \in [Proc -> BOOLEAN]
    /\ remaining \in [Proc -> Nat]
    /\ queued \in [Proc -> Nat]
    /\ in_stage \in [Proc -> Nat]
    /\ ran \in [Proc -> Nat]
    /\ cleared \in [Proc -> Nat]
    /\ released \in [Proc -> Nat]
    /\ limit_ \in [LockType -> Nat]
    /\ in_use_ \in [LockType -> 0..(UIntMod - 1)]

\* The executor after Start(), called by MasterImpl::Init before any request.
Init ==
    /\ running_ = TRUE
    /\ procedures_ = {}
    /\ index = [p \in Proc |-> 0]
    /\ proc_index_ = 0
    /\ round = {}
    /\ visiting = NoProc
    /\ got_lock_ = [p \in Proc |-> FALSE]
    /\ scheduling_ = [p \in Proc |-> FALSE]
    /\ remaining = Stages
    /\ queued = [p \in Proc |-> 0]
    /\ in_stage = [p \in Proc |-> 0]
    /\ ran = [p \in Proc |-> 0]
    /\ cleared = [p \in Proc |-> 0]
    /\ released = [p \in Proc |-> 0]
    /\ limit_ = InitLimit
    /\ in_use_ = [t \in LockType |-> 0]
-----------------------------------------------------------------------------
(***************************************************************************)
(* Requests and operator commands.                                         *)
(***************************************************************************)

\* AddProcedure under mutex_: refused (returns 0, nothing changes) once
\* stopped, or while a procedure with the same id is still in the map.
AddProcedure(p) ==
    /\ index[p] = 0
    /\ running_
    /\ \A q \in procedures_ : ProcId[q] # ProcId[p]
    /\ proc_index_' = proc_index_ + 1
    /\ index' = [index EXCEPT ![p] = proc_index_']
    /\ procedures_' = procedures_ \cup {p}
    /\ UNCHANGED <<running_, schedVars, got_lock_, scheduling_, remaining, taskVars, limiterVars>>

\* Stop(): the schedule thread leaves its loop after the current round; the
\* pool still runs what is queued.
Stop ==
    /\ running_
    /\ running_' = FALSE
    /\ UNCHANGED <<procedures_, index, proc_index_, schedVars, got_lock_, scheduling_,
                   remaining, taskVars, limiterVars>>

\* The "procedure-limit" command of MasterImpl::ProcedureLimitCmdCtrl.
SetLockLimit(t, n) ==
    /\ limit_[t] # n
    /\ limit_' = [limit_ EXCEPT ![t] = n]
    /\ UNCHANGED <<running_, procedures_, index, proc_index_, schedVars, got_lock_,
                   scheduling_, remaining, taskVars, in_use_>>
-----------------------------------------------------------------------------
(***************************************************************************)
(* The schedule thread.                                                    *)
(***************************************************************************)

\* ScheduleProcedures copies procedures_ under mutex_ and starts a round.
StartRound ==
    /\ running_
    /\ round = {} /\ visiting = NoProc
    /\ procedures_ # {}
    /\ round' = procedures_
    /\ UNCHANGED <<running_, procedures_, index, proc_index_, visiting, got_lock_,
                   scheduling_, remaining, taskVars, limiterVars>>

\* The round visits procedures in the order of their keys.
NextOfRound(p) == p \in round /\ \A q \in round : index[p] <= index[q]

\* ProcedureLimiter::GetLock
MayGetLock(t) == t # NoLimit => in_use_[t] < limit_[t]

GetLock(t) ==
    IF t = NoLimit THEN in_use_ ELSE [in_use_ EXCEPT ![t] = (@ + 1) % UIntMod]

\* TrySchedule, first half: TryGetLock fails, the round goes on.
VisitNoLock(p) ==
    /\ visiting = NoProc /\ NextOfRound(p)
    /\ ~got_lock_[p] /\ ~MayGetLock(TypeOf[p])
    /\ round' = round \ {p}
    /\ UNCHANGED <<running_, procedures_, index, proc_index_, visiting, got_lock_,
                   scheduling_, remaining, taskVars, limiterVars>>

\* TrySchedule, first half: TryGetLock succeeds and proc_->Done() is read; a
\* procedure that is not done is looked at further by VisitScheduling.
VisitDone(p) ==
    /\ visiting = NoProc /\ NextOfRound(p)
    /\ got_lock_[p] \/ MayGetLock(TypeOf[p])
    /\ in_use_' = IF got_lock_[p] THEN in_use_ ELSE GetLock(TypeOf[p])
    /\ got_lock_' = [got_lock_ EXCEPT ![p] = TRUE]
    /\ round' = round \ {p}
    /\ visiting' = IF Done(p) THEN NoProc ELSE p
    /\ UNCHANGED <<running_, procedures_, index, proc_index_, scheduling_, remaining, taskVars, limit_>>

\* TrySchedule, second half: scheduling_ is read after Done(); if it is clear
\* it is set and RunNextStage is queued on the pool.
VisitScheduling(p) ==
    /\ visiting = p
    /\ visiting' = NoProc
    /\ IF scheduling_[p]
       THEN UNCHANGED <<scheduling_, queued>>
       ELSE /\ scheduling_' = [scheduling_ EXCEPT ![p] = TRUE]
            /\ queued' = Inc(queued, p)
    /\ UNCHANGED <<running_, procedures_, index, proc_index_, round, got_lock_,
                   remaining, in_stage, ran, cleared, released, limiterVars>>
-----------------------------------------------------------------------------
(***************************************************************************)
(* A pool thread executing ProcedureWrapper::RunNextStage.                 *)
(***************************************************************************)

\* Threads of the pool that are executing a task.
Busy == MapThenSumSet(LAMBDA p : in_stage[p] + ran[p] + cleared[p]
                                 + released[p], Proc)

\* Fault: the flag is cleared when the stage starts instead of when it ends.
BeginStageClears(p) ==
    /\ queued[p] > 0
    /\ Busy < ThreadNum
    /\ queued' = Dec(queued, p)
    /\ in_stage' = Inc(in_stage, p)
    /\ scheduling_' = [scheduling_ EXCEPT ![p] = FALSE]
    /\ UNCHANGED <<running_, procedures_, index, proc_index_, schedVars, got_lock_,
                   remaining, ran, cleared, released, limiterVars>>

\* A free pool thread takes the task and enters proc_->RunNextStage().
BeginStage(p) ==
    /\ queued[p] > 0
    /\ Busy < ThreadNum
    /\ queued' = Dec(queued, p)
    /\ in_stage' = Inc(in_stage, p)
    /\ UNCHANGED <<running_, procedures_, index, proc_index_, schedVars, got_lock_,
                   scheduling_, remaining, ran, cleared, released, limiterVars>>

\* The stage returns.  A stage that runs when the procedure is already done
\* leaves it done.
EndStage(p) ==
    /\ in_stage[p] > 0
    /\ remaining' = [remaining EXCEPT ![p] = IF @ = 0 THEN 0 ELSE @ - 1]
    /\ in_stage' = Dec(in_stage, p)
    /\ ran' = Inc(ran, p)
    /\ UNCHANGED <<running_, procedures_, index, proc_index_, schedVars, got_lock_,
                   scheduling_, queued, cleared, released, limiterVars>>

\* Fault: the flag is never cleared.
KeepScheduling(p) ==
    /\ ran[p] > 0
    /\ ran' = Dec(ran, p)
    /\ cleared' = Inc(cleared, p)
    /\ UNCHANGED <<running_, procedures_, index, proc_index_, schedVars, got_lock_,
                   scheduling_, remaining, queued, in_stage, released, limiterVars>>

\* scheduling_.store(false)
ClearScheduling(p) ==
    /\ ran[p] > 0
    /\ scheduling_' = [scheduling_ EXCEPT ![p] = FALSE]
    /\ ran' = Dec(ran, p)
    /\ cleared' = Inc(cleared, p)
    /\ UNCHANGED <<running_, procedures_, index, proc_index_, schedVars, got_lock_,
                   remaining, queued, in_stage, released, limiterVars>>

\* Fault: the counter is taken for a signed integer.
ReleaseLockSigned(t) == IF t = NoLimit THEN in_use_ ELSE [in_use_ EXCEPT ![t] = @ - 1]

\* ProcedureLimiter::ReleaseLock; the counter is a uint32_t.
ReleaseLock(t) ==
    IF t = NoLimit THEN in_use_
    ELSE [in_use_ EXCEPT ![t] = (@ + UIntMod - 1) % UIntMod]

\* Fault: every stage is taken for the last one.
TestNothing(p) ==
    /\ cleared[p] > 0
    /\ cleared' = Dec(cleared, p)
    /\ in_use_' = ReleaseLock(TypeOf[p])
    /\ released' = Inc(released, p)
    /\ UNCHANGED <<running_, procedures_, index, proc_index_, schedVars, got_lock_,
                   scheduling_, remaining, queued, in_stage, ran, limit_>>

\* Done() is read after scheduling_ was cleared: if it holds the limiter slot
\* is released, otherwise the task is over.
TestDone(p) ==
    /\ cleared[p] > 0
    /\ cleared' = Dec(cleared, p)
    /\ IF Done(p)
       THEN in_use_' = ReleaseLock(TypeOf[p]) /\ released' = Inc(released, p)
       ELSE UNCHANGED <<in_use_, released>>
    /\ UNCHANGED <<running_, procedures_, index, proc_index_, schedVars, got_lock_,
                   scheduling_, remaining, queued, in_stage, ran, limit_>>

\* RemoveProcedure(ProcId()) looks the procedure up by its id.
RemoveProcedure(p) ==
    /\ released[p] > 0
    /\ procedures_' = {q \in procedures_ : ProcId[q] # ProcId[p]}
    /\ released' = Dec(released, p)
    /\ UNCHANGED <<running_, index, proc_index_, schedVars, got_lock_, scheduling_,
                   remaining, queued, in_stage, ran, cleared, limiterVars>>
-----------------------------------------------------------------------------
Schedule(p) == VisitNoLock(p) \/ VisitDone(p) \/ VisitScheduling(p)

Work(p) == \/ BeginStage(p) \/ EndStage(p) \/ ClearScheduling(p)
           \/ TestDone(p) \/ RemoveProcedure(p)

Next ==
    \/ \E p \in Proc : AddProcedure(p) \/ Schedule(p) \/ Work(p)
    \/ StartRound
    \/ Stop
    \/ \E t \in LockType, n \in NewLimits : SetLockLimit(t, n)

Spec == Init /\ [][Next]_vars

\* The schedule thread and the pool threads keep running; requests and
\* operator commands come when they come.
Fairness ==
    /\ WF_vars(StartRound)
    /\ \A p \in Proc : WF_vars(Schedule(p)) /\ WF_vars(Work(p))

FairSpec == Spec /\ Fairness
-----------------------------------------------------------------------------
(***************************************************************************)
(* Correctness properties.                                                 *)
(***************************************************************************)

\* No two pool threads are ever inside RunNextStage of the same procedure.
\* The procedures keep their state in plain members and rely on it; it rests
\* on scheduling_ being set by the schedule thread alone and cleared only
\* after the stage has returned, across the copies of old rounds.
StageExclusive == \A p \in Proc : in_stage[p] + ran[p] <= 1

\* A procedure leaves procedures_ only when it is Done: RemoveProcedure, which
\* looks an id up, never takes away a procedure that still has stages to run.
RemovedOnlyWhenDone ==
    [][\A p \in procedures_ \ procedures_' : Done(p)]_vars

\* Unless the executor is stopped, a procedure accepted by AddProcedure is
\* eventually Done and out of procedures_: rounds, limiter and pool never
\* leave it behind.
AddedFinishes ==
    \A p \in Proc : index[p] > 0 ~> (~running_ \/ (Done(p) /\ p \notin procedures_))

\* "A procedure may be scheduled several times until the Procedure is Done":
\* no stage is started for a procedure that is Done.
NoStageAfterDone ==
    [][\A p \in Proc : Done(p) => in_stage'[p] <= in_stage[p]]_vars

\* assert(in_use_[type] > 0) of ReleaseLock: a thread about to release a slot
\* finds the counter positive.
ReleaseFindsSlot ==
    \A p \in Proc : cleared[p] > 0 /\ Done(p) /\ TypeOf[p] # NoLimit
                        => in_use_[TypeOf[p]] > 0
=============================================================================
