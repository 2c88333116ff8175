---------------------------- MODULE TimeOracle ----------------------------
(***************************************************************************)
(* The time oracle: a process that takes a lock in ZooKeeper, starts at    *)
(* the limit its predecessor left there, and hands out ranges of           *)
(* timestamps below a limit that a lease thread moves ahead, in ZooKeeper  *)
(* first and in memory after.  Once a second the main thread adjusts the   *)
(* next timestamp to the clock, or back to the limit.                      *)
(*                                                                         *)
(* Processes are numbered in the order in which they get the lock.  A      *)
(* process that lost its session may go on for a while.  The clock of a    *)
(* process only moves ahead; a successor, on another machine, may be       *)
(* behind it.                                                              *)
(***************************************************************************)
EXTENDS Integers

CONSTANTS MaxProc,   \* bound: processes that get the lock
          Thread,    \* threads of the RPC server
          Count,     \* numbers of timestamps a client may ask for
          Clock,     \* values the wall clock may show, in timestamps
          Lease,     \* FLAGS_tera_timeoracle_max_lease_second
          Refresh,   \* FLAGS_tera_timeoracle_refresh_lease_second
          MaxTs      \* bound: timestamps that are counted up to

Proc == 1..MaxProc

ASSUME OracleAssumption == /\ MaxProc \in Nat /\ MaxTs \in Nat
                           /\ Lease \in Nat \ {0} /\ Refresh \in Nat
                           /\ Count \subseteq Nat /\ Clock \subseteq Nat \ {0}

VARIABLES pc,       \* [Proc -> "none" | "locked" | "starting" | "serving" | "dead"]
          holder,   \* the process whose session holds the lock; 0 if none does
          born,     \* the number of processes that got the lock so far
          stored,   \* the timestamp node in ZooKeeper; 0 if there is none
          high,     \* history: the highest value the node ever had
          start_timestamp_, limit_timestamp_,   \* [Proc -> Nat], of Timeoracle
          startup_timestamp_,                   \* [Proc -> Nat], of TimeoracleEntry
          lease,    \* [Proc -> "idle" | "write" | "update" | "quit"], the lease thread; "quit": need_quit_
          next,     \* [Proc -> Nat], its next_limit_timestamp
          run,      \* [Proc -> "idle" | "clock" | "limit"], the main thread in UpdateStartTimestamp
          cur,      \* [Proc -> Nat], the last CurrentTimestamp() of the process
          seen,     \* [Proc -> [start, limit]], what UpdateStartTimestamp has read
          req,      \* [Proc -> set of [thread, from, to]], requests between fetch_add and answer
          granted,  \* history: [Proc -> SUBSET Nat], the timestamps a process answered with
          twice,    \* history: the timestamps answered more than once
          lowered   \* history: some UpdateStartTimestamp moved start_timestamp_ back

entryVars == <<pc, holder, born, startup_timestamp_>>
zkVars == <<stored, high>>
leaseVars == <<lease, next>>
runVars == <<run, cur, seen, lowered>>
answerVars == <<granted, twice>>
vars == <<entryVars, zkVars, start_timestamp_, limit_timestamp_, leaseVars, runVars, req, answerVars>>

Larger(a, b) == IF a < b THEN b ELSE a

Unseen == [start |-> 0, limit |-> 0]

-----------------------------------------------------------------------------
\* TimeoracleEntry

\* LockTimeoracleLock
LockTimeoracleLock ==
    /\ holder = 0 /\ born < MaxProc
    /\ born' = born + 1 /\ holder' = born + 1
    /\ pc' = [pc EXCEPT ![born + 1] = "locked"]
    /\ UNCHANGED <<startup_timestamp_, zkVars, start_timestamp_, limit_timestamp_, leaseVars, runVars, req, answerVars>>

\* Mutant: the stored limit is read and forgotten, the clock decides.
StartFromClock(p) ==
    /\ pc[p] = "locked" /\ holder = p
    /\ \E now \in Clock :
         /\ startup_timestamp_' = [startup_timestamp_ EXCEPT ![p] = now]
         /\ start_timestamp_' = [start_timestamp_ EXCEPT ![p] = now]
         /\ cur' = [cur EXCEPT ![p] = now]
    /\ pc' = [pc EXCEPT ![p] = "starting"]
    /\ UNCHANGED <<holder, born, zkVars, limit_timestamp_, leaseVars, run, seen, lowered, req, answerVars>>

\* ReadTimestamp, CreateTimeoracleNode and the rest of Start up to the lease thread
Start(p) ==
    /\ pc[p] = "locked" /\ holder = p
    /\ \E now \in Clock :
         LET first == Larger(stored, now)
         IN  /\ startup_timestamp_' = [startup_timestamp_ EXCEPT ![p] = first]
             /\ start_timestamp_' = [start_timestamp_ EXCEPT ![p] = first]
             /\ cur' = [cur EXCEPT ![p] = now]
    /\ pc' = [pc EXCEPT ![p] = "starting"]
    /\ UNCHANGED <<holder, born, zkVars, limit_timestamp_, leaseVars, run, seen, lowered, req, answerVars>>

\* StartServer waits while startup_timestamp_ < limit_timestamp_, then opens the service.
StartServer(p) ==
    /\ pc[p] = "starting" /\ ~(startup_timestamp_[p] < limit_timestamp_[p])
    /\ pc' = [pc EXCEPT ![p] = "serving"]
    /\ UNCHANGED <<holder, born, startup_timestamp_, zkVars, start_timestamp_, limit_timestamp_, leaseVars,
                   runVars, req, answerVars>>

\* The process ends, and its memory is gone: a crash, OnSessionTimeout, or need_quit_.
Exit(p) ==
    /\ pc[p] \notin {"none", "dead"}
    /\ pc' = [pc EXCEPT ![p] = "dead"]
    /\ startup_timestamp_' = [startup_timestamp_ EXCEPT ![p] = 0]
    /\ start_timestamp_' = [start_timestamp_ EXCEPT ![p] = 0]
    /\ limit_timestamp_' = [limit_timestamp_ EXCEPT ![p] = 0]
    /\ lease' = [lease EXCEPT ![p] = "quit"] /\ next' = [next EXCEPT ![p] = 0]
    /\ run' = [run EXCEPT ![p] = "idle"] /\ cur' = [cur EXCEPT ![p] = 0] /\ seen' = [seen EXCEPT ![p] = Unseen]
    /\ req' = [req EXCEPT ![p] = {}]
    /\ UNCHANGED <<holder, born, zkVars, lowered, answerVars>>

\* ZooKeeper ends the session, of a process that is dead or cut off, and drops its lock.
SessionExpires ==
    /\ holder # 0
    /\ holder' = 0
    /\ UNCHANGED <<pc, born, startup_timestamp_, zkVars, start_timestamp_, limit_timestamp_, leaseVars, runVars,
                   req, answerVars>>

-----------------------------------------------------------------------------
\* The lease thread

Live(p) == pc[p] \in {"starting", "serving"}

\* Mutant: the new limit is in force before it is in ZooKeeper.
LeaseThreadEager(p) ==
    /\ Live(p) /\ lease[p] = "idle"
    /\ start_timestamp_[p] + Refresh >= limit_timestamp_[p]
    /\ lease' = [lease EXCEPT ![p] = "write"]
    /\ next' = [next EXCEPT ![p] = Larger(limit_timestamp_[p], start_timestamp_[p]) + Lease]
    /\ limit_timestamp_' = [limit_timestamp_ EXCEPT ![p] = next'[p]]
    /\ UNCHANGED <<entryVars, zkVars, start_timestamp_, runVars, req, answerVars>>

\* One turn of LeaseThread, up to the write
LeaseThread(p) ==
    /\ Live(p) /\ lease[p] = "idle"
    /\ start_timestamp_[p] + Refresh >= limit_timestamp_[p]
    /\ lease' = [lease EXCEPT ![p] = "write"]
    /\ next' = [next EXCEPT ![p] = Larger(limit_timestamp_[p], start_timestamp_[p]) + Lease]
    /\ UNCHANGED <<entryVars, zkVars, start_timestamp_, limit_timestamp_, runVars, req, answerVars>>

\* UpdateTimestamp: the node is written by the holder of the session.  A write that fails
\* makes the thread quit; it may have been executed all the same.
UpdateTimestamp(p) ==
    /\ Live(p) /\ lease[p] = "write"
    /\ \/ /\ holder = p
          /\ stored' = next[p] /\ high' = Larger(high, next[p])
          /\ \E result \in {"update", "quit"} : lease' = [lease EXCEPT ![p] = result]
       \/ /\ lease' = [lease EXCEPT ![p] = "quit"]
          /\ UNCHANGED zkVars
    /\ UNCHANGED <<entryVars, next, start_timestamp_, limit_timestamp_, runVars, req, answerVars>>

UpdateLimitTimestamp(p) ==
    /\ Live(p) /\ lease[p] = "update"
    /\ limit_timestamp_' = [limit_timestamp_ EXCEPT ![p] = Larger(@, next[p])]
    /\ lease' = [lease EXCEPT ![p] = "idle"]
    /\ UNCHANGED <<entryVars, zkVars, next, start_timestamp_, runVars, req, answerVars>>

-----------------------------------------------------------------------------
\* The main thread

\* Run calls UpdateStartTimestamp unless need_quit_ is set; the clock of a process never repeats.
Run(p) ==
    /\ pc[p] = "serving" /\ run[p] = "idle" /\ lease[p] # "quit"
    /\ \E now \in Clock : cur[p] < now /\ cur' = [cur EXCEPT ![p] = now]
    /\ run' = [run EXCEPT ![p] = "clock"]
    /\ UNCHANGED <<entryVars, zkVars, start_timestamp_, limit_timestamp_, leaseVars, seen, lowered, req, answerVars>>

\* The clock is ahead, and the first exchange succeeds.
AdjustToClock(p) ==
    /\ run[p] = "clock" /\ start_timestamp_[p] < cur[p]
    /\ start_timestamp_' = [start_timestamp_ EXCEPT ![p] = cur[p]]
    /\ run' = [run EXCEPT ![p] = "idle"]
    /\ UNCHANGED <<entryVars, zkVars, limit_timestamp_, leaseVars, cur, seen, lowered, req, answerVars>>

\* It is not.  If start_timestamp_ is beyond the limit, the second exchange is next.  Only
\* this thread lowers start_timestamp_, so reading it and the limit together loses nothing.
ReadLimit(p) ==
    /\ run[p] = "clock" /\ start_timestamp_[p] >= cur[p]
    /\ IF start_timestamp_[p] > limit_timestamp_[p]
       THEN /\ run' = [run EXCEPT ![p] = "limit"]
            /\ seen' = [seen EXCEPT ![p] = [start |-> start_timestamp_[p], limit |-> limit_timestamp_[p]]]
       ELSE run' = [run EXCEPT ![p] = "idle"] /\ UNCHANGED seen
    /\ UNCHANGED <<entryVars, zkVars, start_timestamp_, limit_timestamp_, leaseVars, cur, lowered, req, answerVars>>

\* Mutant: start_timestamp_ goes to the last timestamp below the limit.
AdjustToLimitMinusOne(p) ==
    /\ run[p] = "limit"
    /\ IF start_timestamp_[p] = seen[p].start
       THEN /\ start_timestamp_' = [start_timestamp_ EXCEPT ![p] = seen[p].limit - 1]
            /\ run' = [run EXCEPT ![p] = "idle"] /\ lowered' = TRUE
       ELSE run' = [run EXCEPT ![p] = "clock"] /\ UNCHANGED <<start_timestamp_, lowered>>
    /\ seen' = [seen EXCEPT ![p] = Unseen]
    /\ UNCHANGED <<entryVars, zkVars, limit_timestamp_, leaseVars, cur, req, answerVars>>

\* The second exchange succeeds if start_timestamp_ is what it was; else the loop starts again.
AdjustToLimit(p) ==
    /\ run[p] = "limit"
    /\ IF start_timestamp_[p] = seen[p].start
       THEN /\ start_timestamp_' = [start_timestamp_ EXCEPT ![p] = seen[p].limit]
            /\ run' = [run EXCEPT ![p] = "idle"] /\ lowered' = TRUE
       ELSE run' = [run EXCEPT ![p] = "clock"] /\ UNCHANGED <<start_timestamp_, lowered>>
    /\ seen' = [seen EXCEPT ![p] = Unseen]
    /\ UNCHANGED <<entryVars, zkVars, limit_timestamp_, leaseVars, cur, req, answerVars>>

-----------------------------------------------------------------------------
\* GetTimestamp: the fetch_add ...
FetchAdd(p, t, n) ==
    /\ pc[p] = "serving" /\ \A r \in req[p] : r.thread # t
    /\ start_timestamp_[p] + n <= MaxTs
    /\ start_timestamp_' = [start_timestamp_ EXCEPT ![p] = @ + n]
    /\ req' = [req EXCEPT ![p] = @ \cup {[thread |-> t, from |-> start_timestamp_[p], to |-> start_timestamp_[p] + n]}]
    /\ UNCHANGED <<entryVars, zkVars, limit_timestamp_, leaseVars, runVars, answerVars>>

\* ... and the test against the limit; 0 means that there is no answer.
Granted(p, r) == r.to < limit_timestamp_[p] /\ r.from # 0

GetTimestamp(p, r) ==
    LET range == IF Granted(p, r) THEN r.from..(r.to - 1) ELSE {}
    IN  /\ req' = [req EXCEPT ![p] = @ \ {r}]
        /\ granted' = [granted EXCEPT ![p] = @ \cup range]
        /\ twice' = twice \cup {x \in range : \E q \in Proc : x \in granted[q]}
        /\ UNCHANGED <<entryVars, zkVars, start_timestamp_, limit_timestamp_, leaseVars, runVars>>

-----------------------------------------------------------------------------
Init ==
    /\ pc = [p \in Proc |-> "none"] /\ holder = 0 /\ born = 0
    /\ stored = 0 /\ high = 0
    /\ start_timestamp_ = [p \in Proc |-> 0] /\ limit_timestamp_ = [p \in Proc |-> 0]
    /\ startup_timestamp_ = [p \in Proc |-> 0]
    /\ lease = [p \in Proc |-> "idle"] /\ next = [p \in Proc |-> 0]
    /\ run = [p \in Proc |-> "idle"] /\ cur = [p \in Proc |-> 0] /\ lowered = FALSE
    /\ seen = [p \in Proc |-> Unseen]
    /\ req = [p \in Proc |-> {}]
    /\ granted = [p \in Proc |-> {}] /\ twice = {}

Next ==
    \/ LockTimeoracleLock \/ SessionExpires
    \/ \E p \in Proc : \/ Start(p) \/ StartServer(p) \/ Exit(p)
                       \/ LeaseThread(p) \/ UpdateTimestamp(p) \/ UpdateLimitTimestamp(p)
                       \/ Run(p) \/ AdjustToClock(p) \/ ReadLimit(p) \/ AdjustToLimit(p)
                       \/ \E t \in Thread, n \in Count : FetchAdd(p, t, n)
                       \/ \E r \in req[p] : GetTimestamp(p, r)

Spec == Init /\ [][Next]_vars

TypeOK ==
    /\ pc \in [Proc -> {"none", "locked", "starting", "serving", "dead"}]
    /\ holder \in 0..MaxProc /\ born \in 0..MaxProc
    /\ stored \in Nat /\ high \in Nat
    /\ start_timestamp_ \in [Proc -> Nat] /\ limit_timestamp_ \in [Proc -> Nat]
    /\ startup_timestamp_ \in [Proc -> Nat]
    /\ lease \in [Proc -> {"idle", "write", "update", "quit"}] /\ next \in [Proc -> Nat]
    /\ run \in [Proc -> {"idle", "clock", "limit"}] /\ cur \in [Proc -> Nat] /\ lowered \in BOOLEAN
    /\ seen \in [Proc -> [start : Nat, limit : Nat]]
    /\ req \in [Proc -> SUBSET [thread : Thread, from : Nat, to : Nat]]
    /\ granted \in [Proc -> SUBSET Nat] /\ twice \subseteq Nat

\* LeaseThread writes a limit to ZooKeeper before GetTimestamp may use it: no process, not
\* even one that has lost its lock, answers with a timestamp at or above the highest limit
\* that was ever stored.
GrantsLeased == \A p \in Proc : \A x \in granted[p] : x < high

\* Start begins at the limit the predecessor stored and fetch_add reserves the range: as long
\* as UpdateStartTimestamp never takes its branch that sets start_timestamp_ back to the
\* limit, no timestamp is answered twice, by one process or by two that overlap.
UniqueUnlessLowered == ~lowered => twice = {}

\* Every successful GetTimestamp answers with timestamps that no earlier call got.
Unique == twice = {}
=============================================================================
