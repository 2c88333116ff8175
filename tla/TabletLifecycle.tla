-------------------------- MODULE TabletLifecycle --------------------------
(***************************************************************************)
(* The life of tablets under the master: the Load, Unload and Move         *)
(* procedures with their RPC and meta-table callbacks, the table of tablet *)
(* nodes with its refresh from ZooKeeper, the reconnect timer, kicking and *)
(* safe mode, over the servers of TabletServer.                            *)
(*                                                                         *)
(* One action is one call of RunNextStage (event generation and handler),  *)
(* one callback, or one locked section of the refresh.  These run on       *)
(* different threads of the master and interleave freely; an action is     *)
(* split where the code reads shared state and acts on it later.           *)
(***************************************************************************)
EXTENDS TabletServer, TabletState, Integers

CONSTANTS MetaTablet,   \* the subset of Tablet that belongs to the meta table
          RetryTimes,   \* FLAGS_tera_master_impl_retry_times
          MaxTriedTs,   \* FLAGS_tablet_load_max_tried_ts
          SlowPeriod,   \* slow answers that count as one failed try (10 in the code)
          MaxLoad,      \* FLAGS_tera_master_max_load_concurrency
          MaxUnload,    \* FLAGS_tera_master_max_unload_concurrency
          MayBeUnsafe,  \* whether the live-tablet ratio may be too low, or a kick mark refused
          MaxCommands   \* bound: move and kick commands of operators and the load balancer

ASSUME LifecycleAssumption == /\ MetaTablet \subseteq Tablet
                              /\ {RetryTimes, MaxCommands} \subseteq Nat
                              /\ {MaxTriedTs, SlowPeriod, MaxLoad, MaxUnload} \subseteq Nat \ {0}
                              /\ MayBeUnsafe \in BOOLEAN

VARIABLES status,        \* [Tablet -> TabletStatus]
          node_,         \* [Tablet -> session], the TabletNode a tablet is bound to
          load_fail_cnt_,
          in_transition_,
          lp,            \* [Tablet -> LoadProc], LoadTabletProcedure
          un,            \* [Tablet -> UnloadProc], UnloadTabletProcedure
          mv,            \* [Tablet -> MoveProc], MoveTabletProcedure
          metaw,         \* writes to the meta table under way
          meta_addr,     \* [Tablet -> Addr], the address in the meta table
          aborted,       \* the CHECK that ended the master, or "no"
          owed,          \* [Tablet -> set of sessions]: history, who was given the tablet and may have it
          state_, onload_count_, unloading_count_,    \* TabletNode, by session; no counts while it is offline
          young,         \* sessions whose TabletNode was created less than the timeout ago
          tabletnode_list_,        \* [Addr -> session]
          reconnecting_ts_list_,   \* set of addresses
          timer,         \* [Addr -> [dead, tablets]], the pending MoveTabletOnDeadTabletNode
          refresh,       \* RefreshTabletNodeList: its stage and the addresses to delete and add
          safemode,
          commands       \* commands used up

procVars == <<lp, un, mv>>
tabletVars == <<status, node_, load_fail_cnt_, in_transition_>>
metaVars == <<metaw, meta_addr>>
nodeVars == <<state_, onload_count_, unloading_count_, young>>
listVars == <<tabletnode_list_, reconnecting_ts_list_, timer, refresh, safemode>>
vars == <<serverVars, tabletVars, procVars, metaVars, aborted, owed, nodeVars, listVars, commands>>

LoadEvents == {"none", "kTsOffline", "kTsRestart", "kTsDelayOffline", "kUpdateMeta", "kLoadTablet",
               "kTsLoadBusy", "kWaitRpcResponse", "kTsLoadSucc", "kTsLoadFail", "kEofEvent"}

\* sched: TabletNodeOfflineHandler waits for a node.
LoadProc == [on : BOOLEAN, dest : Session \cup {NoNode}, sched : BOOLEAN, dispatching : BOOLEAN,
             retrys : 0..(RetryTimes + 1), slow : 0..(SlowPeriod - 1), meta_done : BOOLEAN,
             last : LoadEvents]
UnloadProc == [on : BOOLEAN, dispatching : BOOLEAN, retrys : 0..(RetryTimes + 1), kick_ts_succ : BOOLEAN]
MoveProc == [phase : {"none", "kUnLoadTablet", "kLoadTablet", "kEofPhase"}, dest : Session \cup {NoNode},
             unload_proc : BOOLEAN, load_proc : BOOLEAN]

NoLoad == [on |-> FALSE, dest |-> NoNode, sched |-> FALSE, dispatching |-> FALSE, retrys |-> 0, slow |-> 0,
           meta_done |-> FALSE, last |-> "none"]
NoUnload == [on |-> FALSE, dispatching |-> FALSE, retrys |-> 0, kick_ts_succ |-> TRUE]
NoMove == [phase |-> "none", dest |-> NoNode, unload_proc |-> FALSE, load_proc |-> FALSE]

NoTimer == [dead |-> NoNode, tablets |-> {}]
Idle == [pc |-> "idle", del |-> {}, add |-> {}, at |-> NoNode]

NodeDown(s) == state_[s] = "kOffline"

Transit(t, event) == status' = [status EXCEPT ![t] = TabletPost(@, event)]

Set(f, t, v) == [f EXCEPT ![t] = v]

Inc(n) == IF n > RetryTimes THEN n ELSE n + 1

-----------------------------------------------------------------------------
\* LoadTabletProcedure

StartLoad(dest) == [NoLoad EXCEPT !.on = TRUE, !.dest = dest]

GenerateTsDownEvent(t) ==
    LET d == lp[t].dest
    IN  CASE t \in MetaTablet -> "kTsOffline"
          [] t \notin MetaTablet /\ tabletnode_list_[AddrOf(d)] # NoNode -> "kTsRestart"
          [] t \notin MetaTablet /\ tabletnode_list_[AddrOf(d)] = NoNode ->
                IF d \in young THEN "kTsDelayOffline" ELSE "kTsOffline"

GenerateTabletOfflineEvent(t) ==
    LET d == lp[t].dest
    IN  IF d = NoNode THEN "kTsOffline"
        ELSE IF NodeDown(d) THEN GenerateTsDownEvent(t)
        ELSE IF t \in MetaTablet THEN "kLoadTablet"
        ELSE IF ~lp[t].meta_done THEN "kUpdateMeta"
        ELSE IF onload_count_[d] < MaxLoad THEN "kLoadTablet" ELSE "kTsLoadBusy"

GenerateTabletOnLoadEvent(t) ==
    IF lp[t].retrys > RetryTimes THEN "kTsLoadFail"
    ELSE IF NodeDown(lp[t].dest) THEN GenerateTsDownEvent(t)
    ELSE IF lp[t].dispatching THEN "kWaitRpcResponse" ELSE "kTsLoadSucc"

LoadEvent(t) ==
    CASE status[t] \in {"kTabletOffline", "kTabletDelayOffline"} -> GenerateTabletOfflineEvent(t)
      [] status[t] = "kTabletLoading" -> GenerateTabletOnLoadEvent(t)
      [] OTHER -> "kEofEvent"

IsNewEvent(t, event) == lp[t].last # event \/ event \in {"kTsRestart", "kTsOffline"}

\* RunNextStage: the event is due and new; the handler continues.
LoadStage(t, event) == /\ lp[t].on /\ ~lp[t].sched
                       /\ LoadEvent(t) = event /\ IsNewEvent(t, event)

\* The first part of TabletNodeOfflineHandler, before it waits for a node
TabletNodeOfflineHandler(t) ==
    /\ LoadStage(t, "kTsOffline")
    /\ Transit(t, "kTsOffline")
    /\ lp' = [lp EXCEPT ![t].last = "kTsOffline", ![t].dispatching = FALSE, ![t].sched = TRUE]
    /\ UNCHANGED <<serverVars, node_, load_fail_cnt_, in_transition_, un, mv, metaVars, aborted, owed,
                   nodeVars, listVars, commands>>

\* ScheduleTabletNodeOrWait picks any ready node; the rest of TabletNodeOfflineHandler
ScheduleTabletNode(t) ==
    /\ lp[t].sched
    /\ \E a \in Addr :
         LET s == tabletnode_list_[a] IN
         /\ s # NoNode /\ state_[s] = "kReady"
         /\ node_' = Set(node_, t, s)
         /\ lp' = Set(lp, t, [lp[t] EXCEPT !.sched = FALSE, !.dest = s, !.retrys = 0, !.slow = 0,
                                           !.meta_done = FALSE])
    /\ UNCHANGED <<serverVars, status, load_fail_cnt_, in_transition_, un, mv, metaVars, aborted, owed,
                   nodeVars, listVars, commands>>

TabletNodeRestartHandler(t) ==
    LET s == tabletnode_list_[AddrOf(lp[t].dest)] IN
    /\ LoadStage(t, "kTsRestart")
    /\ Transit(t, "kTsRestart")
    /\ node_' = Set(node_, t, s)
    /\ lp' = [lp EXCEPT ![t].last = "kTsRestart", ![t].dispatching = FALSE, ![t].dest = s]
    /\ UNCHANGED <<serverVars, load_fail_cnt_, in_transition_, un, mv, metaVars, aborted, owed,
                   nodeVars, listVars, commands>>

TabletPendOfflineHandler(t) ==
    /\ LoadStage(t, "kTsDelayOffline")
    /\ Transit(t, "kTsDelayOffline")
    /\ lp' = [lp EXCEPT ![t].last = "kTsDelayOffline"]
    /\ UNCHANGED <<serverVars, node_, load_fail_cnt_, in_transition_, un, mv, metaVars, aborted, owed,
                   nodeVars, listVars, commands>>

UpdateMetaHandler(t) ==
    /\ LoadStage(t, "kUpdateMeta")
    /\ metaw' = metaw \cup {[t |-> t, a |-> AddrOf(node_[t]), live |-> TRUE]}
    /\ lp' = [lp EXCEPT ![t].last = "kUpdateMeta"]
    /\ UNCHANGED <<serverVars, tabletVars, un, mv, meta_addr, aborted, owed, nodeVars, listVars,
                   commands>>

\* TryLoad (not for the meta table), LoadTabletHandler and LoadTabletAsync
LoadTabletHandler(t) ==
    LET d == lp[t].dest IN
    /\ LoadStage(t, "kLoadTablet")
    /\ onload_count_' = IF t \in MetaTablet THEN onload_count_ ELSE [onload_count_ EXCEPT ![d] = @ + 1]
    /\ Transit(t, "kLoadTablet")
    /\ lp' = [lp EXCEPT ![t].last = "kLoadTablet", ![t].dispatching = TRUE]
    /\ rpc' = rpc \cup {Request("load", t, d)}
    /\ owed' = [owed EXCEPT ![t] = @ \cup {d}]
    /\ UNCHANGED <<up, sid, zk, born, io, kick, faults, node_, load_fail_cnt_, in_transition_, un, mv,
                   metaVars, aborted, state_, unloading_count_, young, listVars, commands>>

\* TabletNodeBusyHandler and WaitRpcResponseHandler only record the event.
LoadWaits(t) ==
    /\ \E event \in {"kTsLoadBusy", "kWaitRpcResponse"} :
         LoadStage(t, event) /\ lp' = [lp EXCEPT ![t].last = event]
    /\ UNCHANGED <<serverVars, tabletVars, un, mv, metaVars, aborted, owed, nodeVars, listVars, commands>>

\* Mutants: the count is not given back; it is given back without the test for zero.
FinishLoadForgets(d) == onload_count_' = [onload_count_ EXCEPT ![d] = @]

FinishLoadUnguarded(d) == onload_count_' = [onload_count_ EXCEPT ![d] = @ - 1]

\* TabletNode::FinishLoad, which TabletNodeLoadSuccHandler and ...FailHandler call for the
\* meta table too
FinishLoad(d) == onload_count_' = [onload_count_ EXCEPT ![d] = IF @ > 0 THEN @ - 1 ELSE @]

TabletNodeLoadSuccHandler(t) ==
    /\ LoadStage(t, "kTsLoadSucc")
    /\ Transit(t, "kTsLoadSucc")
    /\ FinishLoad(lp[t].dest)
    /\ load_fail_cnt_' = [load_fail_cnt_ EXCEPT ![t] = 0]
    /\ lp' = [lp EXCEPT ![t].last = "kTsLoadSucc"]
    /\ UNCHANGED <<serverVars, node_, in_transition_, un, mv, metaVars, aborted, owed, state_,
                   unloading_count_, young, listVars, commands>>

TabletNodeLoadFailHandler(t) ==
    /\ LoadStage(t, "kTsLoadFail")
    /\ Transit(t, "kTsLoadFail")
    /\ FinishLoad(lp[t].dest)
    /\ load_fail_cnt_' = [load_fail_cnt_ EXCEPT ![t] = IF @ < MaxTriedTs THEN @ + 1 ELSE @]
    /\ lp' = [lp EXCEPT ![t].last = "kTsLoadFail"]
    /\ UNCHANGED <<serverVars, node_, in_transition_, un, mv, metaVars, aborted, owed, state_,
                   unloading_count_, young, listVars, commands>>

\* The requests of a procedure of t that ends: the server keeps what it has, an answer
\* finds the weak_ptr expired.
Forget(kind, t) ==
    LET mine == {r \in rpc : r.kind = kind /\ r.t = t}
    IN  (rpc \ mine) \cup {[r EXCEPT !.live = FALSE] : r \in {r \in mine : r.stage \notin {"reply", "retry"}}}

\* The MoveTabletProcedure constructor
StartMove(st, dest) ==
    [NoMove EXCEPT !.dest = dest,
                   !.phase = CASE st \in {"kTabletReady", "kTabletUnloadFail"} -> "kUnLoadTablet"
                               [] st \in {"kTabletOffline", "kTabletLoadFail"} -> "kLoadTablet"
                               [] OTHER -> "kEofPhase"]

\* EOFHandler: a failed load is handed to a Move that unloads first, while tries remain;
\* the Move inherits the transition lock.  A Load takes several passes of the executor, so
\* the Move that started it has had its last one.
LoadEOFHandler(t) ==
    /\ LoadStage(t, "kEofEvent") /\ mv[t].phase = "none"
    /\ IF status[t] # "kTabletReady" /\ load_fail_cnt_[t] < MaxTriedTs
       THEN /\ status' = Set(status, t, "kTabletReady")
            /\ mv' = Set(mv, t, StartMove("kTabletReady", NoNode))
            /\ UNCHANGED <<in_transition_, owed>>
       ELSE /\ in_transition_' = Set(in_transition_, t, FALSE)
            /\ owed' = IF status[t] = "kTabletReady" THEN owed ELSE Set(owed, t, {})
            /\ UNCHANGED <<status, mv>>
    /\ lp' = Set(lp, t, NoLoad)
    /\ rpc' = Forget("load", t)
    /\ metaw' = {IF w.t = t THEN [w EXCEPT !.live = FALSE] ELSE w : w \in metaw}
    /\ UNCHANGED <<up, sid, zk, born, io, kick, faults, node_, load_fail_cnt_, un, meta_addr,
                   aborted, nodeVars, listVars, commands>>

\* Mutant: the completion is not recorded.
UpdateMetaDoneForgets(w) ==
    /\ metaw' = metaw \ {w}
    /\ meta_addr' = Set(meta_addr, w.t, w.a)
    /\ UNCHANGED <<serverVars, tabletVars, procVars, aborted, owed, nodeVars, listVars, commands>>

\* The meta table took the record; UpdateMetaDone is called on a raw pointer to the procedure.
UpdateMetaDone(w) ==
    /\ metaw' = metaw \ {w}
    /\ meta_addr' = Set(meta_addr, w.t, w.a)
    /\ lp' = IF w.live THEN [lp EXCEPT ![w.t].meta_done = TRUE] ELSE lp
    /\ UNCHANGED <<serverVars, tabletVars, un, mv, aborted, owed, nodeVars, listVars, commands>>

\* LoadTabletCallback, the first read of the tablet's status
LoadTabletCallback(r) ==
    /\ r.kind = "load" /\ r.stage = "reply"
    /\ rpc' = Advance(r, IF status[r.t] = "kTabletLoading" THEN "checked" ELSE "discard")
    /\ UNCHANGED <<up, sid, zk, born, io, kick, faults, tabletVars, procVars, metaVars, aborted, owed,
                   nodeVars, listVars, commands>>

\* ... the tablet was not loading: load_request_dispatching_ is cleared all the same
DiscardCallback(r) ==
    /\ r.kind = "load" /\ r.stage = "discard"
    /\ rpc' = rpc \ {r}
    /\ lp' = IF r.live THEN [lp EXCEPT ![r.t].dispatching = FALSE] ELSE lp
    /\ UNCHANGED <<up, sid, zk, born, io, kick, faults, tabletVars, un, mv, metaVars, aborted, owed,
                   nodeVars, listVars, commands>>

\* ... the tablet was loading: the status is read again, by a CHECK
CheckFails(r) ==
    /\ r.kind = "load" /\ r.stage = "checked" /\ status[r.t] # "kTabletLoading"
    /\ aborted' = "load_tablet_procedure.cc:174"
    /\ UNCHANGED <<serverVars, tabletVars, procVars, metaVars, owed, nodeVars, listVars, commands>>

\* What an answer counts towards load_retrys_ and slow_load_retrys_
Counted(p, r) ==
    CASE NodeDown(r.s) -> [p EXCEPT !.retrys = Inc(@)]
      [] ~NodeDown(r.s) /\ r.code = "kTabletNodeIsBusy" -> p
      [] ~NodeDown(r.s) /\ r.code \in {"kTabletWaitLoad", "kTabletOnLoad"} ->
            [p EXCEPT !.slow = (@ + 1) % SlowPeriod,
                      !.retrys = IF (p.slow + 1) % SlowPeriod = 0 THEN Inc(@) ELSE @]
      [] OTHER -> [p EXCEPT !.retrys = Inc(@)]

\* ... the rest of LoadTabletCallback
LoadAnswer(r) ==
    LET p == lp[r.t]
        ok == ~NodeDown(r.s) /\ r.code \in {"kTabletNodeOk", "kTabletReady"}
        counted == Counted(p, r)
        again == ~NodeDown(r.s) /\ counted.retrys <= RetryTimes
    IN  /\ r.kind = "load" /\ r.stage = "checked" /\ status[r.t] = "kTabletLoading"
        /\ \/ /\ ~r.live \/ ok
              /\ rpc' = rpc \ {r}
              /\ lp' = IF r.live THEN [lp EXCEPT ![r.t].dispatching = FALSE] ELSE lp
           \/ /\ r.live /\ ~ok
              /\ rpc' = IF again THEN Advance(r, "retry") ELSE rpc \ {r}
              /\ lp' = Set(lp, r.t, counted)
        /\ UNCHANGED <<up, sid, zk, born, io, kick, faults, tabletVars, un, mv, metaVars, aborted, owed,
                       nodeVars, listVars, commands>>

\* The delayed retry: LoadTabletAsync goes to the same node again, UnloadTabletAsync to the
\* node the tablet is bound to by now
Retry(r) ==
    LET s == IF r.kind = "load" THEN r.s ELSE node_[r.t] IN
    /\ r.stage = "retry"
    /\ rpc' = IF NodeDown(s) THEN rpc \ {r} ELSE (rpc \ {r}) \cup {Request(r.kind, r.t, s)}
    /\ UNCHANGED <<up, sid, zk, born, io, kick, faults, tabletVars, procVars, metaVars, aborted, owed,
                   nodeVars, listVars, commands>>

-----------------------------------------------------------------------------
\* UnloadTabletProcedure, as the sub-procedure of a Move

\* TryKickTabletNode, with its result
TryKickTabletNode(s, result) ==
    \/ /\ result /\ state_[s] \in {"kKicked", "kOffline"}
       /\ UNCHANGED <<state_, kick>>
    \/ /\ ~result /\ state_[s] \notin {"kKicked", "kOffline"} /\ (safemode \/ MayBeUnsafe)
       /\ UNCHANGED <<state_, kick>>
    \/ /\ result /\ state_[s] = "kReady" /\ ~safemode
       /\ state_' = [state_ EXCEPT ![s] = NodePost(NodePost(@, "kPrepareKickTs"), "kZkKickNodeCreated")]
       /\ kick' = kick \cup {s}

\* The constructor's change of status
UnloadFrom(st) == CASE st \in {"kTabletUnloading", "kTabletUnloadFail"} -> "kTabletReady"
                    [] st = "kTabletDelayOffline" -> TabletPost(st, "kTsOffline")
                    [] OTHER -> st

\* Mutants: exhausted retries pass for success; the kick is looked at before the retries.
UnloadResultTrusting(t) == "kTsUnLoadSucc"

UnloadResultKickFirst(t) == IF un[t].kick_ts_succ THEN "kWaitRpcResponse"
                            ELSE IF un[t].retrys <= RetryTimes THEN "kTsUnLoadSucc" ELSE "kTsUnLoadFail"

\* No attempt is under way any more.
UnloadResult(t) == IF un[t].retrys <= RetryTimes THEN "kTsUnLoadSucc"
                   ELSE IF un[t].kick_ts_succ THEN "kWaitRpcResponse" ELSE "kTsUnLoadFail"

UnloadEvent(t) ==
    CASE status[t] \in {"kTabletOffline", "kTabletUnloadFail"} -> "kEofEvent"
      [] status[t] \notin {"kTabletOffline", "kTabletUnloadFail"} /\ NodeDown(node_[t]) -> "kTsOffline"
      [] status[t] = "kTabletReady" /\ ~NodeDown(node_[t]) ->
            IF unloading_count_[node_[t]] < MaxUnload THEN "kUnLoadTablet" ELSE "kTsUnloadBusy"
      [] status[t] = "kTabletUnloading" /\ ~NodeDown(node_[t]) ->
            IF un[t].dispatching THEN "kWaitRpcResponse" ELSE UnloadResult(t)
      [] OTHER -> "kEofEvent"

\* CanUnload, UnloadTabletHandler and UnloadTabletAsync
UnloadTabletHandler(t) ==
    LET n == node_[t] IN
    /\ un[t].on /\ UnloadEvent(t) = "kUnLoadTablet"
    /\ unloading_count_' = [unloading_count_ EXCEPT ![n] = @ + 1]
    /\ Transit(t, "kUnLoadTablet")
    /\ un' = [un EXCEPT ![t].dispatching = TRUE]
    /\ rpc' = rpc \cup {Request("unload", t, n)}
    /\ UNCHANGED <<up, sid, zk, born, io, kick, faults, node_, load_fail_cnt_, in_transition_, lp, mv,
                   metaVars, aborted, owed, state_, onload_count_, young, listVars, commands>>

\* UnloadTabletSuccHandler (for kTsUnLoadSucc and for kTsOffline) and UnloadTabletFailHandler.
\* FinishUnload has no test for zero: on a node that is down it may wrap unloading_count_, which
\* nobody reads there any more.
UnloadEnds(t) ==
    LET n == node_[t] IN
    /\ un[t].on
    /\ \E event \in {"kTsUnLoadSucc", "kTsOffline", "kTsUnLoadFail"} :
         UnloadEvent(t) = event /\ Transit(t, event)
    /\ unloading_count_' = IF NodeDown(n) THEN unloading_count_ ELSE [unloading_count_ EXCEPT ![n] = @ - 1]
    /\ UNCHANGED <<serverVars, node_, load_fail_cnt_, in_transition_, procVars, metaVars, aborted, owed,
                   state_, onload_count_, young, listVars, commands>>

\* done_ is set; the Move keeps the object, and its callbacks still reach it.
UnloadEOFHandler(t) ==
    /\ un[t].on /\ UnloadEvent(t) = "kEofEvent"
    /\ un' = [un EXCEPT ![t].on = FALSE]
    /\ UNCHANGED <<serverVars, tabletVars, lp, mv, metaVars, aborted, owed, nodeVars, listVars, commands>>

UnloadTabletCallback(r) ==
    LET t == r.t
        answered == r.code \in {"kTabletNodeOk", "kKeyNotInRange"}
        retrys == IF r.code = "kTabletNodeIsBusy" THEN un[t].retrys ELSE Inc(un[t].retrys)
    IN  /\ r.kind = "unload" /\ r.stage = "reply"
        /\ \/ /\ NodeDown(node_[t]) \/ answered
              /\ un' = [un EXCEPT ![t].dispatching = FALSE]
              /\ rpc' = rpc \ {r}
              /\ owed' = IF answered THEN [owed EXCEPT ![t] = @ \ {r.s}] ELSE owed
              /\ UNCHANGED <<state_, kick>>
           \/ /\ ~NodeDown(node_[t]) /\ ~answered /\ retrys > RetryTimes
              /\ \E result \in BOOLEAN :
                   /\ TryKickTabletNode(node_[t], result)
                   /\ un' = Set(un, t, [un[t] EXCEPT !.dispatching = FALSE, !.retrys = retrys,
                                                     !.kick_ts_succ = result])
              /\ rpc' = rpc \ {r}
              /\ UNCHANGED owed
           \/ /\ ~NodeDown(node_[t]) /\ ~answered /\ retrys <= RetryTimes
              /\ un' = [un EXCEPT ![t].retrys = retrys]
              /\ rpc' = Advance(r, "retry")
              /\ UNCHANGED <<owed, state_, kick>>
        /\ UNCHANGED <<up, sid, zk, born, io, faults, tabletVars, lp, mv, metaVars, aborted,
                       onload_count_, unloading_count_, young, listVars, commands>>

-----------------------------------------------------------------------------
\* MoveTabletProcedure

\* Mutant: the outcome of the unload is not looked at.
PhaseAfterUnloadAlways(st) == "kLoadTablet"

PhaseAfterUnload(st) == IF st = "kTabletOffline" THEN "kLoadTablet" ELSE "kEofPhase"

\* UnloadTabletPhaseHandler: starts the unload, then waits for it to be Done
UnloadTabletPhaseHandler(t) ==
    /\ mv[t].phase = "kUnLoadTablet" /\ ~un[t].on
    /\ \/ /\ ~mv[t].unload_proc
          /\ mv' = [mv EXCEPT ![t].unload_proc = TRUE]
          /\ un' = [un EXCEPT ![t].on = TRUE]
          /\ status' = Set(status, t, UnloadFrom(status[t]))
       \/ /\ mv[t].unload_proc
          /\ mv' = [mv EXCEPT ![t].phase = PhaseAfterUnload(status[t])]
          /\ UNCHANGED <<un, status>>
    /\ UNCHANGED <<serverVars, node_, load_fail_cnt_, in_transition_, lp, metaVars, aborted, owed, nodeVars,
                   listVars, commands>>

Bound(t, dest) == IF dest = NoNode THEN node_[t] ELSE dest

\* LoadTabletPhaseHandler with the constructor of the Load
LoadTabletPhaseHandler(t) ==
    /\ mv[t].phase = "kLoadTablet"
    /\ lp' = Set(lp, t, StartLoad(mv[t].dest))
    /\ node_' = Set(node_, t, Bound(t, mv[t].dest))
    /\ mv' = [mv EXCEPT ![t].phase = "kEofPhase", ![t].load_proc = TRUE]
    /\ UNCHANGED <<serverVars, status, load_fail_cnt_, in_transition_, un, metaVars, aborted, owed, nodeVars,
                   listVars, commands>>

\* Mutant: the lock is always released.
LockAfterMoveNever(t) == FALSE

LockAfterMove(t) == mv[t].load_proc

\* EOFPhaseHandler: the transition lock goes to the Load, if there is one.  The executor
\* drops the Move, and with it the Unload.
EOFPhaseHandler(t) ==
    /\ mv[t].phase = "kEofPhase"
    /\ in_transition_' = Set(in_transition_, t, LockAfterMove(t))
    /\ mv' = Set(mv, t, NoMove)
    /\ un' = Set(un, t, NoUnload)
    /\ rpc' = Forget("unload", t)
    /\ UNCHANGED <<up, sid, zk, born, io, kick, faults, status, node_, load_fail_cnt_, lp, metaVars, aborted,
                   owed, nodeVars, listVars, commands>>

\* TryMoveTablet, from the load balancer and from the tablet commands "reload" and "move"
TryMoveTablet(t) ==
    /\ commands < MaxCommands /\ ~in_transition_[t]
    /\ \E dest \in ({NoNode, node_[t]} \cup {tabletnode_list_[a] : a \in Addr}) :
         mv' = Set(mv, t, StartMove(status[t], dest))
    /\ in_transition_' = Set(in_transition_, t, TRUE)
    /\ commands' = commands + 1
    /\ UNCHANGED <<serverVars, status, node_, load_fail_cnt_, lp, un, metaVars, aborted, owed, nodeVars, listVars>>

\* TryKickTabletNode by address: the kick command and repeated query failures
KickCommand(a) ==
    /\ commands < MaxCommands /\ tabletnode_list_[a] # NoNode
    /\ \E result \in BOOLEAN : TryKickTabletNode(tabletnode_list_[a], result)
    /\ commands' = commands + 1
    /\ UNCHANGED <<up, sid, zk, born, io, rpc, faults, tabletVars, procVars, metaVars, aborted, owed,
                   onload_count_, unloading_count_, young, listVars>>

-----------------------------------------------------------------------------
\* RefreshTabletNodeList, all of it under tabletnode_mutex_

RefreshTabletNodeList ==
    LET del == {a \in Addr : tabletnode_list_[a] \notin {NoNode, zk[a]}}
        add == {zk[a] : a \in {a \in Addr : zk[a] \notin {NoNode, tabletnode_list_[a]}}}
    IN  /\ refresh = Idle /\ del \cup add # {}
        /\ refresh' = [Idle EXCEPT !.pc = "run", !.del = del, !.add = add]
        /\ UNCHANGED <<serverVars, tabletVars, procVars, metaVars, aborted, owed, nodeVars, tabletnode_list_,
                       reconnecting_ts_list_, timer, safemode, commands>>

\* TabletNodeManager::DelTabletNode; only now does it matter how old the TabletNode is.
DelTabletNode(a) ==
    LET s == tabletnode_list_[a] IN
    /\ refresh.pc = "run" /\ a \in refresh.del
    /\ tabletnode_list_' = Set(tabletnode_list_, a, NoNode)
    /\ state_' = [state_ EXCEPT ![s] = NodePost(@, "kZkSessionTimeout")]
    /\ onload_count_' = [onload_count_ EXCEPT ![s] = 0] /\ unloading_count_' = [unloading_count_ EXCEPT ![s] = 0]
    /\ owed' = [t \in Tablet |-> owed[t] \ {s}]
    /\ young' \in {young, young \cup {s}}
    /\ refresh' = [refresh EXCEPT !.pc = "mark", !.del = @ \ {a}, !.at = s]
    /\ UNCHANGED <<serverVars, tabletVars, procVars, metaVars, aborted, reconnecting_ts_list_, timer, safemode,
                   commands>>

\* The mutex is released when nothing is left to do.
RefreshEnds == IF refresh.del = {} /\ refresh.add = {} THEN Idle ELSE [refresh EXCEPT !.pc = "run", !.at = NoNode]

\* The rest of MasterImpl::DeleteTabletNode
DeleteTabletNode ==
    LET s == refresh.at
        metas == {t \in MetaTablet : node_[t] = s}
        list == {t \in Tablet \ metas : AddrOf(node_[t]) = AddrOf(s)}
        moved == {t \in metas : ~in_transition_[t]}
        marked(safe) == [t \in Tablet |->
            IF t \in list /\ node_[t] = s /\ ~in_transition_[t]
            THEN TabletPost(status[t], IF safe THEN "kTsOffline" ELSE "kTsDelayOffline") ELSE status[t]]
    IN  /\ refresh.pc = "mark"
        /\ mv' = [t \in Tablet |-> IF t \in moved THEN StartMove(status[t], NoNode) ELSE mv[t]]
        /\ in_transition_' = [t \in Tablet |-> in_transition_[t] \/ t \in moved]
        /\ \/ /\ safemode \/ MayBeUnsafe
              /\ safemode' = TRUE
              /\ status' = marked(TRUE)
              /\ UNCHANGED <<timer, reconnecting_ts_list_>>
           \/ /\ ~safemode
              /\ status' = marked(FALSE)
              /\ timer' = Set(timer, AddrOf(s), [dead |-> s, tablets |-> list])
              /\ reconnecting_ts_list_' = reconnecting_ts_list_ \cup {AddrOf(s)}
              /\ UNCHANGED safemode
        /\ refresh' = RefreshEnds
        /\ UNCHANGED <<serverVars, node_, load_fail_cnt_, lp, un, metaVars, aborted, owed, nodeVars,
                       tabletnode_list_, commands>>

\* TabletNodeManager::AddTabletNode
AddTabletNode(s) ==
    /\ refresh.pc = "run" /\ refresh.del = {} /\ s \in refresh.add
    /\ tabletnode_list_' = Set(tabletnode_list_, AddrOf(s), s)
    /\ state_' = [state_ EXCEPT ![s] = NodePost(@, "kZkNodeCreated")]
    /\ refresh' = [refresh EXCEPT !.pc = "recover", !.add = @ \ {s}, !.at = s]
    /\ UNCHANGED <<serverVars, tabletVars, procVars, metaVars, aborted, owed, onload_count_, unloading_count_,
                   young, reconnecting_ts_list_, timer, safemode, commands>>

\* Mutant: the entry stays.
PopTabletNodeReconnectTaskIDKeeps(a) == reconnecting_ts_list_

PopTabletNodeReconnectTaskID(a) == reconnecting_ts_list_ \ {a}

\* The rest of MasterImpl::AddTabletNode: a reconnecting server gets its tablets back.
RecoverTablets ==
    LET s == refresh.at
        metas == {t \in MetaTablet : status[t] = "kTabletOffline" /\ ~in_transition_[t]}
        here == {t \in Tablet \ metas : AddrOf(node_[t]) = AddrOf(s) /\ ~in_transition_[t]}
        post(t) == IF t \in here /\ status[t] = "kTabletDelayOffline" THEN TabletPost(status[t], "kTsOffline")
                   ELSE status[t]
        loaded == {t \in here : post(t) = "kTabletOffline"}
    IN  /\ refresh.pc = "recover" /\ state_[s] = "kReady"
        /\ status' = [t \in Tablet |-> post(t)]
        /\ lp' = [t \in Tablet |-> IF t \in metas THEN StartLoad(NoNode)
                                   ELSE IF t \in loaded THEN StartLoad(s) ELSE lp[t]]
        /\ node_' = [t \in Tablet |-> IF t \in loaded THEN s ELSE node_[t]]
        /\ in_transition_' = [t \in Tablet |-> in_transition_[t] \/ t \in metas \cup loaded]
        /\ timer' = IF AddrOf(s) \in reconnecting_ts_list_ THEN Set(timer, AddrOf(s), NoTimer) ELSE timer
        /\ reconnecting_ts_list_' = PopTabletNodeReconnectTaskID(AddrOf(s))
        /\ refresh' = RefreshEnds
        /\ UNCHANGED <<serverVars, load_fail_cnt_, un, mv, metaVars, aborted, owed, nodeVars, tabletnode_list_,
                       safemode, commands>>

\* The CHECK that the node just added is still ready
NotReadyAnyMore ==
    /\ refresh.pc = "recover" /\ state_[refresh.at] # "kReady"
    /\ aborted' = "master_impl.cc:2064"
    /\ UNCHANGED <<serverVars, tabletVars, procVars, metaVars, owed, nodeVars, listVars, commands>>

\* FLAGS_tera_master_tabletnode_timeout has passed since the TabletNode was created.
NodeExpires(s) ==
    /\ s \in young
    /\ young' = young \ {s}
    /\ UNCHANGED <<serverVars, tabletVars, procVars, metaVars, aborted, owed, state_, onload_count_,
                   unloading_count_, listVars, commands>>

\* The reconnect timer: it runs that timeout after the deletion.
MoveTabletOnDeadTabletNode(a) ==
    LET dead == timer[a].dead
        moved == {t \in timer[a].tablets : ~in_transition_[t] /\ node_[t] = dead}
    IN  /\ dead # NoNode /\ dead \notin young
        /\ status' = [t \in Tablet |-> IF t \in moved THEN TabletPost(status[t], "kTsOffline") ELSE status[t]]
        /\ mv' = [t \in Tablet |-> IF t \in moved THEN StartMove(status'[t], dead) ELSE mv[t]]
        /\ in_transition_' = [t \in Tablet |-> in_transition_[t] \/ t \in moved]
        /\ timer' = Set(timer, a, NoTimer)
        /\ UNCHANGED <<serverVars, node_, load_fail_cnt_, lp, un, metaVars, aborted, owed, nodeVars,
                       tabletnode_list_, reconnecting_ts_list_, refresh, safemode, commands>>

\* LeaveSafeMode with LoadAllDeadNodeTablets
LeaveSafeMode ==
    LET ready(a) == IF tabletnode_list_[a] = NoNode THEN FALSE ELSE state_[tabletnode_list_[a]] = "kReady"
        loaded == {t \in Tablet : /\ status[t] = "kTabletOffline" /\ ~in_transition_[t]
                                  /\ ~ready(AddrOf(node_[t]))}
    IN  /\ safemode
        /\ safemode' = FALSE
        /\ lp' = [t \in Tablet |-> IF t \in loaded THEN StartLoad(NoNode) ELSE lp[t]]
        /\ in_transition_' = [t \in Tablet |-> in_transition_[t] \/ t \in loaded]
        /\ UNCHANGED <<serverVars, status, node_, load_fail_cnt_, un, mv, metaVars, aborted, owed, nodeVars,
                       tabletnode_list_, reconnecting_ts_list_, timer, refresh, commands>>

-----------------------------------------------------------------------------
\* Every tablet is served by some first session, and the meta table says so.
Init ==
    \E home \in [Tablet -> Addr] :
        /\ ServerInit([a \in Addr |-> {t \in Tablet : home[t] = a}])
        /\ status = [t \in Tablet |-> "kTabletReady"]
        /\ node_ = [t \in Tablet |-> <<home[t], 1>>]
        /\ owed = [t \in Tablet |-> {<<home[t], 1>>}]
        /\ load_fail_cnt_ = [t \in Tablet |-> 0]
        /\ in_transition_ = [t \in Tablet |-> FALSE]
        /\ lp = [t \in Tablet |-> NoLoad] /\ un = [t \in Tablet |-> NoUnload] /\ mv = [t \in Tablet |-> NoMove]
        /\ metaw = {} /\ meta_addr = home /\ aborted = "no"
        /\ state_ = [s \in Session |-> IF s[2] = 1 THEN "kReady" ELSE "kOffline"]
        /\ onload_count_ = [s \in Session |-> 0] /\ unloading_count_ = [s \in Session |-> 0]
        /\ young = {}
        /\ tabletnode_list_ = [a \in Addr |-> <<a, 1>>]
        /\ reconnecting_ts_list_ = {} /\ timer = [a \in Addr |-> NoTimer]
        /\ refresh = Idle /\ safemode = FALSE /\ commands = 0

ServerSide == ServerStep /\ UNCHANGED <<tabletVars, procVars, metaVars, aborted, owed, nodeVars, listVars, commands>>

LoadStep(t) == \/ TabletNodeOfflineHandler(t) \/ ScheduleTabletNode(t) \/ TabletNodeRestartHandler(t)
               \/ TabletPendOfflineHandler(t) \/ UpdateMetaHandler(t) \/ LoadTabletHandler(t) \/ LoadWaits(t)
               \/ TabletNodeLoadSuccHandler(t) \/ TabletNodeLoadFailHandler(t) \/ LoadEOFHandler(t)

UnloadStep(t) == UnloadTabletHandler(t) \/ UnloadEnds(t) \/ UnloadEOFHandler(t)

MoveStep(t) == UnloadTabletPhaseHandler(t) \/ LoadTabletPhaseHandler(t) \/ EOFPhaseHandler(t)

Callback(r) == \/ LoadTabletCallback(r) \/ DiscardCallback(r) \/ CheckFails(r) \/ LoadAnswer(r) \/ Retry(r)
               \/ UnloadTabletCallback(r)

RefreshStep == \/ RefreshTabletNodeList \/ DeleteTabletNode \/ RecoverTablets \/ NotReadyAnyMore
               \/ \E a \in Addr : DelTabletNode(a)
               \/ \E s \in Session : AddTabletNode(s)

Next ==
    /\ aborted = "no"
    /\ \/ ServerSide
       \/ \E t \in Tablet : LoadStep(t) \/ UnloadStep(t) \/ MoveStep(t) \/ TryMoveTablet(t)
       \/ \E r \in rpc : Callback(r)
       \/ \E w \in metaw : UpdateMetaDone(w)
       \/ RefreshStep
       \/ \E s \in Session : NodeExpires(s)
       \/ \E a \in Addr : MoveTabletOnDeadTabletNode(a) \/ KickCommand(a)
       \/ LeaveSafeMode

Spec == Init /\ [][Next]_vars

\* What the master's threads, the servers and ZooKeeper go on doing.  Faults and commands need
\* not happen.
Running == aborted = "no"

ServerWork ==
    /\ \E r \in rpc : \/ AcceptLoad(r) \/ DoQueryTabletLoadStatus(r) \/ DoLoadTablet(r) \/ LoadDone(r)
                      \/ DoUnloadTablet(r) \/ UnloadDone(r)
                      \/ ~up[AddrOf(r.s)] /\ RpcFails(r)
    /\ UNCHANGED <<tabletVars, procVars, metaVars, aborted, owed, nodeVars, listVars, commands>>

ServerReturns(a) ==
    /\ KickSeen(a) \/ EntryExpires(a) \/ Register(a)
    /\ UNCHANGED <<tabletVars, procVars, metaVars, aborted, owed, nodeVars, listVars, commands>>

Fairness ==
    /\ WF_vars(Running /\ ServerWork)
    /\ \A a \in Addr : WF_vars(Running /\ ServerReturns(a))
    /\ \A t \in Tablet : /\ WF_vars(Running /\ LoadStep(t))
                         /\ WF_vars(Running /\ UnloadStep(t))
                         /\ WF_vars(Running /\ MoveStep(t))
    /\ WF_vars(Running /\ \E r \in rpc : Callback(r))
    /\ WF_vars(Running /\ \E w \in metaw : UpdateMetaDone(w))
    /\ WF_vars(Running /\ RefreshStep)
    /\ WF_vars(Running /\ \E s \in Session : NodeExpires(s))
    /\ WF_vars(Running /\ \E a \in Addr : MoveTabletOnDeadTabletNode(a))

FairSpec == Spec /\ Fairness

TypeOK ==
    /\ ServerTypeOK
    /\ status \in [Tablet -> TabletStatus] /\ node_ \in [Tablet -> Session]
    /\ load_fail_cnt_ \in [Tablet -> 0..MaxTriedTs] /\ in_transition_ \in [Tablet -> BOOLEAN]
    /\ lp \in [Tablet -> LoadProc] /\ un \in [Tablet -> UnloadProc] /\ mv \in [Tablet -> MoveProc]
    /\ metaw \subseteq [t : Tablet, a : Addr, live : BOOLEAN] /\ meta_addr \in [Tablet -> Addr]
    /\ aborted \in {"no", "load_tablet_procedure.cc:174", "master_impl.cc:2064"}
    /\ owed \in [Tablet -> SUBSET Session]
    /\ state_ \in [Session -> NodeState]
    /\ onload_count_ \in [Session -> Nat] /\ unloading_count_ \in [Session -> Nat]
    /\ young \subseteq Session
    /\ tabletnode_list_ \in [Addr -> Session \cup {NoNode}] /\ reconnecting_ts_list_ \subseteq Addr
    /\ timer \in [Addr -> [dead : Session \cup {NoNode}, tablets : SUBSET Tablet]]
    /\ refresh \in [pc : {"idle", "run", "mark", "recover"}, del : SUBSET Addr, add : SUBSET Session,
                    at : Session \cup {NoNode}]
    /\ safemode \in BOOLEAN /\ commands \in 0..MaxCommands

-----------------------------------------------------------------------------
\* Properties

\* The transition lock of a tablet is held exactly while one chain of procedures owns the
\* tablet: a Move, then its Unload, then the Load it starts, then the Move a failed Load
\* starts.  The lock is handed over between them, never released and never taken twice.
TransitionLock ==
    \A t \in Tablet :
        /\ in_transition_[t] <=> (lp[t].on \/ mv[t].phase # "none")
        /\ un[t].on => mv[t].phase = "kUnLoadTablet" /\ mv[t].unload_proc
        /\ lp[t].on => mv[t].phase = "none" \/ (mv[t].phase = "kEofPhase" /\ mv[t].load_proc)

\* onload_count_ and unloading_count_, which limit the loads and unloads a server is given at
\* once, count the user tablets that are Loading and the tablets that are Unloading there, on
\* every node that is not offline.
CountsExact ==
    \A s \in Session : ~NodeDown(s) =>
        /\ onload_count_[s] = Cardinality({t \in Tablet \ MetaTablet : status[t] = "kTabletLoading" /\ lp[t].dest = s})
        /\ unloading_count_[s] = Cardinality({t \in Tablet : status[t] = "kTabletUnloading" /\ node_[t] = s})

\* A tablet is given to a server only when every other server it was given to has answered an
\* unload or has lost its session: EOFHandler's detour through a Move, and the kick of a server
\* that will not unload, exist for this.  When the tries are used up EOFHandler leaves the tablet
\* in kTabletLoadFail and unloads it nowhere; the claim says nothing of the servers given up there.
NoBlindReassign ==
    \A t \in Tablet : status[t] = "kTabletLoading" => owed[t] \subseteq {lp[t].dest}

\* CHECK in WaitTabletNodeReconnect: when a deleted node is put on the reconnect list, its
\* address is not there from an earlier life.
ReconnectListFree == refresh.pc = "mark" /\ ~safemode => AddrOf(refresh.at) \notin reconnecting_ts_list_

\* A procedure that waits has something to wait for.  IsNewEvent ignores an event that repeats
\* the last one; then a meta write that will complete is under way, an attempt at the node
\* concerned is, another tablet is loading on the busy node, or the tablet is DelayOffline until
\* its node returns or expires.  An Unload waits for its attempt or for a kicked node.
NoLostWakeup ==
    \A t \in Tablet :
        LET event == LoadEvent(t)
            attempt(kind, s) == \E r \in rpc : r.live /\ r.kind = kind /\ r.t = t /\ r.s = s
        IN  /\ lp[t].on /\ ~lp[t].sched /\ ~IsNewEvent(t, event) =>
                  \/ event = "kUpdateMeta" /\ \E w \in metaw : w.live /\ w.t = t
                  \/ event = "kWaitRpcResponse" /\ attempt("load", lp[t].dest)
                  \/ /\ event = "kTsLoadBusy"
                     /\ \E u \in Tablet \ {t} : status[u] = "kTabletLoading" /\ lp[u].dest = lp[t].dest
                  \/ event = "kTsDelayOffline" /\ status[t] = "kTabletDelayOffline"
            /\ un[t].on /\ UnloadEvent(t) = "kWaitRpcResponse" =>
                  IF un[t].dispatching THEN attempt("unload", node_[t]) ELSE state_[node_[t]] = "kKicked"

\* PROC_CHECK in the LoadTabletProcedure constructor: a Move goes on to load a tablet only when
\* nobody is thought to serve it.
LoadStartsUnserved ==
    \A t \in Tablet : mv[t].phase = "kLoadTablet" =>
        status[t] \in {"kTabletOffline", "kTabletDelayOffline", "kTabletLoadFail"}

\* Every procedure chain ends and gives the transition lock back, whatever the order of answers,
\* timeouts and node changes, unless a CHECK ends the master or no server comes back any more.
NoServerLeft == \A a \in Addr : born[a] = MaxInc /\ zk[a] = NoNode

TransitionEnds ==
    \A t \in Tablet : in_transition_[t] ~> (~in_transition_[t] \/ aborted # "no" \/ NoServerLeft)

-----------------------------------------------------------------------------
\* What the documents and comments say, and the code does not keep

\* The CHECK at load_tablet_procedure.cc:174
CallbackFindsLoading == aborted # "load_tablet_procedure.cc:174"

\* The CHECK at master_impl.cc:2064
AddedNodeIsReady == aborted # "master_impl.cc:2064"

\* doc/tera_question_answer_hjh.md: a tablet is served by one tablet server at most.
SingleServer == \A t \in Tablet : Cardinality({a \in Addr : io[a][t] = "kReady"}) <= 1

\* load_tablet_procedure.cc:463 and doc/tera_question_answer_hjh.md: the Unload that follows a
\* failed load settles it.  A session that answered it has no load of the tablet left to execute.
UnloadIsFinal ==
    \A r \in rpc : r.kind = "load" /\ r.stage \in {"sent", "queued", "running"} => r.s \in owed[r.t] \/ NodeDown(r.s)

\* load_tablet_procedure.cc:176: an attempt succeeds because dest_node itself said so, so the
\* session the tablet is Ready on has it open, or is over.
LoadSuccIsReal ==
    \A t \in Tablet : status[t] = "kTabletReady" /\ lp[t].on =>
        LET a == AddrOf(lp[t].dest) IN io[a][t] = "kReady" \/ sid[a] # lp[t].dest

\* doc/master-ts-client-interactive.md: the meta table tells a client where a tablet is.
MetaAgrees ==
    \A t \in Tablet \ MetaTablet : status[t] = "kTabletReady" /\ ~in_transition_[t] => meta_addr[t] = AddrOf(node_[t])

\* unload_tablet_procedure.cc:122: an unload never ends in kTabletUnloadFail.
NeverUnloadFail == \A t \in Tablet : status[t] # "kTabletUnloadFail"

\* doc/tera_question_answer_hjh.md: while the reconnect timer of a server runs, its tablets
\* are not given to another one.
WaitsForReconnect ==
    \A t \in Tablet \ MetaTablet : lp[t].on /\ lp[t].sched => lp[t].dest = NoNode \/ timer[AddrOf(lp[t].dest)].dead # lp[t].dest

\* unload_tablet_procedure.cc:122: the node kicked is the one all unload tries failed on.
KickedForCause == [][\A r \in rpc : UnloadTabletCallback(r) /\ kick' # kick => kick' \ kick = {r.s}]_vars

=============================================================================
