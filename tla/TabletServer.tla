---------------------------- MODULE TabletServer ----------------------------
(***************************************************************************)
(* Tablet servers as the master meets them: a process at an address that   *)
(* registers in ZooKeeper under a session, takes LoadTablet and            *)
(* UnloadTablet RPCs (RemoteTabletNode), runs them on its control pool     *)
(* (TabletNodeImpl, TabletManager, TabletIO) and answers.                  *)
(*                                                                         *)
(* A session is a pair <<address, incarnation>>.  The variable rpc holds   *)
(* the requests between the master and the servers, each with the stage it *)
(* has reached; live says that the procedure that sent it still exists and *)
(* has not given up on this attempt.  A request the master gave up on (the *)
(* RPC timed out) stays with live = FALSE and may still be executed.       *)
(***************************************************************************)
EXTENDS Naturals, FiniteSets

CONSTANTS Addr,        \* addresses of tablet servers
          Tablet,      \* tablets
          NoNode,      \* "no session": a null TabletNodePtr, no ZooKeeper entry
          MaxInc,      \* bound: sessions an address opens
          MaxFaults,   \* bound: crashes, session losses and RPCs that time out at a running server
          MayBeBusy    \* whether the control pool may be full when a request arrives

Session == Addr \X (1..MaxInc)

AddrOf(s) == s[1]

ASSUME ServerAssumption == /\ MaxInc \in Nat \ {0}
                           /\ MaxFaults \in Nat
                           /\ MayBeBusy \in BOOLEAN
                           /\ NoNode \notin Session

VARIABLES up,      \* [Addr -> BOOLEAN], the server process runs
          sid,     \* [Addr -> session], the session id the server holds
          zk,      \* [Addr -> session], the entry under the ts directory of ZooKeeper
          born,    \* [Addr -> 0..MaxInc], sessions opened so far
          io,      \* [Addr -> [Tablet -> IoStatus]], tablet_list_ with each TabletIO's status_
          kick,    \* sessions whose kick mark exists in ZooKeeper
          rpc,     \* requests under way
          faults   \* faults used up

serverVars == <<up, sid, zk, born, io, kick, rpc, faults>>

\* kNotInit stands for "not in tablet_list_"; kUnloading for kUnloading and kUnloading2.
IoStatus == {"kNotInit", "kOnLoad", "kReady", "kUnloading"}

Code == {"none", "failed", "kTabletNodeOk", "kTabletNodeIsBusy", "kTabletWaitLoad", "kTabletOnLoad",
         "kTabletReady", "kTabletUnloading", "kIllegalAccess", "kIOError", "kKeyNotInRange"}

Stage == {"sent", "query", "queued", "running", "reply", "checked", "discard", "retry"}

Rpc == [kind : {"load", "unload"}, t : Tablet, s : Session, stage : Stage, code : Code, live : BOOLEAN]

Request(k, t, s) == [kind |-> k, t |-> t, s |-> s, stage |-> "sent", code |-> "none", live |-> TRUE]

Advance(r, stage) == (rpc \ {r}) \cup {[r EXCEPT !.stage = stage]}

\* The answer goes to the attempt that waits for it, and nowhere when nobody waits.
Answer(r, code) ==
    (rpc \ {r}) \cup {[q EXCEPT !.stage = "reply", !.code = code] : q \in {q \in {r} : q.live}}

StatusOf(st) == CASE st = "kNotInit" -> "kKeyNotInRange"
                  [] st = "kOnLoad" -> "kTabletOnLoad"
                  [] st = "kReady" -> "kTabletReady"
                  [] st = "kUnloading" -> "kTabletUnloading"

SetIo(a, t, st) == io' = [io EXCEPT ![a][t] = st]

-----------------------------------------------------------------------------
\* tablets_ctrl_status_: the load of t that waits for, or holds, a control thread.
Ctrl(a, t) == {q \in rpc : /\ q.kind = "load" /\ q.t = t /\ AddrOf(q.s) = a
                           /\ q.stage \in {"queued", "running"}}

Busy(r) == MayBeBusy /\ rpc' = Answer(r, "kTabletNodeIsBusy") /\ UNCHANGED io

\* RemoteTabletNode::LoadTablet: a second load of a path under control is only told, by
\* another pool, how far the first one is.
AcceptLoad(r) ==
    LET ctrl == Ctrl(AddrOf(r.s), r.t) IN
    /\ r.kind = "load" /\ r.stage = "sent" /\ up[AddrOf(r.s)]
    /\ \/ ctrl # {} /\ rpc' = Advance(r, "query") /\ UNCHANGED io
       \/ ctrl = {} /\ Busy(r)
       \/ ctrl = {} /\ rpc' = Advance(r, "queued") /\ UNCHANGED io
    /\ UNCHANGED <<up, sid, zk, born, kick, faults>>

\* The first load may be over by now.  Then QueryTabletStatus is asked, with the tablet's path
\* in place of the table name, and never finds the tablet.
DoQueryTabletLoadStatus(r) ==
    LET a == AddrOf(r.s)
        ctrl == Ctrl(a, r.t)
    IN  /\ r.stage = "query" /\ up[a]
        /\ \/ \E q \in ctrl : rpc' = Answer(r, IF q.stage = "queued" THEN "kTabletWaitLoad" ELSE "kTabletOnLoad")
           \/ ctrl = {} /\ rpc' = Answer(r, "kKeyNotInRange")
        /\ UNCHANGED <<up, sid, zk, born, io, kick, faults>>

\* DoLoadTablet and TabletNodeImpl::LoadTablet up to the start of TabletIO::Load
DoLoadTablet(r) ==
    LET a == AddrOf(r.s) IN
    /\ r.kind = "load" /\ r.stage = "queued" /\ up[a]
    /\ \/ sid[a] # r.s /\ rpc' = Answer(r, "kIllegalAccess") /\ UNCHANGED io
       \/ sid[a] = r.s /\ io[a][r.t] # "kNotInit" /\ rpc' = Answer(r, StatusOf(io[a][r.t])) /\ UNCHANGED io
       \/ sid[a] = r.s /\ io[a][r.t] = "kNotInit" /\ rpc' = Advance(r, "running") /\ SetIo(a, r.t, "kOnLoad")
    /\ UNCHANGED <<up, sid, zk, born, kick, faults>>

\* The end of TabletIO::Load: leveldb opened the tablet, or it did not and the tablet is
\* removed again.
LoadDone(r) ==
    LET a == AddrOf(r.s) IN
    /\ r.kind = "load" /\ r.stage = "running"
    /\ \/ rpc' = Answer(r, "kTabletNodeOk") /\ SetIo(a, r.t, "kReady")
       \/ rpc' = Answer(r, "kIOError") /\ SetIo(a, r.t, "kNotInit")
    /\ UNCHANGED <<up, sid, zk, born, kick, faults>>

\* RemoteTabletNode::UnloadTablet, DoUnloadTablet and TabletNodeImpl::UnloadTablet.  The
\* master's request carries no path, so tablets_ctrl_status_ is not consulted.
DoUnloadTablet(r) ==
    LET a == AddrOf(r.s) IN
    /\ r.kind = "unload" /\ r.stage = "sent" /\ up[a]
    /\ \/ Busy(r)
       \/ sid[a] # r.s /\ rpc' = Answer(r, "kIllegalAccess") /\ UNCHANGED io
       \/ sid[a] = r.s /\ io[a][r.t] # "kReady" /\ rpc' = Answer(r, StatusOf(io[a][r.t])) /\ UNCHANGED io
       \/ sid[a] = r.s /\ io[a][r.t] = "kReady" /\ rpc' = Advance(r, "running") /\ SetIo(a, r.t, "kUnloading")
    /\ UNCHANGED <<up, sid, zk, born, kick, faults>>

\* The end of TabletIO::Unload and RemoveTablet
UnloadDone(r) ==
    /\ r.kind = "unload" /\ r.stage = "running"
    /\ rpc' = Answer(r, "kTabletNodeOk") /\ SetIo(AddrOf(r.s), r.t, "kNotInit")
    /\ UNCHANGED <<up, sid, zk, born, kick, faults>>

-----------------------------------------------------------------------------
\* The RPC layer reports an attempt as failed: nobody is there, the request was lost, or it
\* was only slow and the server still has it.
RpcFails(r) ==
    /\ r.live /\ r.stage \in {"sent", "query", "queued", "running"}
    /\ LET failed == [r EXCEPT !.stage = "reply", !.code = "failed"]
           left == [r EXCEPT !.live = FALSE]
       IN  \/ ~up[AddrOf(r.s)] /\ rpc' = (rpc \ {r}) \cup {failed} /\ UNCHANGED faults
           \/ /\ up[AddrOf(r.s)] /\ faults < MaxFaults /\ faults' = faults + 1
              /\ \/ r.stage = "sent" /\ rpc' = (rpc \ {r}) \cup {failed}
                 \/ rpc' = (rpc \ {r}) \cup {failed, left}
    /\ UNCHANGED <<up, sid, zk, born, io, kick>>

\* What a server process takes with it: its tablets, and the requests it had accepted.
Dies(a) ==
    LET at == {r \in rpc : AddrOf(r.s) = a /\ r.stage \in {"sent", "query", "queued", "running"}}
    IN  /\ up' = [up EXCEPT ![a] = FALSE]
        /\ sid' = [sid EXCEPT ![a] = NoNode]
        /\ io' = [io EXCEPT ![a] = [t \in Tablet |-> "kNotInit"]]
        /\ rpc' = (rpc \ at) \cup {[r EXCEPT !.stage = "reply", !.code = "failed"] : r \in {r \in at : r.live}}

Crash(a) == /\ up[a] /\ faults < MaxFaults
            /\ Dies(a) /\ faults' = faults + 1
            /\ UNCHANGED <<zk, born, kick>>

\* OnKickMarkCreated: the server finds the mark for its own entry and exits.
KickSeen(a) == /\ up[a] /\ sid[a] \in kick
               /\ Dies(a)
               /\ UNCHANGED <<zk, born, kick, faults>>

\* ZooKeeper drops the ephemeral entry of a server that is gone.
EntryExpires(a) == /\ ~up[a] /\ zk[a] # NoNode
                   /\ zk' = [zk EXCEPT ![a] = NoNode]
                   /\ UNCHANGED <<up, sid, born, io, kick, rpc, faults>>

\* The session of a running server expires; the server is told later, and keeps its tablets.
SessionLost(a) == /\ up[a] /\ zk[a] = sid[a] /\ zk[a] # NoNode /\ faults < MaxFaults
                  /\ zk' = [zk EXCEPT ![a] = NoNode]
                  /\ faults' = faults + 1
                  /\ UNCHANGED <<up, sid, born, io, kick, rpc>>

\* TabletNodeZkAdapter::Init and Register, at start and from OnSessionTimeout or
\* OnSelfNodeDeleted
Register(a) ==
    /\ born[a] < MaxInc
    /\ up[a] => zk[a] = NoNode
    /\ LET s == <<a, born[a] + 1>>
       IN  /\ born' = [born EXCEPT ![a] = @ + 1]
           /\ sid' = [sid EXCEPT ![a] = s]
           /\ zk' = [zk EXCEPT ![a] = s]
    /\ up' = [up EXCEPT ![a] = TRUE]
    /\ UNCHANGED <<io, kick, rpc, faults>>

ServerStep == \/ \E r \in rpc : AcceptLoad(r) \/ DoQueryTabletLoadStatus(r) \/ DoLoadTablet(r) \/ LoadDone(r)
                                \/ DoUnloadTablet(r) \/ UnloadDone(r) \/ RpcFails(r)
              \/ \E a \in Addr : Crash(a) \/ KickSeen(a) \/ EntryExpires(a) \/ SessionLost(a) \/ Register(a)

\* Every server runs and is registered; loaded[a] are the tablets it serves.
ServerInit(loaded) ==
    /\ up = [a \in Addr |-> TRUE]
    /\ born = [a \in Addr |-> 1]
    /\ sid = [a \in Addr |-> <<a, 1>>]
    /\ zk = [a \in Addr |-> <<a, 1>>]
    /\ io = [a \in Addr |-> [t \in Tablet |-> IF t \in loaded[a] THEN "kReady" ELSE "kNotInit"]]
    /\ kick = {} /\ rpc = {} /\ faults = 0

ServerTypeOK ==
    /\ up \in [Addr -> BOOLEAN]
    /\ sid \in [Addr -> Session \cup {NoNode}] /\ zk \in [Addr -> Session \cup {NoNode}]
    /\ born \in [Addr -> 1..MaxInc]
    /\ io \in [Addr -> [Tablet -> IoStatus]]
    /\ kick \subseteq Session /\ rpc \subseteq Rpc
    /\ faults \in 0..MaxFaults

=============================================================================
