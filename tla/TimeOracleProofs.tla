------------------------- MODULE TimeOracleProofs -------------------------
(***************************************************************************)
(* Proofs about the time oracle, for any number of processes, RPC threads  *)
(* and any lease lengths.                                                  *)
(***************************************************************************)
EXTENDS TimeOracle, TLAPS

\* What a limit in force, or about to be, says of ZooKeeper
LeaseInv ==
    /\ \A p \in Proc : limit_timestamp_[p] <= high
    /\ \A p \in Proc : lease[p] = "update" => next[p] <= high
    /\ GrantsLeased

\* Only the process born last may hold the lock, and a process that does not run has nothing
\* in its memory.
BirthInv ==
    /\ holder \in {0, born}
    /\ \A p \in Proc : p > born => pc[p] = "none"
    /\ \A p \in Proc : pc[p] \in {"none", "locked"} => granted[p] = {}
    /\ \A p \in Proc : ~Live(p) => limit_timestamp_[p] = 0 /\ lease[p] \notin {"write", "update"}
    /\ \A p \in Proc : pc[p] # "serving" => req[p] = {} /\ run[p] = "idle"

\* The values a process q has, or is about to have, as its limit, or has answered with, lie
\* below b.
Below(q, b) ==
    /\ limit_timestamp_[q] <= b
    /\ lease[q] = "update" => next[q] <= b
    /\ \A x \in granted[q] : x < b

\* Inside a process: it starts at startup_timestamp_, and what it has answered or is about to
\* answer are disjoint ranges between there and start_timestamp_.
RangeInv(p) ==
    /\ startup_timestamp_[p] <= start_timestamp_[p]
    /\ lease[p] \in {"write", "update"} => /\ startup_timestamp_[p] <= next[p]
                                           /\ limit_timestamp_[p] <= next[p]
    /\ \A x \in granted[p] : x < start_timestamp_[p] /\ x < limit_timestamp_[p]
    /\ \A r \in req[p] : /\ startup_timestamp_[p] <= r.from /\ r.from <= r.to
                         /\ r.to <= start_timestamp_[p]
                         /\ \A x \in granted[p] : x < r.from \/ r.to <= x
    /\ \A r, s \in req[p] : r = s \/ r.to <= s.from \/ s.to <= r.from

\* Between processes: a process starts beyond the limits of those before it.
OrderInv ==
    /\ \A q \in Proc : Below(q, stored)
    /\ \A p \in Proc : Live(p) => RangeInv(p)
    /\ \A p, q \in Proc : Live(p) /\ q < p => Below(q, startup_timestamp_[p])
    /\ \A p, q \in Proc : q < p => \A x \in granted[p] :
          limit_timestamp_[q] <= x /\ (lease[q] = "update" => next[q] <= x)
    /\ twice = {}


-----------------------------------------------------------------------------
\* Every step keeps the types.
LEMMA TypeStep ==
  TypeOK /\ [Next]_vars => TypeOK'
<1> SUFFICES ASSUME TypeOK, [Next]_vars PROVE TypeOK' OBVIOUS
<1>1. CASE LockTimeoracleLock
  <2>1. born + 1 \in Proc /\ born + 1 \in 0..MaxProc
    BY <1>1, OracleAssumption DEF TypeOK, LockTimeoracleLock, Proc
  <2>2. QED
    BY <1>1, <2>1 DEF TypeOK, LockTimeoracleLock, zkVars, leaseVars, runVars, answerVars
<1>2. CASE SessionExpires
  BY <1>2, OracleAssumption DEF TypeOK, SessionExpires, entryVars, zkVars, leaseVars, runVars, answerVars
<1>3. ASSUME NEW p \in Proc, Start(p) PROVE TypeOK'
  BY <1>3, OracleAssumption DEF TypeOK, Start, Larger, entryVars, zkVars, leaseVars, runVars, answerVars
<1>4. ASSUME NEW p \in Proc, StartServer(p) PROVE TypeOK'
  BY <1>4, OracleAssumption DEF TypeOK, StartServer, entryVars, zkVars, leaseVars, runVars, answerVars
<1>5. ASSUME NEW p \in Proc, Exit(p) PROVE TypeOK'
  BY <1>5, OracleAssumption DEF TypeOK, Exit, Unseen, entryVars, zkVars, leaseVars, runVars, answerVars
<1>6. ASSUME NEW p \in Proc, LeaseThread(p) PROVE TypeOK'
  BY <1>6, OracleAssumption DEF TypeOK, LeaseThread, Larger, entryVars, zkVars, leaseVars, runVars, answerVars
<1>7. ASSUME NEW p \in Proc, UpdateTimestamp(p) PROVE TypeOK'
  <2>1. stored' \in Nat /\ high' \in Nat
    BY <1>7 DEF TypeOK, UpdateTimestamp, Larger, zkVars
  <2>2. lease' \in [Proc -> {"idle", "write", "update", "quit"}]
    BY <1>7 DEF TypeOK, UpdateTimestamp
  <2>3. QED
    BY <1>7, <2>1, <2>2 DEF TypeOK, UpdateTimestamp, entryVars, runVars, answerVars
<1>8. ASSUME NEW p \in Proc, UpdateLimitTimestamp(p) PROVE TypeOK'
  BY <1>8, OracleAssumption DEF TypeOK, UpdateLimitTimestamp, Larger, entryVars, zkVars, leaseVars, runVars, answerVars
<1>9. ASSUME NEW p \in Proc, Run(p) PROVE TypeOK'
  BY <1>9, OracleAssumption DEF TypeOK, Run, entryVars, zkVars, leaseVars, runVars, answerVars
<1>10. ASSUME NEW p \in Proc, AdjustToClock(p) PROVE TypeOK'
  BY <1>10, OracleAssumption DEF TypeOK, AdjustToClock, entryVars, zkVars, leaseVars, runVars, answerVars
<1>11. ASSUME NEW p \in Proc, ReadLimit(p) PROVE TypeOK'
  <2>1. run' \in [Proc -> {"idle", "clock", "limit"}]
    BY <1>11 DEF TypeOK, ReadLimit
  <2>2. seen' \in [Proc -> [start : Nat, limit : Nat]]
    BY <1>11 DEF TypeOK, ReadLimit
  <2>3. QED
    BY <1>11, <2>1, <2>2 DEF TypeOK, ReadLimit, entryVars, zkVars, leaseVars, answerVars
<1>12. ASSUME NEW p \in Proc, AdjustToLimit(p) PROVE TypeOK'
  <2>1. run' \in [Proc -> {"idle", "clock", "limit"}] /\ lowered' \in BOOLEAN
    BY <1>12 DEF TypeOK, AdjustToLimit
  <2>2. seen' \in [Proc -> [start : Nat, limit : Nat]]
    BY <1>12 DEF TypeOK, AdjustToLimit, Unseen
  <2>3. start_timestamp_' \in [Proc -> Nat]
    BY <1>12 DEF TypeOK, AdjustToLimit
  <2>4. QED
    BY <1>12, <2>1, <2>2, <2>3 DEF TypeOK, AdjustToLimit, entryVars, zkVars, leaseVars, answerVars
<1>13. ASSUME NEW p \in Proc, NEW t \in Thread, NEW n \in Count, FetchAdd(p, t, n) PROVE TypeOK'
  BY <1>13, OracleAssumption DEF TypeOK, FetchAdd, entryVars, zkVars, leaseVars, runVars, answerVars
<1>14. ASSUME NEW p \in Proc, NEW r \in req[p], GetTimestamp(p, r) PROVE TypeOK'
  <2>1. r.from \in Nat /\ r.to \in Nat /\ r.from..(r.to - 1) \subseteq Nat
    BY DEF TypeOK
  <2>2. granted' \in [Proc -> SUBSET Nat] /\ twice' \subseteq Nat
    BY <1>14, <2>1 DEF TypeOK, GetTimestamp
  <2>3. req' \in [Proc -> SUBSET [thread : Thread, from : Nat, to : Nat]]
    BY <1>14 DEF TypeOK, GetTimestamp
  <2>4. QED
    BY <1>14, <2>2, <2>3 DEF TypeOK, GetTimestamp, entryVars, zkVars, leaseVars, runVars
<1>15. CASE UNCHANGED vars
  BY <1>15, OracleAssumption DEF TypeOK, entryVars, zkVars, leaseVars, runVars, answerVars, vars
<1>16. QED
  BY <1>1, <1>2, <1>3, <1>4, <1>5, <1>6, <1>7, <1>8, <1>9, <1>10, <1>11, <1>12, <1>13, <1>14, <1>15 DEF Next

\* The variables of the oracle, of its threads and of ZooKeeper always have their types.
THEOREM TypeCorrect == Spec => []TypeOK
<1>1. Init => TypeOK
  <2> SUFFICES ASSUME Init PROVE TypeOK OBVIOUS
  <2>1. holder \in 0..MaxProc /\ born \in 0..MaxProc
    BY OracleAssumption DEF Init
  <2>2. seen \in [Proc -> [start : Nat, limit : Nat]]
    BY DEF Init, Unseen
  <2>3. req \in [Proc -> SUBSET [thread : Thread, from : Nat, to : Nat]]
    BY DEF Init
  <2>4. lowered \in BOOLEAN
    BY DEF Init
  <2>5. granted \in [Proc -> SUBSET Nat] /\ twice \subseteq Nat
    BY DEF Init
  <2>6. QED
    BY <2>1, <2>2, <2>3, <2>4, <2>5 DEF Init, TypeOK
<1>2. QED
  BY <1>1, TypeStep, PTL DEF Spec

-----------------------------------------------------------------------------
\* Every step keeps the limits, in force or about to be, below what ZooKeeper has seen.
LEMMA LeaseStep ==
  TypeOK /\ LeaseInv /\ [Next]_vars => LeaseInv'
<1> SUFFICES ASSUME TypeOK, LeaseInv, [Next]_vars PROVE LeaseInv' OBVIOUS
<1>1. CASE /\ UNCHANGED <<limit_timestamp_, high, granted, next>>
           /\ \A p \in Proc : lease'[p] = "update" => lease[p] = "update"
  BY <1>1 DEF LeaseInv, GrantsLeased
<1>2. ASSUME NEW p \in Proc, Exit(p) PROVE LeaseInv'
  BY <1>2 DEF TypeOK, LeaseInv, GrantsLeased, Exit, zkVars, answerVars
<1>3. ASSUME NEW p \in Proc, LeaseThread(p) PROVE LeaseInv'
  BY <1>3 DEF TypeOK, LeaseInv, GrantsLeased, LeaseThread, zkVars, answerVars
<1>4. ASSUME NEW p \in Proc, UpdateTimestamp(p) PROVE LeaseInv'
  <2>1. high <= high' /\ (lease'[p] = "update" => next[p] <= high')
    BY <1>4 DEF TypeOK, UpdateTimestamp, Larger, zkVars
  <2>2. \A q \in Proc : q # p => lease'[q] = lease[q]
    BY <1>4 DEF TypeOK, UpdateTimestamp
  <2>3. UNCHANGED <<limit_timestamp_, next, granted>>
    BY <1>4 DEF UpdateTimestamp, answerVars
  <2>4. high' \in Nat
    BY <1>4 DEF TypeOK, UpdateTimestamp, Larger, zkVars
  <2>5. \A q \in Proc : limit_timestamp_'[q] <= high'
    BY <2>1, <2>3, <2>4 DEF TypeOK, LeaseInv
  <2>6. \A q \in Proc : lease'[q] = "update" => next'[q] <= high'
    BY <2>1, <2>2, <2>3, <2>4 DEF TypeOK, LeaseInv
  <2>7. \A q \in Proc : \A x \in granted'[q] : x < high'
    <3> SUFFICES ASSUME NEW q \in Proc, NEW x \in granted[q] PROVE x < high'
      BY <2>3
    <3>1. x \in Nat /\ x < high
      BY DEF TypeOK, LeaseInv, GrantsLeased
    <3>2. QED
      BY <3>1, <2>1, <2>4 DEF TypeOK
  <2>8. QED
    BY <2>5, <2>6, <2>7 DEF LeaseInv, GrantsLeased
<1>5. ASSUME NEW p \in Proc, UpdateLimitTimestamp(p) PROVE LeaseInv'
  BY <1>5 DEF TypeOK, LeaseInv, GrantsLeased, UpdateLimitTimestamp, Larger, zkVars, answerVars
<1>6. ASSUME NEW p \in Proc, NEW r \in req[p], GetTimestamp(p, r) PROVE LeaseInv'
  <2>1. UNCHANGED <<limit_timestamp_, next, lease, high>>
    BY <1>6 DEF GetTimestamp, leaseVars, zkVars
  <2>2. ASSUME NEW q \in Proc, NEW x \in granted'[q] PROVE x < high
    <3>1. CASE x \in granted[q]
      BY <3>1 DEF LeaseInv, GrantsLeased
    <3>2. CASE x \notin granted[q]
      <4>1. Granted(p, r) /\ x \in r.from..(r.to - 1)
        BY <1>6, <3>2, <2>2 DEF TypeOK, GetTimestamp
      <4>2. r.from \in Nat /\ r.to \in Nat
        BY DEF TypeOK
      <4>3. r.to < limit_timestamp_[p] /\ limit_timestamp_[p] <= high
        BY <4>1 DEF Granted, LeaseInv
      <4>4. QED
        BY <4>1, <4>2, <4>3 DEF TypeOK
    <3>3. QED
      BY <3>1, <3>2
  <2>3. QED
    BY <2>1, <2>2 DEF LeaseInv, GrantsLeased
<1>7. CASE \/ LockTimeoracleLock \/ SessionExpires \/ UNCHANGED vars
           \/ \E p \in Proc : \/ Start(p) \/ StartServer(p) \/ Run(p) \/ AdjustToClock(p) \/ ReadLimit(p)
                              \/ AdjustToLimit(p) \/ \E t \in Thread, n \in Count : FetchAdd(p, t, n)
  <2>1. UNCHANGED <<limit_timestamp_, high, granted, next, lease>>
    BY <1>7 DEF LockTimeoracleLock, SessionExpires, vars, Start, StartServer, Run, AdjustToClock, ReadLimit,
                AdjustToLimit, FetchAdd, zkVars, leaseVars, answerVars
  <2>2. QED
    BY <2>1, <1>1
<1>8. QED
  BY <1>2, <1>3, <1>4, <1>5, <1>6, <1>7 DEF Next

\* LeaseThread stores a limit before it is used: whatever the number of processes and
\* threads, and however clocks, sessions and the adjustment of start_timestamp_ go, no answer
\* reaches the highest limit that ZooKeeper has ever held.
THEOREM LeasesHold == Spec => []GrantsLeased
<1>1. Init => LeaseInv
  BY DEF Init, LeaseInv, GrantsLeased
<1>2. LeaseInv => GrantsLeased
  BY DEF LeaseInv
<1>3. QED
  BY <1>1, <1>2, LeaseStep, TypeCorrect, PTL DEF Spec

-----------------------------------------------------------------------------
\* Every step keeps the facts about which processes exist.
LEMMA BirthStep ==
  TypeOK /\ BirthInv /\ [Next]_vars => BirthInv'
<1> SUFFICES ASSUME TypeOK, BirthInv, [Next]_vars PROVE BirthInv' OBVIOUS
<1>1. CASE LockTimeoracleLock
  BY <1>1 DEF TypeOK, BirthInv, Live, Proc, LockTimeoracleLock, entryVars, zkVars, leaseVars, runVars, answerVars
<1>2. CASE SessionExpires
  BY <1>2 DEF TypeOK, BirthInv, Live, Proc, SessionExpires, entryVars, zkVars, leaseVars, runVars, answerVars
<1>3. ASSUME NEW p \in Proc, Start(p) PROVE BirthInv'
  BY <1>3 DEF TypeOK, BirthInv, Live, Proc, Start, Larger, entryVars, zkVars, leaseVars, runVars, answerVars
<1>4. ASSUME NEW p \in Proc, StartServer(p) PROVE BirthInv'
  BY <1>4 DEF TypeOK, BirthInv, Live, Proc, StartServer, entryVars, zkVars, leaseVars, runVars, answerVars
<1>5. ASSUME NEW p \in Proc, Exit(p) PROVE BirthInv'
  BY <1>5 DEF TypeOK, BirthInv, Live, Proc, Exit, entryVars, zkVars, leaseVars, runVars, answerVars
<1>6. ASSUME NEW p \in Proc, LeaseThread(p) PROVE BirthInv'
  BY <1>6 DEF TypeOK, BirthInv, Live, Proc, LeaseThread, Larger, entryVars, zkVars, leaseVars, runVars, answerVars
<1>7. ASSUME NEW p \in Proc, UpdateTimestamp(p) PROVE BirthInv'
  BY <1>7 DEF TypeOK, BirthInv, Live, Proc, UpdateTimestamp, Larger, entryVars, zkVars, leaseVars, runVars, answerVars
<1>8. ASSUME NEW p \in Proc, UpdateLimitTimestamp(p) PROVE BirthInv'
  BY <1>8 DEF TypeOK, BirthInv, Live, Proc, UpdateLimitTimestamp, Larger, entryVars, zkVars, leaseVars, runVars, answerVars
<1>9. ASSUME NEW p \in Proc, Run(p) PROVE BirthInv'
  BY <1>9 DEF TypeOK, BirthInv, Live, Proc, Run, entryVars, zkVars, leaseVars, runVars, answerVars
<1>10. ASSUME NEW p \in Proc, AdjustToClock(p) PROVE BirthInv'
  BY <1>10 DEF TypeOK, BirthInv, Live, Proc, AdjustToClock, entryVars, zkVars, leaseVars, runVars, answerVars
<1>11. ASSUME NEW p \in Proc, ReadLimit(p) PROVE BirthInv'
  <2>1. UNCHANGED <<pc, holder, born, limit_timestamp_, lease, granted, req>>
    BY <1>11 DEF ReadLimit, entryVars, leaseVars, answerVars
  <2>2. pc[p] = "serving" /\ \A q \in Proc : q # p => run'[q] = run[q]
    BY <1>11 DEF TypeOK, BirthInv, ReadLimit
  <2>3. QED
    BY <2>1, <2>2 DEF BirthInv, Live
<1>12. ASSUME NEW p \in Proc, AdjustToLimit(p) PROVE BirthInv'
  <2>1. UNCHANGED <<pc, holder, born, limit_timestamp_, lease, granted, req>>
    BY <1>12 DEF AdjustToLimit, entryVars, leaseVars, answerVars
  <2>2. pc[p] = "serving" /\ \A q \in Proc : q # p => run'[q] = run[q]
    BY <1>12 DEF TypeOK, BirthInv, AdjustToLimit
  <2>3. QED
    BY <2>1, <2>2 DEF BirthInv, Live
<1>13. ASSUME NEW p \in Proc, NEW t \in Thread, NEW n \in Count, FetchAdd(p, t, n) PROVE BirthInv'
  BY <1>13 DEF TypeOK, BirthInv, Live, Proc, FetchAdd, entryVars, zkVars, leaseVars, runVars, answerVars
<1>14. ASSUME NEW p \in Proc, NEW r \in req[p], GetTimestamp(p, r) PROVE BirthInv'
  BY <1>14 DEF TypeOK, BirthInv, Live, Proc, GetTimestamp, entryVars, zkVars, leaseVars, runVars, answerVars
<1>15. CASE UNCHANGED vars
  BY <1>15 DEF TypeOK, BirthInv, Live, Proc, vars, entryVars, zkVars, leaseVars, runVars, answerVars
<1>16. QED
  BY <1>1, <1>2, <1>3, <1>4, <1>5, <1>6, <1>7, <1>8, <1>9, <1>10, <1>11, <1>12, <1>13, <1>14, <1>15 DEF Next

\* As long as start_timestamp_ is never set back, every step keeps the order of the ranges.
LEMMA OrderStep ==
  TypeOK /\ TypeOK' /\ BirthInv /\ OrderInv /\ [Next]_vars /\ ~lowered' => OrderInv'
<1> SUFFICES ASSUME TypeOK, TypeOK', BirthInv, OrderInv, [Next]_vars, ~lowered' PROVE OrderInv' OBVIOUS
<1>1. CASE LockTimeoracleLock
  BY <1>1 DEF TypeOK, BirthInv, OrderInv, RangeInv, Below, Live, LockTimeoracleLock, entryVars, zkVars, leaseVars, runVars, answerVars
<1>2. CASE SessionExpires
  BY <1>2 DEF TypeOK, BirthInv, OrderInv, RangeInv, Below, Live, SessionExpires, entryVars, zkVars, leaseVars, runVars, answerVars
<1>3. ASSUME NEW p \in Proc, Start(p) PROVE OrderInv'
  BY <1>3, SMTT(30) DEF TypeOK, BirthInv, OrderInv, RangeInv, Below, Live, Start, Larger, entryVars, zkVars, leaseVars, runVars, answerVars
<1>4. ASSUME NEW p \in Proc, StartServer(p) PROVE OrderInv'
  BY <1>4, SMTT(30) DEF TypeOK, BirthInv, OrderInv, RangeInv, Below, Live, StartServer, entryVars, zkVars, leaseVars, runVars, answerVars
<1>5. ASSUME NEW p \in Proc, Exit(p) PROVE OrderInv'
  <2>1. UNCHANGED <<stored, granted, twice>>
    BY <1>5 DEF Exit, zkVars, answerVars
  <2>2. pc'[p] = "dead" /\ limit_timestamp_'[p] = 0 /\ lease'[p] = "quit"
    BY <1>5 DEF TypeOK, Exit
  <2>3. \A q \in Proc : q # p => /\ pc'[q] = pc[q] /\ limit_timestamp_'[q] = limit_timestamp_[q]
                                  /\ lease'[q] = lease[q] /\ next'[q] = next[q]
                                  /\ startup_timestamp_'[q] = startup_timestamp_[q]
                                  /\ start_timestamp_'[q] = start_timestamp_[q] /\ req'[q] = req[q]
    BY <1>5 DEF TypeOK, Exit
  <2>4. \A q \in Proc : Live(q)' => q # p /\ Live(q)
    BY <2>2, <2>3 DEF Live
  <2>5. ASSUME NEW q \in Proc, NEW b \in Nat, Below(q, b)
        PROVE  /\ limit_timestamp_'[q] <= b /\ (lease'[q] = "update" => next'[q] <= b)
               /\ \A x \in granted'[q] : x < b
    BY <2>1, <2>2, <2>3, <2>5 DEF Below
  <2>6. (\A q \in Proc : Below(q, stored))'
    BY <2>1, <2>5 DEF OrderInv, Below, TypeOK
  <2>7. (\A q \in Proc : Live(q) => RangeInv(q))'
    BY <2>1, <2>3, <2>4 DEF OrderInv, RangeInv
  <2>8. (\A a, q \in Proc : Live(a) /\ q < a => Below(q, startup_timestamp_[a]))'
    <3> SUFFICES ASSUME NEW a \in Proc, NEW q \in Proc, Live(a)', q < a
                 PROVE  Below(q, startup_timestamp_[a])'
      OBVIOUS
    <3>1. startup_timestamp_'[a] = startup_timestamp_[a] /\ startup_timestamp_[a] \in Nat
      BY <2>3, <2>4 DEF TypeOK
    <3>2. Below(q, startup_timestamp_[a])
      BY <2>4 DEF OrderInv
    <3>3. QED
      BY <2>5, <3>1, <3>2 DEF Below
  <2>9. (\A a, q \in Proc : q < a => \A x \in granted[a] :
           limit_timestamp_[q] <= x /\ (lease[q] = "update" => next[q] <= x))'
    <3> SUFFICES ASSUME NEW a \in Proc, NEW q \in Proc, q < a, NEW x \in granted[a]
                 PROVE  limit_timestamp_'[q] <= x /\ (lease'[q] = "update" => next'[q] <= x)
      BY <2>1
    <3>1. x \in Nat /\ limit_timestamp_[q] <= x /\ (lease[q] = "update" => next[q] <= x)
      BY DEF OrderInv, TypeOK
    <3>2. QED
      BY <2>2, <2>3, <3>1
  <2>10. QED
    BY <2>1, <2>6, <2>7, <2>8, <2>9 DEF OrderInv
<1>6. ASSUME NEW p \in Proc, LeaseThread(p) PROVE OrderInv'
  <2>1. Lease \in Nat
    BY OracleAssumption
  <2>2. next'[p] = Larger(limit_timestamp_[p], start_timestamp_[p]) + Lease /\ lease'[p] = "write"
    BY <1>6 DEF TypeOK, LeaseThread
  <2>3. \A q \in Proc : q # p => next'[q] = next[q] /\ lease'[q] = lease[q]
    BY <1>6 DEF TypeOK, LeaseThread
  <2>4. UNCHANGED <<pc, stored, startup_timestamp_, start_timestamp_, limit_timestamp_, req, granted, twice>>
    BY <1>6 DEF LeaseThread, entryVars, zkVars, answerVars
  <2>5. limit_timestamp_[p] <= next'[p] /\ start_timestamp_[p] <= next'[p]
    BY <2>1, <2>2 DEF TypeOK, Larger
  <2>7. \A q \in Proc : RangeInv(q) => RangeInv(q)'
    BY <2>2, <2>3, <2>4, <2>5 DEF TypeOK, RangeInv
  <2>8. \A q \in Proc : lease'[q] = "update" => lease[q] = "update" /\ next'[q] = next[q]
    BY <2>2, <2>3
  <2>9. QED
    BY <2>4, <2>7, <2>8 DEF OrderInv, Live, Below
<1>7. ASSUME NEW p \in Proc, UpdateTimestamp(p) PROVE OrderInv'
  <2>1. UNCHANGED <<pc, next, startup_timestamp_, start_timestamp_, limit_timestamp_, req, granted, twice>>
    BY <1>7 DEF UpdateTimestamp, entryVars, answerVars
  <2>2. \A q \in Proc : q # p => lease'[q] = lease[q]
    BY <1>7 DEF TypeOK, UpdateTimestamp
  <2>3. CASE stored' = stored /\ lease'[p] = "quit"
    <3>1. \A q \in Proc : lease'[q] \in {"write", "update"} => lease'[q] = lease[q]
      BY <2>2, <2>3
    <3>2. \A q \in Proc : RangeInv(q) => RangeInv(q)'
      BY <2>1, <3>1 DEF RangeInv
    <3>3. QED
      BY <2>1, <2>3, <3>1, <3>2 DEF OrderInv, Live, Below
  <2>4. CASE holder = p /\ stored' = next[p] /\ lease'[p] \in {"update", "quit"}
    <3>1. Live(p) /\ lease[p] = "write" /\ RangeInv(p) /\ p = born
      BY <1>7, <2>4 DEF UpdateTimestamp, OrderInv, BirthInv, Proc
    <3>2. \A q \in Proc : q <= p \/ (pc[q] = "none" /\ granted[q] = {} /\ limit_timestamp_[q] = 0 /\ lease[q] # "update")
      BY <3>1 DEF BirthInv, TypeOK, Live, Proc
    <3>3. startup_timestamp_[p] <= stored' /\ limit_timestamp_[p] <= stored'
      BY <2>4, <3>1 DEF RangeInv
    <3>4. \A q \in Proc : Below(q, stored)'
      <4> SUFFICES ASSUME NEW q \in Proc PROVE Below(q, stored)' OBVIOUS
      <4>1. CASE q = p
        <5>1. \A x \in granted[p] : x \in Nat /\ x < limit_timestamp_[p]
          BY <3>1 DEF RangeInv, TypeOK
        <5>2. QED
          BY <4>1, <5>1, <2>1, <2>4, <3>3 DEF Below, TypeOK
      <4>2. CASE q < p
        <5>1. Below(q, startup_timestamp_[p])
          BY <4>2, <3>1 DEF OrderInv
        <5>2. \A x \in granted[q] : x \in Nat
          BY DEF TypeOK
        <5>3. lease'[q] = lease[q]
          <6>1. q # p
            BY <4>2 DEF Proc
          <6>2. QED
            BY <6>1, <2>2
        <5>4. QED
          BY <5>1, <5>2, <5>3, <2>1, <3>3 DEF Below, TypeOK
      <4>3. CASE ~(q <= p)
        BY <4>3, <3>2, <2>1, <2>2, <3>1 DEF Below, TypeOK, Proc
      <4>4. QED
        BY <4>1, <4>2, <4>3 DEF Proc
    <3>5. \A q \in Proc : RangeInv(q) => RangeInv(q)'
      BY <2>1, <2>2, <3>1 DEF RangeInv
    <3>6. \A a, q \in Proc : Live(a)' /\ q < a => Below(q, startup_timestamp_[a])'
      <4> SUFFICES ASSUME NEW a \in Proc, NEW q \in Proc, Live(a), q < a
                   PROVE Below(q, startup_timestamp_[a])'
        BY <2>1 DEF Live
      <4>1. q # p
        BY <3>2 DEF Live, Proc
      <4>2. QED
        BY <4>1, <2>1, <2>2 DEF OrderInv, Below
    <3>7. \A a, q \in Proc : q < a => \A x \in granted'[a] :
             limit_timestamp_'[q] <= x /\ (lease'[q] = "update" => next'[q] <= x)
      <4> SUFFICES ASSUME NEW a \in Proc, NEW q \in Proc, q < a, NEW x \in granted[a]
                   PROVE limit_timestamp_[q] <= x /\ (lease'[q] = "update" => next[q] <= x)
        BY <2>1
      <4>1. q # p
        BY <3>2 DEF Proc
      <4>2. QED
        BY <4>1, <2>2 DEF OrderInv
    <3>8. QED
      BY <2>1, <3>4, <3>5, <3>6, <3>7 DEF OrderInv, Live
  <2>5. QED
    BY <1>7, <2>3, <2>4 DEF UpdateTimestamp, zkVars, TypeOK
<1>8. ASSUME NEW p \in Proc, UpdateLimitTimestamp(p) PROVE OrderInv'
  <2>1. UNCHANGED <<pc, startup_timestamp_, stored, next, start_timestamp_, req, granted, twice>>
    BY <1>8 DEF UpdateLimitTimestamp, entryVars, zkVars, answerVars
  <2>2. Live(p) /\ lease[p] = "update" /\ lease'[p] = "idle"
    BY <1>8 DEF TypeOK, UpdateLimitTimestamp
  <2>3. RangeInv(p) /\ limit_timestamp_'[p] = next[p]
    <3>1. RangeInv(p)
      BY <2>2 DEF OrderInv
    <3>2. limit_timestamp_[p] <= next[p] /\ limit_timestamp_[p] \in Nat /\ next[p] \in Nat
      BY <2>2, <3>1 DEF TypeOK, RangeInv
    <3>3. limit_timestamp_'[p] = Larger(limit_timestamp_[p], next[p])
      BY <1>8 DEF TypeOK, UpdateLimitTimestamp
    <3>4. QED
      BY <3>1, <3>2, <3>3 DEF Larger
  <2>4. \A q \in Proc : q # p => limit_timestamp_'[q] = limit_timestamp_[q] /\ lease'[q] = lease[q]
    BY <1>8 DEF TypeOK, UpdateLimitTimestamp
  <2>5. ASSUME NEW q \in Proc, NEW b, Below(q, b)
        PROVE  /\ limit_timestamp_'[q] <= b /\ (lease'[q] = "update" => next[q] <= b)
               /\ \A x \in granted[q] : x < b
    BY <2>2, <2>3, <2>4, <2>5 DEF Below
  <2>6. (\A q \in Proc : Below(q, stored))'
    BY <2>1, <2>5 DEF OrderInv, Below
  <2>7. (\A a, q \in Proc : Live(a) /\ q < a => Below(q, startup_timestamp_[a]))'
    BY <2>1, <2>5 DEF OrderInv, Below, Live
  <2>8. (\A a, q \in Proc : q < a => \A x \in granted[a] :
           limit_timestamp_[q] <= x /\ (lease[q] = "update" => next[q] <= x))'
    BY <2>1, <2>2, <2>3, <2>4 DEF OrderInv
  <2>9. ASSUME NEW q \in Proc, Live(q) PROVE RangeInv(q)'
    <3>1. CASE q # p
      BY <3>1, <2>1, <2>4, <2>9 DEF OrderInv, RangeInv
    <3>2. CASE q = p
      BY <3>2, <2>1, <2>2, <2>3 DEF TypeOK, RangeInv
    <3>3. QED
      BY <3>1, <3>2
  <2>10. QED
    BY <2>1, <2>6, <2>7, <2>8, <2>9 DEF OrderInv, Live
<1>9. ASSUME NEW p \in Proc, Run(p) PROVE OrderInv'
  BY <1>9 DEF TypeOK, BirthInv, OrderInv, RangeInv, Below, Live, Run, entryVars, zkVars, leaseVars, runVars, answerVars
<1>10. ASSUME NEW p \in Proc, AdjustToClock(p) PROVE OrderInv'
  <2>1. UNCHANGED <<pc, startup_timestamp_, stored, lease, next, limit_timestamp_, req, granted, twice>>
    BY <1>10 DEF AdjustToClock, entryVars, zkVars, leaseVars, answerVars
  <2>2. \A q \in Proc : start_timestamp_[q] <= start_timestamp_'[q]
    BY <1>10 DEF TypeOK, AdjustToClock
  <2>3. ASSUME NEW q \in Proc, RangeInv(q) PROVE RangeInv(q)'
    BY <2>1, <2>2, <2>3, SMTT(30) DEF TypeOK, RangeInv
  <2>4. QED
    BY <2>1, <2>3 DEF OrderInv, Below, Live
<1>11. ASSUME NEW p \in Proc, ReadLimit(p) PROVE OrderInv'
  BY <1>11 DEF TypeOK, BirthInv, OrderInv, RangeInv, Below, Live, ReadLimit, entryVars, zkVars, leaseVars, runVars, answerVars
<1>12. ASSUME NEW p \in Proc, AdjustToLimit(p) PROVE OrderInv'
  BY <1>12 DEF TypeOK, BirthInv, OrderInv, RangeInv, Below, Live, AdjustToLimit, entryVars, zkVars, leaseVars, runVars, answerVars
<1>13. ASSUME NEW p \in Proc, NEW t \in Thread, NEW n \in Count, FetchAdd(p, t, n) PROVE OrderInv'
  <2> DEFINE new == [thread |-> t, from |-> start_timestamp_[p], to |-> start_timestamp_[p] + n]
  <2>1. n \in Nat
    BY OracleAssumption
  <2>2. UNCHANGED <<pc, stored, lease, next, startup_timestamp_, limit_timestamp_, granted, twice>>
    BY <1>13 DEF FetchAdd, entryVars, zkVars, leaseVars, answerVars
  <2>3. start_timestamp_'[p] = start_timestamp_[p] + n /\ req'[p] = req[p] \cup {new}
    BY <1>13 DEF FetchAdd, TypeOK
  <2>4. \A q \in Proc : q # p => start_timestamp_'[q] = start_timestamp_[q] /\ req'[q] = req[q]
    BY <1>13 DEF FetchAdd, TypeOK
  <2>5. new.from = start_timestamp_[p] /\ new.to = start_timestamp_[p] + n
    OBVIOUS
  <2>6. ASSUME RangeInv(p) PROVE RangeInv(p)'
    <3> HIDE DEF new
    <3>1. \A x \in granted[p] : x \in Nat
      BY DEF TypeOK
    <3>2. \A r \in req[p] : r.from \in Nat /\ r.to \in Nat
      BY DEF TypeOK
    <3>3. startup_timestamp_[p] \in Nat /\ start_timestamp_[p] \in Nat
      BY DEF TypeOK
    <3>4. \A x \in granted[p] : x < start_timestamp_'[p]
      BY <2>1, <2>3, <2>6, <3>1, <3>3 DEF RangeInv
    <3>5. \A r \in req'[p] : /\ startup_timestamp_[p] <= r.from /\ r.from <= r.to
                             /\ r.to <= start_timestamp_'[p]
                             /\ \A x \in granted[p] : x < r.from \/ r.to <= x
      BY <2>1, <2>3, <2>5, <2>6, <3>2, <3>3 DEF RangeInv
    <3>6. \A r, s \in req'[p] : r = s \/ r.to <= s.from \/ s.to <= r.from
      BY <2>1, <2>3, <2>5, <2>6, <3>2, <3>3 DEF RangeInv
    <3>7. startup_timestamp_[p] <= start_timestamp_'[p]
      BY <2>1, <2>3, <2>6, <3>3, SMTT(30) DEF RangeInv
    <3>8. QED
      BY <2>2, <2>6, <3>4, <3>5, <3>6, <3>7 DEF RangeInv
  <2>7. \A q \in Proc : RangeInv(q) => RangeInv(q)'
    <3>1. ASSUME NEW q \in Proc, q # p, RangeInv(q) PROVE RangeInv(q)'
      BY <3>1, <2>2, <2>4 DEF RangeInv
    <3>2. QED
      BY <3>1, <2>6
  <2>8. QED
    BY <2>2, <2>7 DEF OrderInv, Live, Below
<1>14. ASSUME NEW p \in Proc, NEW r \in req[p], GetTimestamp(p, r) PROVE OrderInv'
  <2> DEFINE range == IF Granted(p, r) THEN r.from..(r.to - 1) ELSE {}
  <2>1. UNCHANGED <<pc, stored, lease, next, startup_timestamp_, start_timestamp_, limit_timestamp_>>
    BY <1>14 DEF GetTimestamp, entryVars, zkVars, leaseVars
  <2>2. /\ req'[p] = req[p] \ {r} /\ granted'[p] = granted[p] \cup range
        /\ \A q \in Proc : q # p => req'[q] = req[q] /\ granted'[q] = granted[q]
    BY <1>14, SMTT(30) DEF GetTimestamp, TypeOK
  <2>3. Live(p) /\ RangeInv(p)
    BY DEF BirthInv, OrderInv, Live
  <2>4. \A s \in req[p] : s.from \in Nat /\ s.to \in Nat
    BY DEF TypeOK
  <2>5. /\ startup_timestamp_[p] \in Nat /\ start_timestamp_[p] \in Nat /\ stored \in Nat
        /\ \A q \in Proc : limit_timestamp_[q] \in Nat /\ next[q] \in Nat /\ \A x \in granted[q] : x \in Nat
    BY DEF TypeOK
  <2>6. \A x \in range : /\ x \in Nat /\ r.from <= x /\ x < r.to
                         /\ startup_timestamp_[p] <= x /\ x < start_timestamp_[p] /\ x < limit_timestamp_[p]
    BY <2>3, <2>4, <2>5 DEF RangeInv, Granted
  <2> HIDE DEF range
  <2>7. \A q \in Proc : \A x \in range : x \notin granted[q]
    <3> SUFFICES ASSUME NEW q \in Proc, NEW x \in range, x \in granted[q] PROVE FALSE OBVIOUS
    <3>1. CASE q = p
      BY <3>1, <2>3, <2>4, <2>5, <2>6 DEF RangeInv
    <3>2. CASE q < p
      <4>1. Below(q, startup_timestamp_[p])
        BY <3>2, <2>3 DEF OrderInv
      <4>2. QED
        BY <4>1, <2>5, <2>6, SMTT(30) DEF Below
    <3>3. CASE p < q
      <4>1. limit_timestamp_[p] <= x
        BY <3>3 DEF OrderInv
      <4>2. QED
        BY <4>1, <2>5, <2>6
    <3>4. QED
      BY <3>1, <3>2, <3>3 DEF Proc
  <2>8. twice' = {}
    <3>1. twice' = twice \cup {x \in range : \E q \in Proc : x \in granted[q]}
      BY <1>14 DEF GetTimestamp, range
    <3>2. QED
      BY <3>1, <2>7 DEF OrderInv
  <2>11. \A q \in Proc : Below(q, stored)'
    <3> SUFFICES ASSUME NEW q \in Proc PROVE Below(q, stored)' OBVIOUS
    <3>1. Below(q, stored) /\ limit_timestamp_[p] <= stored
      BY DEF OrderInv, Below
    <3>2. \A x \in granted'[q] : x < stored
      BY <3>1, <2>2, <2>5, <2>6 DEF Below
    <3>3. QED
      BY <3>1, <3>2, <2>1 DEF Below
  <2>12. RangeInv(p)'
    <3>1. \A x \in granted'[p] : x < start_timestamp_[p] /\ x < limit_timestamp_[p]
      BY <2>2, <2>3, <2>6 DEF RangeInv
    <3>2. ASSUME NEW s \in req'[p], NEW x \in granted'[p] PROVE x < s.from \/ s.to <= x
      <4>1. s \in req[p] /\ s # r
        BY <3>2, <2>2
      <4>2. CASE x \in granted[p]
        BY <4>1, <4>2, <2>3 DEF RangeInv
      <4>3. CASE x \in range
        <5>1. r.to <= s.from \/ s.to <= r.from
          BY <4>1, <2>3 DEF RangeInv
        <5>2. QED
          BY <4>1, <4>3, <5>1, <2>4, <2>6
      <4>4. QED
        BY <4>2, <4>3, <3>2, <2>2
    <3>3. req'[p] \subseteq req[p]
      BY <2>2
    <3>4. QED
      BY <3>1, <3>2, <3>3, <2>1, <2>3 DEF RangeInv
  <2>13. \A q \in Proc : Live(q)' => RangeInv(q)'
    <3>1. \A q \in Proc : q # p /\ RangeInv(q) => RangeInv(q)'
      BY <2>1, <2>2 DEF RangeInv
    <3>2. QED
      BY <3>1, <2>1, <2>12 DEF OrderInv, Live
  <2>14. \A a, q \in Proc : Live(a)' /\ q < a => Below(q, startup_timestamp_[a])'
    <3> SUFFICES ASSUME NEW a \in Proc, NEW q \in Proc, Live(a), q < a
                 PROVE Below(q, startup_timestamp_[a])'
      BY <2>1 DEF Live
    <3>1. Below(q, startup_timestamp_[a]) /\ startup_timestamp_[a] \in Nat
      BY DEF OrderInv, TypeOK
    <3>2. \A x \in granted'[q] : x < startup_timestamp_[a]
      <4>1. CASE q # p
        BY <4>1, <3>1, <2>2 DEF Below
      <4>2. CASE q = p
        BY <4>2, <3>1, <2>2, <2>5, <2>6 DEF Below
      <4>3. QED
        BY <4>1, <4>2
    <3>3. QED
      BY <3>1, <3>2, <2>1 DEF Below
  <2>15. \A a, q \in Proc : q < a => \A x \in granted'[a] :
            limit_timestamp_'[q] <= x /\ (lease'[q] = "update" => next'[q] <= x)
    <3> SUFFICES ASSUME NEW a \in Proc, NEW q \in Proc, q < a, NEW x \in granted'[a]
                 PROVE limit_timestamp_[q] <= x /\ (lease[q] = "update" => next[q] <= x)
      BY <2>1
    <3>1. CASE x \in granted[a]
      BY <3>1 DEF OrderInv
    <3>2. CASE a = p /\ x \in range
      <4>1. Below(q, startup_timestamp_[p])
        BY <3>2, <2>3 DEF OrderInv
      <4>2. QED
        BY <4>1, <3>2, <2>5, <2>6 DEF Below
    <3>3. QED
      BY <3>1, <3>2, <2>2
  <2>16. QED
    BY <2>8, <2>11, <2>13, <2>14, <2>15 DEF OrderInv
<1>15. CASE UNCHANGED vars
  BY <1>15 DEF TypeOK, BirthInv, OrderInv, RangeInv, Below, Live, vars, entryVars, zkVars, leaseVars, runVars, answerVars
<1>16. QED
  BY <1>1, <1>2, <1>3, <1>4, <1>5, <1>6, <1>7, <1>8, <1>9, <1>10, <1>11, <1>12, <1>13, <1>14, <1>15 DEF Next

\* Whatever the number of processes, threads and clients, and with processes that go on after
\* their lock was taken over: unless UpdateStartTimestamp sets start_timestamp_ back to the
\* limit, GetTimestamp never answers with the same timestamp twice.
THEOREM UniqueTimestamps == Spec => []UniqueUnlessLowered
<1>1. Init => BirthInv /\ OrderInv
  BY OracleAssumption DEF Init, BirthInv, OrderInv, Below, Live, Proc
<1> DEFINE Inv == BirthInv /\ (~lowered => OrderInv)
<1>2. TypeOK /\ TypeOK' /\ Inv /\ [Next]_vars => Inv'
  <2> SUFFICES ASSUME TypeOK, TypeOK', Inv, [Next]_vars PROVE Inv' OBVIOUS
  <2>1. BirthInv'
    BY BirthStep
  <2>2. lowered => lowered'
    <3>1. CASE LockTimeoracleLock \/ SessionExpires \/ UNCHANGED vars
      BY <3>1 DEF LockTimeoracleLock, SessionExpires, vars, runVars
    <3>2. ASSUME NEW p \in Proc, Start(p) \/ StartServer(p) \/ Exit(p) PROVE lowered => lowered'
      BY <3>2 DEF Start, StartServer, Exit, runVars
    <3>3. ASSUME NEW p \in Proc, LeaseThread(p) \/ UpdateTimestamp(p) \/ UpdateLimitTimestamp(p)
          PROVE  lowered => lowered'
      BY <3>3 DEF LeaseThread, UpdateTimestamp, UpdateLimitTimestamp, runVars
    <3>4. ASSUME NEW p \in Proc, Run(p) \/ AdjustToClock(p) \/ ReadLimit(p)
          PROVE  lowered => lowered'
      BY <3>4 DEF Run, AdjustToClock, ReadLimit
    <3>5. ASSUME NEW p \in Proc, AdjustToLimit(p) PROVE lowered => lowered'
      BY <3>5 DEF AdjustToLimit
    <3>6. ASSUME NEW p \in Proc, NEW t \in Thread, NEW n \in Count, FetchAdd(p, t, n)
          PROVE  lowered => lowered'
      BY <3>6 DEF FetchAdd, runVars
    <3>7. ASSUME NEW p \in Proc, NEW r \in req[p], GetTimestamp(p, r) PROVE lowered => lowered'
      BY <3>7 DEF GetTimestamp, runVars
    <3>8. QED
      BY <3>1, <3>2, <3>3, <3>4, <3>5, <3>6, <3>7 DEF Next
  <2>3. ~lowered' => OrderInv'
    BY <2>2, OrderStep
  <2>4. QED
    BY <2>1, <2>3
<1>3. Inv => UniqueUnlessLowered
  BY DEF OrderInv, UniqueUnlessLowered
<1>4. QED
  BY <1>1, <1>2, <1>3, TypeCorrect, PTL DEF Spec
=============================================================================
