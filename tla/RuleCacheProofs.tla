-------------------------- MODULE RuleCacheProofs ---------------------------
(***************************************************************************)
(* The types of RuleCache, the freshness of what redis caches, what each   *)
(* worker process keeps, and the requests it answers, for any number of    *)
(* threads, processes, writers, versions and commits.                      *)
(***************************************************************************)
EXTENDS RuleCache, TLAPS

\* CommitTo only ever adds to the stamps, within the bound.
LEMMA CommitGrows ==
    ASSUME db \in Snapshots, NEW X, CommitTo(X)
    PROVE  db' \in Snapshots /\ Covers(db', db)
BY RuleCacheConstants DEF CommitTo, Snapshots, Tables, Covers

\* An invalidation leaves the version and its history well typed.
LEMMA InvalidateType ==
    ASSUME TypeOK, Invalidate
    PROVE  version' \in Versions /\ published' \in [Versions -> Snapshots]
<1>1. /\ db \in Snapshots /\ version \in 0..MaxVersion
      /\ published \in [Versions -> Snapshots]
  BY Zenon DEF TypeOK, Versions
<1>2. CASE version < MaxVersion /\ version' = version + 1
                /\ published' = [published EXCEPT ![version + 1] = db]
  <2>1. version + 1 \in 0..MaxVersion
    BY <1>1, <1>2, RuleCacheConstants
  <2> QED BY <1>1, <1>2, <2>1, Zenon DEF Versions
<1>3. CASE UNCHANGED <<version, published>>
  BY <1>1, <1>3, Zenon DEF Versions
<1> QED BY <1>2, <1>3, Zenon DEF Invalidate

\* The end of a load resets its locals to values of their types.
LEMMA EndLoadType ==
    ASSUME TypeOK, NEW T, NEW s \in Snapshots \cup {None}, EndLoad(T, s)
    PROVE  /\ pc' \in [Threads -> LoadSteps]
           /\ ver' \in [Threads -> Versions]
           /\ snap' \in [Threads -> Snapshots]
           /\ locked' \in [Threads -> BOOLEAN]
           /\ tries' \in [Threads -> 0..LockRetries]
           /\ served' \in [Threads -> Snapshots \cup {None}]
<1>1. 0 \in Versions /\ Zero \in Snapshots /\ 0 \in 0..LockRetries /\ "idle" \in LoadSteps
  BY RuleCacheConstants DEF Versions, Snapshots, Zero, LoadSteps
<1>2. pc' \in [Threads -> LoadSteps] /\ ver' \in [Threads -> Versions]
  BY <1>1, Zenon DEF TypeOK, EndLoad
<1>3. snap' \in [Threads -> Snapshots] /\ tries' \in [Threads -> 0..LockRetries]
  BY <1>1, Zenon DEF TypeOK, EndLoad
<1>4. locked' \in [Threads -> BOOLEAN]
  BY Zenon DEF TypeOK, EndLoad
<1>5. served' \in [Threads -> Snapshots \cup {None}]
  BY Zenon DEF TypeOK, EndLoad
<1> QED BY <1>2, <1>3, <1>4, <1>5, Zenon

\* The initial state is well typed.
LEMMA InitType == Init => TypeOK
<1> SUFFICES ASSUME Init PROVE TypeOK
  BY Zenon
<1>1. 0 \in Versions /\ Zero \in Snapshots /\ 0 \in 0..LockRetries
  BY RuleCacheConstants DEF Versions, Snapshots, Zero
<1>2. db \in Snapshots /\ version \in Versions /\ lock \in BOOLEAN
      /\ cache \in [Versions -> Snapshots \cup {None}]
      /\ published \in [Versions -> Snapshots]
  BY <1>1, Zenon DEF Init
<1>3. pcache \in [Processes -> Snapshots \cup {None}]
      /\ pversion \in [Processes -> Versions \cup {-1}]
  BY Zenon DEF Init
<1>4. pc \in [Threads -> LoadSteps] /\ ver \in [Threads -> Versions]
      /\ snap \in [Threads -> Snapshots] /\ tries \in [Threads -> 0..LockRetries]
      /\ served \in [Threads -> Snapshots \cup {None}]
  BY <1>1, Zenon DEF Init, LoadSteps
<1>5. locked \in [Threads -> BOOLEAN] /\ wpc \in [Writers -> WriterSteps]
      /\ wrote \in [Writers -> SUBSET Tables]
  BY Zenon DEF Init, WriterSteps
<1> QED BY <1>2, <1>3, <1>4, <1>5, Zenon DEF TypeOK

\* One step of any action keeps every variable's type.
LEMMA StepType == TypeOK /\ [Next]_vars => TypeOK'
<1> SUFFICES ASSUME TypeOK, [Next]_vars PROVE TypeOK'
  BY Zenon
<1>1. CASE UNCHANGED vars
  BY <1>1, Zenon DEF TypeOK, vars, redisVars, procVars, loadVars, writerVars
<1>2. ASSUME NEW w \in Writers, NEW x \in Tables, Save(w, x) PROVE TypeOK'
  <2>1. db' \in Snapshots
    BY <1>2, CommitGrows, Zenon DEF Save, TypeOK
  <2> QED BY <1>2, <2>1, Zenon DEF Save, GoWriter, TypeOK, WriterSteps, redisVars, procVars, loadVars
<1>3. ASSUME NEW w \in Writers, NEW x \in Tables, AtomicWrite(w, x) PROVE TypeOK'
  BY <1>3, Zenon DEF AtomicWrite, GoWriter, TypeOK, WriterSteps, redisVars, procVars, loadVars
<1>4. ASSUME NEW w \in Writers, NEW x \in Tables, BulkUpdate(w, x) PROVE TypeOK'
  <2>1. db' \in Snapshots
    BY <1>4, CommitGrows, Zenon DEF BulkUpdate, TypeOK
  <2> QED BY <1>4, <2>1, Zenon DEF BulkUpdate, TypeOK, redisVars, procVars, loadVars, writerVars
<1>5. ASSUME NEW w \in Writers, Announce(w) PROVE TypeOK'
  <2>1. version' \in Versions /\ published' \in [Versions -> Snapshots]
    BY <1>5, InvalidateType, Zenon DEF Announce
  <2> QED BY <1>5, <2>1, Zenon DEF Announce, GoWriter, TypeOK, WriterSteps, procVars, loadVars
<1>6. ASSUME NEW w \in Writers, AtomicSignal(w) PROVE TypeOK'
  <2>1. version' \in Versions /\ published' \in [Versions -> Snapshots]
    BY <1>6, InvalidateType, Zenon DEF AtomicSignal
  <2> QED BY <1>6, <2>1, Zenon DEF AtomicSignal, GoWriter, TypeOK, WriterSteps, procVars, loadVars
<1>7. ASSUME NEW w \in Writers, AtomicCommit(w) PROVE TypeOK'
  <2>1. db' \in Snapshots
    BY <1>7, CommitGrows, Zenon DEF AtomicCommit, TypeOK
  <2> QED BY <1>7, <2>1, Zenon DEF AtomicCommit, GoWriter, TypeOK, WriterSteps, redisVars, procVars, loadVars
<1>8. ASSUME NEW w \in Writers, AtomicRollback(w) PROVE TypeOK'
  BY <1>8, Zenon DEF AtomicRollback, GoWriter, TypeOK, WriterSteps, redisVars, procVars, loadVars
<1>9. ASSUME NEW w \in Writers, ExpireBlockRules(w) PROVE TypeOK'
  <2>1. PICK X \in SUBSET {"block"} : CommitTo(X) /\ GoWriter(w, "expireAllow", X)
    BY <1>9, Zenon DEF ExpireBlockRules
  <2>2. db' \in Snapshots
    BY <2>1, CommitGrows, Zenon DEF TypeOK
  <2>3. wpc' \in [Writers -> WriterSteps] /\ wrote' \in [Writers -> SUBSET Tables]
    BY <2>1, Zenon DEF GoWriter, TypeOK, WriterSteps, Tables
  <2> QED BY <1>9, <2>2, <2>3, Zenon DEF ExpireBlockRules, TypeOK, redisVars, procVars, loadVars
<1>10. ASSUME NEW w \in Writers, ExpireAllowRules(w) PROVE TypeOK'
  <2>1. PICK X \in SUBSET {"allow"} :
           /\ CommitTo(X)
           /\ \/ GoWriter(w, "idle", {})
              \/ GoWriter(w, "announce", wrote[w] \cup X)
    BY <1>10, Zenon DEF ExpireAllowRules
  <2>2. db' \in Snapshots
    BY <2>1, CommitGrows, Zenon DEF TypeOK
  <2>3. wpc' \in [Writers -> WriterSteps] /\ wrote' \in [Writers -> SUBSET Tables]
    BY <2>1, ZenonT(60) DEF GoWriter, TypeOK, WriterSteps, Tables
  <2> QED BY <1>10, <2>2, <2>3, Zenon DEF ExpireAllowRules, TypeOK, redisVars, procVars, loadVars
<1>11. ASSUME NEW t \in Threads,
              GetVersion(t) \/ CheckProcessCache(t) \/ FetchCached(t)
       PROVE  TypeOK'
  BY <1>11 DEF GetVersion, CheckProcessCache, FetchCached, Go, TypeOK, LoadSteps,
               redisVars, procVars, writerVars
<1>12. ASSUME NEW t \in Threads,
              AcquireLock(t) \/ RetryLock(t) \/ ProceedWithoutLock(t)
       PROVE  TypeOK'
  <2>1. tries' \in [Threads -> 0..LockRetries]
    BY <1>12, RuleCacheConstants DEF AcquireLock, RetryLock, ProceedWithoutLock, TypeOK
  <2>2. pc' \in [Threads -> LoadSteps] /\ lock' \in BOOLEAN
        /\ locked' \in [Threads -> BOOLEAN]
    BY <1>12, Zenon DEF AcquireLock, RetryLock, ProceedWithoutLock, Go, TypeOK, LoadSteps, redisVars
  <2> QED BY <1>12, <2>1, <2>2, Zenon
          DEF AcquireLock, RetryLock, ProceedWithoutLock, TypeOK,
              redisVars, procVars, writerVars
<1>13. ASSUME NEW t \in Threads,
              ReadBlockRules(t) \/ ReadAllowRules(t) \/ StoreCache(t)
       PROVE  TypeOK'
  <2>1. [Zero EXCEPT !["block"] = db["block"]] \in Snapshots
        /\ [snap[t] EXCEPT !["allow"] = db["allow"]] \in Snapshots
    BY RuleCacheConstants DEF TypeOK, Snapshots, Tables, Zero
  <2>2. snap' \in [Threads -> Snapshots]
    BY <1>13, <2>1, Zenon DEF ReadBlockRules, ReadAllowRules, StoreCache, TypeOK
  <2> QED BY <1>13, <2>2, ZenonT(60)
          DEF ReadBlockRules, ReadAllowRules, StoreCache, Go, TypeOK, LoadSteps,
              redisVars, procVars, writerVars
<1>14. ASSUME NEW t \in Threads, ReleaseLock(t) \/ SetProcessCache(t) PROVE TypeOK'
  BY <1>14, RuleCacheConstants, ZenonT(60)
     DEF ReleaseLock, DeleteLock, SetProcessCache, Go, TypeOK, LoadSteps,
         redisVars, procVars, writerVars
<1>15. ASSUME NEW t \in Threads, ReturnProcessCache(t) PROVE TypeOK'
  <2>1. pcache[ProcOf[t]] \in Snapshots \cup {None}
    BY RuleCacheConstants, Zenon DEF TypeOK
  <2> QED BY <1>15, <2>1, EndLoadType, Zenon
          DEF ReturnProcessCache, TypeOK, redisVars, procVars, writerVars
<1>16. ASSUME NEW t \in Threads, SetProcessVersion(t) PROVE TypeOK'
  <2>1. snap[t] \in Snapshots \cup {None}
    BY Zenon DEF TypeOK
  <2> QED BY <1>16, <2>1, EndLoadType, RuleCacheConstants, Zenon
          DEF SetProcessVersion, TypeOK, redisVars, procVars, writerVars
<1>17. ASSUME NEW t \in Threads, LoadError(t) PROVE TypeOK'
  BY <1>17, EndLoadType, RuleCacheConstants, Zenon
     DEF LoadError, DeleteLock, TypeOK, procVars, writerVars
<1>18. ASSUME NEW v \in Versions, CacheExpires(v) PROVE TypeOK'
  BY <1>18, Zenon DEF CacheExpires, TypeOK, procVars, loadVars, writerVars
<1>19. CASE LockExpires
  BY <1>19, Zenon DEF LockExpires, TypeOK, procVars, loadVars, writerVars
<1>20. ASSUME NEW p \in Processes, Crash(p) PROVE TypeOK'
  BY <1>20, EndLoadType, RuleCacheConstants, Zenon DEF Crash, TypeOK, redisVars, writerVars
<1>21. CASE RedisLoss
  <2>1. 0 \in Versions
    BY RuleCacheConstants DEF Versions
  <2>2. version' \in Versions /\ cache' \in [Versions -> Snapshots \cup {None}]
        /\ published' \in [Versions -> Snapshots]
    BY <1>21, <2>1, Zenon DEF RedisLoss, TypeOK
  <2> QED BY <1>21, <2>2, Zenon DEF RedisLoss, TypeOK, procVars, loadVars, writerVars
<1> QED
  BY <1>1, <1>2, <1>3, <1>4, <1>5, <1>6, <1>7, <1>8, <1>9, <1>10, <1>11, <1>12,
     <1>13, <1>14, <1>15, <1>16, <1>17, <1>18, <1>19, <1>20, <1>21, Zenon
  DEF Next, WriterStep, LoadStep

\* Every variable keeps its type, whatever paths write and whatever fails.
THEOREM TypeCorrect == Spec => []TypeOK
BY InitType, StepType, PTL DEF Spec

----------------------------------------------------------------------------
(* What is cached is never older than the version it is cached under. *)

\* Redis keeps its data: it is neither flushed nor restarted empty.
KeepsRedis == "redis_loss" \notin Faults

\* Announcements are of committed contents, and only ever move forward.
History ==
    /\ \A v \in 0..version : Covers(db, published[v])
    /\ \A u, v \in 0..version : u <= v => Covers(published[v], published[u])

\* Nothing is tagged with a version number that was not yet assigned.
Tagged ==
    /\ \A t \in Threads : ver[t] <= version
    /\ \A p \in Processes : pversion[p] <= version
    /\ \A v \in Versions : v > version => cache[v] = None

\* Nothing reflects a write that was not committed.
Committed ==
    /\ \A t \in Threads : Covers(db, snap[t])
    /\ \A v \in Versions : Covers(db, cache[v])
    /\ \A p \in Processes : Covers(db, pcache[p])

\* What a load has read so far covers the announcement of its own version.
HasRead ==
    \A t \in Threads :
        /\ pc[t] = "allow" => published[ver[t]]["block"] <= snap[t]["block"]
        /\ pc[t] \in {"store", "release", "setCache", "setVersion"}
              => Covers(snap[t], published[ver[t]])

\* The inductive invariant behind CacheFresh.
Fresh == TypeOK /\ History /\ Tagged /\ Committed /\ HasRead /\ CacheFresh

\* A commit leaves everything that was cached or read as fresh as it was.
LEMMA CommitFresh ==
    ASSUME Fresh, TypeOK', Covers(db', db),
           UNCHANGED <<redisVars, procVars, pc, ver, snap>>
    PROVE  Fresh'
<1>0. /\ db \in Snapshots /\ db' \in Snapshots
      /\ db["block"] <= db'["block"] /\ db["allow"] <= db'["allow"]
  BY Zenon DEF Fresh, TypeOK, Covers, Tables
<1>1. History'
  <2>1. version \in 0..MaxVersion /\ published \in [0..MaxVersion -> Snapshots]
    BY Zenon DEF Fresh, TypeOK, Versions
  <2>2. \A v \in 0..version : Covers(db', published[v])
    BY <1>0, <2>1, RuleCacheConstants, SMTT(60) DEF Fresh, History, Covers, Snapshots, Tables
  <2> QED BY <2>2, Zenon DEF Fresh, History, Covers, redisVars
<1>2. Committed'
  <2>1. \A s \in Snapshots \cup {None} : Covers(db, s) => Covers(db', s)
    BY <1>0 DEF Covers, None, Snapshots, Tables
  <2>2. /\ \A t \in Threads : snap[t] \in Snapshots
        /\ \A v \in Versions : cache[v] \in Snapshots \cup {None}
        /\ \A p \in Processes : pcache[p] \in Snapshots \cup {None}
    BY Zenon DEF Fresh, TypeOK
  <2> QED BY <2>1, <2>2, Zenon DEF Fresh, Committed, redisVars, procVars
<1>3. Tagged' /\ HasRead' /\ CacheFresh'
  BY Zenon DEF Fresh, Tagged, HasRead, CacheFresh, Covers, redisVars, procVars
<1> QED BY <1>1, <1>2, <1>3, Zenon DEF Fresh

\* So does assigning a new version number: nothing is tagged with it yet.
LEMMA InvalidateFresh ==
    ASSUME Fresh, TypeOK', Invalidate,
           UNCHANGED <<db, cache, procVars, pc, ver, snap>>
    PROVE  Fresh'
<1>1. CASE UNCHANGED <<version, published>>
  BY <1>1, Zenon DEF Fresh, History, Tagged, Committed, HasRead, CacheFresh, Covers, procVars
<1>2. CASE /\ version' = version + 1
           /\ published' = [published EXCEPT ![version + 1] = db]
  <2>1. /\ version \in Nat /\ version + 1 \in Versions /\ db \in Snapshots
        /\ published \in [Versions -> Snapshots]
    BY <1>2, RuleCacheConstants DEF Fresh, TypeOK, Versions
  <2>2. \A v \in 0..version : v \in Versions /\ published'[v] = published[v]
    BY <1>2, <2>1, RuleCacheConstants DEF Versions
  <2>3. published'[version + 1] = db
    BY <1>2, <2>1, Zenon
  <2>4. History'
    <3>1. \A v \in 0..(version + 1) : v \in 0..version \/ v = version + 1
      BY <2>1
    <3>2. \A v \in 0..(version + 1) : Covers(db, published'[v])
      BY <2>1, <2>2, <2>3, <3>1 DEF Fresh, History, Covers, Snapshots, Tables
    <3>3. ASSUME NEW u \in 0..(version + 1), NEW v \in 0..(version + 1), u <= v
          PROVE  Covers(published'[v], published'[u])
      <4>1. CASE v = version + 1
        BY <4>1, <3>2, <2>3, Zenon
      <4>2. CASE v \in 0..version
        <5>1. u \in 0..version
          BY <4>2, <3>3, <2>1
        <5> QED BY <4>2, <5>1, <3>3, <2>2, Zenon DEF Fresh, History
      <4> QED BY <3>1, <4>1, <4>2, Zenon
    <3> QED BY <1>2, <3>2, <3>3, Zenon DEF History
  <2>5. Tagged'
    <3>1. /\ \A t \in Threads : ver[t] \in Versions /\ ver[t] <= version
          /\ \A p \in Processes : pversion[p] \in Versions \cup {-1} /\ pversion[p] <= version
          /\ \A v \in Versions : v > version => cache[v] = None
      BY Zenon DEF Fresh, TypeOK, Tagged
    <3> QED BY <1>2, <2>1, <3>1 DEF Tagged, Versions, procVars
  <2>6. Committed'
    BY Zenon DEF Fresh, Committed, Covers, procVars
  <2>7. \A t \in Threads : published'[ver[t]] = published[ver[t]]
    BY <2>1, <2>2 DEF Fresh, TypeOK, Tagged, Versions
  <2>8. HasRead'
    BY <2>7, Zenon DEF Fresh, HasRead, Covers
  <2>9. CacheFresh'
    <3>1. cache[version + 1] = None
      BY <2>1 DEF Fresh, Tagged
    <3> QED BY <1>2, <2>1, <2>2, <3>1 DEF Fresh, CacheFresh
  <2> QED BY <2>4, <2>5, <2>6, <2>8, <2>9, Zenon DEF Fresh
<1> QED BY <1>1, <1>2, Zenon DEF Invalidate

\* A load that ends drops its locals and touches no cache.
LEMMA EndLoadFresh ==
    ASSUME Fresh, TypeOK', NEW T, NEW s, EndLoad(T, s),
           UNCHANGED <<db, version, published, cache>>,
           \A p \in Processes : pversion'[p] <= version /\ Covers(db, pcache'[p])
    PROVE  Fresh'
<1>1. \A t \in Threads :
         \/ pc'[t] = pc[t] /\ ver'[t] = ver[t] /\ snap'[t] = snap[t]
         \/ pc'[t] = "idle" /\ ver'[t] = 0 /\ snap'[t] = Zero
  BY Zenon DEF EndLoad
<1>2. 0 <= version /\ Covers(db, Zero)
  BY DEF Fresh, TypeOK, Versions, Snapshots, Covers, Zero, Tables
<1>3. Tagged' /\ Committed'
  BY <1>1, <1>2, Zenon DEF Fresh, Tagged, Committed, Covers
<1>4. HasRead'
  BY <1>1, Zenon DEF Fresh, HasRead, Covers
<1> QED BY <1>3, <1>4, Zenon DEF Fresh, History, CacheFresh, Covers

\* One step keeps the inductive invariant, as long as Redis keeps its data.
LEMMA StepFresh ==
    ASSUME KeepsRedis, Fresh, [Next]_vars
    PROVE  Fresh'
<1>0. TypeOK'
  BY StepType, Zenon DEF Fresh
<1>1. CASE UNCHANGED vars
  BY <1>0, <1>1, Zenon DEF Fresh, History, Tagged, Committed, HasRead, CacheFresh, Covers,
                    vars, redisVars, procVars, loadVars, writerVars
<1>2. ASSUME NEW w \in Writers, WriterStep(w) PROVE Fresh'
  <2>1. CASE \E x \in Tables : Save(w, x) \/ BulkUpdate(w, x)
    BY <1>0, <2>1, CommitGrows, CommitFresh, Zenon DEF Save, BulkUpdate, Fresh, TypeOK, loadVars
  <2>2. CASE AtomicCommit(w)
    BY <1>0, <2>2, CommitGrows, CommitFresh, Zenon DEF AtomicCommit, Fresh, TypeOK, loadVars
  <2>3. CASE ExpireBlockRules(w)
    BY <1>0, <2>3, CommitGrows, CommitFresh, Zenon DEF ExpireBlockRules, Fresh, TypeOK, loadVars
  <2>4. CASE ExpireAllowRules(w)
    BY <1>0, <2>4, CommitGrows, CommitFresh, Zenon DEF ExpireAllowRules, Fresh, TypeOK, loadVars
  <2>5. CASE Announce(w) \/ AtomicSignal(w)
    BY <1>0, <2>5, InvalidateFresh, Zenon DEF Announce, AtomicSignal, loadVars
  <2>6. CASE AtomicRollback(w) \/ \E x \in Tables : AtomicWrite(w, x)
    BY <1>0, <2>6, Zenon DEF AtomicRollback, AtomicWrite, Fresh, History, Tagged, Committed,
                      HasRead, CacheFresh, Covers, redisVars, procVars, loadVars
  <2> QED BY <1>2, <2>1, <2>2, <2>3, <2>4, <2>5, <2>6, Zenon DEF WriterStep
<1>3. ASSUME NEW t \in Threads, GetVersion(t) PROVE Fresh'
  <2>1. Tagged' /\ HasRead'
    BY <1>3 DEF GetVersion, Go, Fresh, TypeOK, Tagged, HasRead, Covers, Versions, redisVars, procVars
  <2> QED BY <1>0, <1>3, <2>1, Zenon DEF GetVersion, Fresh, History, Committed, CacheFresh, Covers, redisVars, procVars
<1>4. ASSUME NEW t \in Threads,
             CheckProcessCache(t) \/ AcquireLock(t) \/ RetryLock(t) \/ ProceedWithoutLock(t)
      PROVE  Fresh'
  <2>1. \A u \in Threads : pc'[u] = pc[u] \/ pc'[u] \in {"fast", "fetch", "block"}
    BY <1>4, Zenon DEF CheckProcessCache, AcquireLock, RetryLock, ProceedWithoutLock, Go, Fresh, TypeOK
  <2>2. UNCHANGED <<db, version, cache, published, pcache, pversion, ver, snap>>
    BY <1>4, Zenon DEF CheckProcessCache, AcquireLock, RetryLock, ProceedWithoutLock, redisVars, procVars
  <2> QED BY <1>0, <2>1, <2>2, ZenonT(60) DEF Fresh, History, Tagged, Committed, HasRead, CacheFresh, Covers
<1>5. ASSUME NEW t \in Threads, FetchCached(t) PROVE Fresh'
  <2>1. ver[t] \in Versions /\ ver[t] \in 0..version
    BY DEF Fresh, TypeOK, Tagged, Versions
  <2>2. CASE cache[ver[t]] # None
    <3>1. Covers(cache[ver[t]], published[ver[t]]) /\ Covers(db, cache[ver[t]])
      BY <2>1, <2>2, Zenon DEF Fresh, CacheFresh, Committed
    <3>2. Committed' /\ HasRead'
      BY <1>5, <2>2, <3>1, ZenonT(60) DEF FetchCached, Go, Fresh, TypeOK, Committed, HasRead, Covers, redisVars, procVars
    <3> QED BY <1>0, <1>5, <3>2, Zenon DEF FetchCached, Fresh, History, Tagged, CacheFresh, Covers, redisVars, procVars
  <2>3. CASE cache[ver[t]] = None
    <3>1. HasRead'
      BY <1>5, <2>3, Zenon DEF FetchCached, Go, Fresh, TypeOK, HasRead, Covers, redisVars
    <3> QED BY <1>0, <1>5, <2>3, <3>1, Zenon DEF FetchCached, Fresh, History, Tagged, Committed, CacheFresh, Covers, redisVars, procVars
  <2> QED BY <2>2, <2>3, Zenon
<1>6. ASSUME NEW t \in Threads, ReadBlockRules(t) \/ ReadAllowRules(t) PROVE Fresh'
  <2>1. ver[t] \in 0..version /\ Covers(db, published[ver[t]])
    BY DEF Fresh, TypeOK, Tagged, Versions, History
  <2>2. Covers(db, snap'[t]) /\ \A u \in Threads \ {t} : snap'[u] = snap[u] /\ pc'[u] = pc[u]
    BY <1>6 DEF ReadBlockRules, ReadAllowRules, Go, Fresh, TypeOK, Committed, Covers, Snapshots, Tables, Zero
  <2>3. \/ pc'[t] = "allow" /\ published[ver[t]]["block"] <= snap'[t]["block"]
        \/ pc'[t] = "store" /\ Covers(snap'[t], published[ver[t]])
    <3>1. /\ published[ver[t]]["block"] <= db["block"]
          /\ published[ver[t]]["allow"] <= db["allow"]
      BY <2>1, Zenon DEF Covers, Tables
    <3>2. CASE ReadBlockRules(t)
      <4>1. pc'[t] = "allow" /\ snap'[t]["block"] = db["block"]
        BY <3>2, Zenon DEF ReadBlockRules, Go, Fresh, TypeOK, Zero, Tables
      <4> QED BY <3>1, <4>1, Zenon
    <3>3. CASE ReadAllowRules(t)
      <4>1. pc'[t] = "store" /\ snap'[t]["allow"] = db["allow"] /\ snap'[t]["block"] = snap[t]["block"]
        BY <3>3, Zenon DEF ReadAllowRules, Go, Fresh, TypeOK, Snapshots, Tables
      <4>2. published[ver[t]]["block"] <= snap[t]["block"]
        BY <3>3, Zenon DEF ReadAllowRules, Fresh, HasRead
      <4> QED BY <3>1, <4>1, <4>2, Zenon DEF Covers, Tables
    <3> QED BY <1>6, <3>2, <3>3, Zenon
  <2>4. UNCHANGED <<db, version, cache, published, pcache, pversion, ver>>
    BY <1>6, Zenon DEF ReadBlockRules, ReadAllowRules, redisVars, procVars
  <2>5. Committed'
    BY <2>2, <2>4, Zenon DEF Fresh, Committed, Covers
  <2>6. HasRead'
    BY <2>2, <2>3, <2>4, Zenon DEF Fresh, HasRead, Covers
  <2> QED BY <1>0, <2>4, <2>5, <2>6, Zenon DEF Fresh, History, Tagged, CacheFresh, Covers
<1>7. ASSUME NEW t \in Threads, StoreCache(t) PROVE Fresh'
  <2>1. ver[t] \in Versions /\ ver[t] <= version /\ Covers(snap[t], published[ver[t]])
        /\ Covers(db, snap[t])
    BY <1>7, Zenon DEF StoreCache, Fresh, TypeOK, Tagged, HasRead, Committed
  <2>2. \A v \in Versions : \/ v = ver[t] /\ cache'[v] = snap[t]
                            \/ v # ver[t] /\ cache'[v] = cache[v]
    BY <1>7, <2>1, Zenon DEF StoreCache, Fresh, TypeOK
  <2>3. UNCHANGED <<db, version, published, pcache, pversion, ver, snap>>
    BY <1>7, Zenon DEF StoreCache, procVars
  <2>4. Tagged'
    BY <2>1, <2>2, <2>3 DEF Fresh, TypeOK, Tagged, Versions
  <2>5. Committed'
    BY <2>1, <2>2, <2>3, Zenon DEF Fresh, Committed, Covers
  <2>6. CacheFresh'
    <3>1. \A v \in 0..version : v \in Versions
      BY RuleCacheConstants DEF Fresh, TypeOK, Versions
    <3> QED BY <2>1, <2>2, <2>3, <3>1, Zenon DEF Fresh, CacheFresh, Covers
  <2>7. HasRead'
    BY <1>7, <2>3, Zenon DEF StoreCache, Go, Fresh, TypeOK, HasRead, Covers
  <2> QED BY <1>0, <2>3, <2>4, <2>5, <2>6, <2>7, Zenon DEF Fresh, History, Covers
<1>8. ASSUME NEW t \in Threads, ReleaseLock(t) PROVE Fresh'
  <2>1. HasRead'
    BY <1>8, Zenon DEF ReleaseLock, Go, Fresh, TypeOK, HasRead, Covers
  <2> QED BY <1>0, <1>8, <2>1, Zenon DEF ReleaseLock, Fresh, History, Tagged, Committed, CacheFresh, Covers, procVars
<1>9. ASSUME NEW t \in Threads, SetProcessCache(t) PROVE Fresh'
  <2>1. \A p \in Processes : pcache'[p] = pcache[p] \/ pcache'[p] = snap[t]
    BY <1>9, Zenon DEF SetProcessCache, Fresh, TypeOK
  <2>2. Committed'
    BY <1>9, <2>1, Zenon DEF SetProcessCache, Fresh, Committed, Covers, redisVars
  <2>3. HasRead'
    BY <1>9, Zenon DEF SetProcessCache, Go, Fresh, TypeOK, HasRead, Covers, redisVars
  <2> QED BY <1>0, <1>9, <2>2, <2>3, Zenon DEF SetProcessCache, Fresh, History, Tagged, CacheFresh, Covers, redisVars
<1>10. ASSUME NEW t \in Threads, SetProcessVersion(t) PROVE Fresh'
  <2>1. \A p \in Processes : pversion'[p] = pversion[p] \/ pversion'[p] = ver[t]
    BY <1>10, Zenon DEF SetProcessVersion, Fresh, TypeOK
  <2> QED BY <1>0, <1>10, <2>1, EndLoadFresh, Zenon DEF SetProcessVersion, Fresh, Tagged, Committed, redisVars
<1>11. ASSUME NEW t \in Threads, ReturnProcessCache(t) \/ LoadError(t) PROVE Fresh'
  BY <1>0, <1>11, EndLoadFresh, Zenon
     DEF ReturnProcessCache, LoadError, Fresh, Tagged, Committed, redisVars, procVars
<1>12. ASSUME NEW v \in Versions, CacheExpires(v) PROVE Fresh'
  <2>1. \A u \in Versions : cache'[u] = cache[u] \/ cache'[u] = None
    BY <1>12, Zenon DEF CacheExpires, Fresh, TypeOK
  <2>2. Covers(db, None)
    BY DEF Fresh, TypeOK, Snapshots, Covers, None
  <2>3. \A u \in 0..version : u \in Versions
    BY RuleCacheConstants DEF Fresh, TypeOK, Versions
  <2> QED BY <1>0, <1>12, <2>1, <2>2, <2>3, ZenonT(60)
          DEF CacheExpires, Fresh, History, Tagged, Committed, HasRead, CacheFresh, Covers, procVars, loadVars
<1>13. CASE LockExpires
  BY <1>0, <1>13, Zenon DEF LockExpires, Fresh, History, Tagged, Committed, HasRead, CacheFresh,
                     Covers, procVars, loadVars
<1>14. ASSUME NEW p \in Processes, Crash(p) PROVE Fresh'
  <2>1. Covers(db, None)
    BY DEF Fresh, TypeOK, Snapshots, Covers, None
  <2>2. \A q \in Processes : pversion'[q] <= version /\ Covers(db, pcache'[q])
    BY <1>14, <2>1 DEF Crash, Fresh, TypeOK, Tagged, Committed, Versions
  <2> QED BY <1>0, <1>14, <2>2, EndLoadFresh, Zenon DEF Crash, redisVars
<1>15. CASE RedisLoss
  BY <1>15, Zenon DEF RedisLoss, KeepsRedis
<1> QED
  BY <1>1, <1>2, <1>3, <1>4, <1>5, <1>6, <1>7, <1>8, <1>9, <1>10, <1>11, <1>12,
     <1>13, <1>14, <1>15, Zenon DEF Next, LoadStep

\* The empty caches of the initial state are fresh.
LEMMA InitFresh == Init => Fresh
<1> SUFFICES ASSUME Init PROVE Fresh
  BY Zenon
<1>1. TypeOK
  BY InitType, Zenon
<1>2. History
  <2>1. version = 0 /\ db = Zero /\ \A v \in 0..0 : published[v] = Zero
    BY RuleCacheConstants DEF Init, Versions
  <2> QED BY <2>1 DEF History, Covers, Zero
<1>4. Tagged
  BY RuleCacheConstants DEF Init, Tagged, Versions
<1>3. Covers(Zero, None) /\ Covers(Zero, Zero)
  BY DEF Covers, Zero, None
<1>5. Committed
  BY <1>3, Zenon DEF Init, Committed
<1>6. HasRead /\ CacheFresh
  BY RuleCacheConstants DEF Init, HasRead, CacheFresh, Versions
<1> QED BY <1>1, <1>2, <1>4, <1>5, <1>6, Zenon DEF Fresh

\* The JSON cached in Redis for a version reflects every write committed before
\* that version number was assigned: whatever paths write, whether or not the
\* increment of a change is lost, whichever rebuilds overlap, with the lock held,
\* expired or given up on, and whichever processes die - for any number of each.
THEOREM CacheNeverStale == ASSUME KeepsRedis PROVE Spec => []CacheFresh
<1>1. Fresh /\ [Next]_vars => Fresh'
  BY StepFresh, Zenon
<1>2. Fresh => CacheFresh
  BY Zenon DEF Fresh
<1> QED BY InitFresh, <1>1, <1>2, PTL DEF Spec

----------------------------------------------------------------------------
(* What a synchronous worker process keeps for itself is never stale. *)

\* Synchronous workers: no process runs two request threads.
OneThreadPerProcess == \A t, u \in Threads : ProcOf[t] = ProcOf[u] => t = u

\* The process-wide variables never run ahead of the load that sets them.
Owned ==
    \A t \in Threads :
        /\ pc[t] # "idle" => pversion[ProcOf[t]] <= ver[t]
        /\ pc[t] = "setVersion" => pcache[ProcOf[t]] = snap[t]
        /\ pc[t] = "fast" => pcache[ProcOf[t]] # None /\ pversion[ProcOf[t]] = ver[t]

\* The inductive invariant behind ProcessCacheFresh, on top of Fresh.
ProcessFresh == Owned /\ ProcessCacheFresh

\* The versions assigned so far keep their announcement.
LEMMA InvalidateKeeps ==
    ASSUME TypeOK, Invalidate
    PROVE  /\ version' \in Nat /\ version \in Nat /\ version <= version'
           /\ \A v \in 0..version : published'[v] = published[v]
<1>1. version \in 0..MaxVersion /\ published \in [0..MaxVersion -> Snapshots]
  BY Zenon DEF TypeOK, Versions
<1> QED BY <1>1, RuleCacheConstants DEF Invalidate

\* Writers and expiring keys leave a process's cache and its version alone.
LEMMA OthersKeepProcessFresh ==
    ASSUME Fresh, ProcessFresh, UNCHANGED <<pc, ver, snap, procVars>>,
           version \in Nat, version' \in Nat, version <= version',
           \A v \in 0..version : published'[v] = published[v]
    PROVE  ProcessFresh'
<1>1. Owned'
  BY Zenon DEF ProcessFresh, Owned, procVars
<1>2. \A p \in Processes : pversion[p] \in 0..version' => pversion[p] \in 0..version
  BY DEF Fresh, TypeOK, Tagged, Versions
<1>3. ProcessCacheFresh'
  BY <1>2, Zenon DEF ProcessFresh, ProcessCacheFresh, procVars
<1> QED BY <1>1, <1>3, Zenon DEF ProcessFresh

\* One step keeps it, when every process has one thread.
LEMMA StepProcessFresh ==
    ASSUME KeepsRedis, OneThreadPerProcess, Fresh, ProcessFresh, [Next]_vars
    PROVE  ProcessFresh'
<1>0. /\ version \in Nat /\ \A t \in Threads : ProcOf[t] \in Processes
      /\ \A t \in Threads : ver[t] \in 0..version
      /\ \A p \in Processes : pversion[p] \in 0..version \cup {-1}
  BY RuleCacheConstants DEF Fresh, TypeOK, Tagged, Versions
<1>1. CASE UNCHANGED vars
  BY <1>1, Zenon DEF ProcessFresh, Owned, ProcessCacheFresh, vars, redisVars, procVars, loadVars
<1>2. ASSUME NEW w \in Writers, WriterStep(w) PROVE ProcessFresh'
  <2>1. CASE Announce(w) \/ AtomicSignal(w)
    BY <2>1, OthersKeepProcessFresh, InvalidateKeeps, Zenon DEF Announce, AtomicSignal, loadVars, Fresh
  <2>2. CASE ~(Announce(w) \/ AtomicSignal(w))
    <3>1. UNCHANGED <<redisVars, procVars, loadVars>>
      BY <1>2, <2>2, Zenon DEF WriterStep, Save, AtomicWrite, BulkUpdate, AtomicCommit, AtomicRollback,
                        ExpireBlockRules, ExpireAllowRules
    <3> QED BY <3>1, <1>0, OthersKeepProcessFresh DEF redisVars, loadVars
  <2> QED BY <2>1, <2>2, Zenon
<1>3. ASSUME NEW v \in Versions, CacheExpires(v) PROVE ProcessFresh'
  BY <1>0, <1>3, OthersKeepProcessFresh DEF CacheExpires, loadVars
<1>4. CASE LockExpires
  BY <1>0, <1>4, OthersKeepProcessFresh DEF LockExpires, loadVars
<1>5. ASSUME NEW t \in Threads, GetVersion(t) PROVE ProcessFresh'
  <2>1. Owned'
    BY <1>0, <1>5, Zenon DEF GetVersion, Go, Fresh, TypeOK, Tagged, ProcessFresh, Owned, procVars
  <2> QED BY <1>5, <2>1, Zenon DEF GetVersion, ProcessFresh, ProcessCacheFresh, redisVars, procVars
<1>6. ASSUME NEW t \in Threads, CheckProcessCache(t) PROVE ProcessFresh'
  <2>1. Owned'
    BY <1>6, ZenonT(60) DEF CheckProcessCache, Go, Fresh, TypeOK, ProcessFresh, Owned, procVars
  <2> QED BY <1>6, <2>1, Zenon DEF CheckProcessCache, ProcessFresh, ProcessCacheFresh, redisVars, procVars
<1>7. ASSUME NEW t \in Threads,
             \/ FetchCached(t) \/ AcquireLock(t) \/ RetryLock(t) \/ ProceedWithoutLock(t)
             \/ ReadBlockRules(t) \/ ReadAllowRules(t) \/ StoreCache(t) \/ ReleaseLock(t)
      PROVE  ProcessFresh'
  <2>1. /\ UNCHANGED <<version, published, pcache, pversion, ver>>
        /\ pc[t] # "idle" /\ pc'[t] \notin {"idle", "fast", "setVersion"}
        /\ \A u \in Threads \ {t} : pc'[u] = pc[u] /\ snap'[u] = snap[u]
    BY <1>7, ZenonT(60) DEF FetchCached, AcquireLock, RetryLock, ProceedWithoutLock, ReadBlockRules,
                ReadAllowRules, StoreCache, ReleaseLock, Go, Fresh, TypeOK, redisVars, procVars
  <2>2. Owned'
    BY <2>1, Zenon DEF ProcessFresh, Owned
  <2> QED BY <2>1, <2>2, Zenon DEF ProcessFresh, ProcessCacheFresh
<1>8. ASSUME NEW t \in Threads, SetProcessCache(t) PROVE ProcessFresh'
  <2>1. /\ UNCHANGED <<version, published, pversion, ver, snap>>
        /\ pc[t] = "setCache" /\ pc'[t] = "setVersion" /\ pcache'[ProcOf[t]] = snap[t]
        /\ \A p \in Processes \ {ProcOf[t]} : pcache'[p] = pcache[p]
        /\ \A u \in Threads \ {t} : pc'[u] = pc[u]
    BY <1>0, <1>8, Zenon DEF SetProcessCache, Go, Fresh, TypeOK, redisVars
  <2>2. \A u \in Threads \ {t} : ProcOf[u] # ProcOf[t]
    BY Zenon DEF OneThreadPerProcess
  <2>3. Owned'
    BY <1>0, <2>1, <2>2, ZenonT(60) DEF ProcessFresh, Owned
  <2>4. ASSUME pversion[ProcOf[t]] \in 0..version
        PROVE  Covers(snap[t], published[pversion[ProcOf[t]]])
    <3> DEFINE a == published[pversion[ProcOf[t]]]
               b == published[ver[t]]
    <3>1. Covers(snap[t], b)
      BY <2>1, Zenon DEF Fresh, HasRead
    <3>2. Covers(b, a)
      BY <1>0, <2>1, <2>4, Zenon DEF ProcessFresh, Owned, Fresh, History
    <3>3. a \in Snapshots /\ b \in Snapshots /\ snap[t] \in Snapshots
      BY <1>0, <2>4 DEF Fresh, TypeOK, Versions
    <3> QED BY <3>1, <3>2, <3>3 DEF Covers, Snapshots
  <2>5. ProcessCacheFresh'
    BY <2>1, <2>4, Zenon DEF ProcessFresh, ProcessCacheFresh
  <2> QED BY <2>3, <2>5, Zenon DEF ProcessFresh
<1>9. ASSUME NEW t \in Threads, SetProcessVersion(t) PROVE ProcessFresh'
  <2>1. /\ UNCHANGED <<version, published, pcache>>
        /\ pc[t] = "setVersion" /\ pc'[t] = "idle" /\ pversion'[ProcOf[t]] = ver[t]
        /\ \A p \in Processes \ {ProcOf[t]} : pversion'[p] = pversion[p]
        /\ \A u \in Threads \ {t} : pc'[u] = pc[u] /\ ver'[u] = ver[u] /\ snap'[u] = snap[u]
    BY <1>0, <1>9, Zenon DEF SetProcessVersion, EndLoad, Fresh, TypeOK, redisVars
  <2>2. \A u \in Threads \ {t} : ProcOf[u] # ProcOf[t]
    BY Zenon DEF OneThreadPerProcess
  <2>3. Owned'
    BY <1>0, <2>1, <2>2 DEF ProcessFresh, Owned
  <2>4. pcache[ProcOf[t]] = snap[t] /\ Covers(snap[t], published[ver[t]])
    BY <2>1, Zenon DEF ProcessFresh, Owned, Fresh, HasRead
  <2>5. ProcessCacheFresh'
    BY <2>1, <2>4, Zenon DEF ProcessFresh, ProcessCacheFresh
  <2> QED BY <2>3, <2>5, Zenon DEF ProcessFresh
<1>10. ASSUME NEW t \in Threads, ReturnProcessCache(t) \/ LoadError(t) PROVE ProcessFresh'
  <2>1. /\ UNCHANGED <<version, published, pcache, pversion>>
        /\ pc'[t] = "idle"
        /\ \A u \in Threads \ {t} : pc'[u] = pc[u] /\ ver'[u] = ver[u] /\ snap'[u] = snap[u]
    BY <1>10, ZenonT(60) DEF ReturnProcessCache, LoadError, EndLoad, redisVars, procVars
  <2>2. Owned'
    BY <2>1, ZenonT(60) DEF ProcessFresh, Owned
  <2> QED BY <2>1, <2>2, Zenon DEF ProcessFresh, ProcessCacheFresh
<1>11. ASSUME NEW p \in Processes, Crash(p) PROVE ProcessFresh'
  <2>1. /\ UNCHANGED <<version, published>>
        /\ pcache'[p] = None
        /\ \A q \in Processes \ {p} : pcache'[q] = pcache[q] /\ pversion'[q] = pversion[q]
        /\ \A u \in Threads : IF ProcOf[u] = p THEN pc'[u] = "idle"
              ELSE pc'[u] = pc[u] /\ ver'[u] = ver[u] /\ snap'[u] = snap[u]
    BY <1>11, Zenon DEF Crash, EndLoad, Fresh, TypeOK, redisVars
  <2>2. Owned'
    BY <1>0, <2>1 DEF ProcessFresh, Owned
  <2>3. ProcessCacheFresh'
    BY <2>1, Zenon DEF ProcessFresh, ProcessCacheFresh
  <2> QED BY <2>2, <2>3, Zenon DEF ProcessFresh
<1>12. CASE RedisLoss
  BY <1>12, Zenon DEF RedisLoss, KeepsRedis
<1> QED
  BY <1>1, <1>2, <1>3, <1>4, <1>5, <1>6, <1>7, <1>8, <1>9, <1>10, <1>11, <1>12, Zenon
  DEF Next, LoadStep

\* The rule set a process returns on the fast path reflects every write
\* committed before the version it is tagged with was assigned, provided the
\* process runs one request thread (two threads interleave the two assignments
\* of load_rule_cache) and Redis keeps its data.
THEOREM ProcessCacheNeverStale ==
    ASSUME KeepsRedis, OneThreadPerProcess PROVE Spec => []ProcessCacheFresh
<1>1. Init => ProcessFresh
  BY DEF Init, ProcessFresh, Owned, ProcessCacheFresh
<1>2. Fresh /\ ProcessFresh /\ [Next]_vars => Fresh' /\ ProcessFresh'
  BY StepFresh, StepProcessFresh, Zenon
<1>3. ProcessFresh => ProcessCacheFresh
  BY Zenon DEF ProcessFresh
<1> QED BY InitFresh, <1>1, <1>2, <1>3, PTL DEF Spec

----------------------------------------------------------------------------
(* With writes announced after their commit, no change is left unseen. *)

\* Every write is an autocommitted save() or expire_rules, and its INCR works.
AnnouncedWrites ==
    WriteKinds \subseteq {"save", "expire"} /\ "incr_lost" \notin Faults

\* A table that differs from the last announcement has a writer on its way to
\* announce it.
Pending ==
    /\ \A w \in Writers : wpc[w] \in {"idle", "announce", "expireAllow"}
    /\ \A x \in Tables : db[x] # published[version][x] =>
          \E w \in Writers : wpc[w] \in {"announce", "expireAllow"} /\ x \in wrote[w]

\* One step keeps it.
LEMMA StepPending ==
    ASSUME KeepsRedis, AnnouncedWrites, TypeOK, Pending, [Next]_vars
    PROVE  Pending'
<1>1. CASE UNCHANGED <<db, version, published, writerVars>>
  BY <1>1, Zenon DEF Pending, writerVars
<1>2. ASSUME NEW w \in Writers, WriterStep(w) PROVE Pending'
  <2>1. ASSUME NEW x \in Tables, Save(w, x) PROVE Pending'
    <3>1. /\ UNCHANGED <<version, published>> /\ wpc[w] = "idle"
          /\ wpc'[w] = "announce" /\ wrote'[w] = {x}
          /\ \A u \in Writers \ {w} : wpc'[u] = wpc[u] /\ wrote'[u] = wrote[u]
          /\ \A y \in Tables \ {x} : db'[y] = db[y]
      BY <2>1, Zenon DEF Save, CommitTo, GoWriter, TypeOK, redisVars
    <3> QED BY <3>1, Zenon DEF Pending
  <2>2. CASE Announce(w)
    <3>1. version' = version + 1 /\ published' = [published EXCEPT ![version + 1] = db]
          /\ version + 1 \in Versions /\ UNCHANGED db
      BY <2>2, RuleCacheConstants DEF Announce, Invalidate, AnnouncedWrites, TypeOK, Versions
    <3>2. published'[version'] = db
      BY <3>1, Zenon DEF TypeOK
    <3>3. \A u \in Writers : wpc'[u] \in {"idle", "announce", "expireAllow"}
      BY <2>2, Zenon DEF Announce, GoWriter, TypeOK, Pending
    <3> QED BY <3>1, <3>2, <3>3, Zenon DEF Pending
  <2>3. CASE ExpireBlockRules(w)
    <3>1. PICK X \in SUBSET {"block"} : CommitTo(X) /\ GoWriter(w, "expireAllow", X)
      BY <2>3, Zenon DEF ExpireBlockRules
    <3>2. /\ UNCHANGED <<version, published>> /\ wpc[w] = "idle"
          /\ wpc'[w] = "expireAllow" /\ wrote'[w] = X
          /\ \A u \in Writers \ {w} : wpc'[u] = wpc[u] /\ wrote'[u] = wrote[u]
          /\ \A y \in Tables \ X : db'[y] = db[y]
      BY <2>3, <3>1, ZenonT(60) DEF ExpireBlockRules, CommitTo, GoWriter, TypeOK, redisVars
    <3> QED BY <3>2, Zenon DEF Pending
  <2>4. CASE ExpireAllowRules(w)
    <3>1. PICK X \in SUBSET {"allow"} :
             /\ CommitTo(X)
             /\ IF wrote[w] \cup X = {} THEN GoWriter(w, "idle", {})
                ELSE GoWriter(w, "announce", wrote[w] \cup X)
      BY <2>4, Zenon DEF ExpireAllowRules
    <3>2. /\ UNCHANGED <<version, published>>
          /\ IF wrote[w] \cup X = {} THEN wpc'[w] = "idle"
             ELSE wpc'[w] = "announce" /\ wrote'[w] = wrote[w] \cup X
          /\ \A u \in Writers \ {w} : wpc'[u] = wpc[u] /\ wrote'[u] = wrote[u]
          /\ \A y \in Tables \ X : db'[y] = db[y]
      BY <2>4, <3>1 DEF ExpireAllowRules, CommitTo, GoWriter, TypeOK, redisVars
    <3> QED BY <3>2, Zenon DEF Pending
  <2>5. CASE \/ AtomicSignal(w) \/ AtomicCommit(w) \/ AtomicRollback(w)
             \/ \E x \in Tables : AtomicWrite(w, x) \/ BulkUpdate(w, x)
    BY <2>5, Zenon DEF AtomicSignal, AtomicCommit, AtomicRollback, AtomicWrite, BulkUpdate,
                AnnouncedWrites, Pending
  <2> QED BY <1>2, <2>1, <2>2, <2>3, <2>4, <2>5, Zenon DEF WriterStep
<1>3. CASE ~ \E w \in Writers : WriterStep(w)
  <2>1. UNCHANGED <<db, version, published, writerVars>>
    BY <1>3, Zenon DEF Next, LoadStep, GetVersion, CheckProcessCache, ReturnProcessCache, FetchCached,
       AcquireLock, RetryLock, ProceedWithoutLock, ReadBlockRules, ReadAllowRules, StoreCache,
       ReleaseLock, SetProcessCache, SetProcessVersion, LoadError, CacheExpires, LockExpires,
       Crash, RedisLoss, KeepsRedis, vars, redisVars
  <2> QED BY <1>1, <2>1, Zenon
<1> QED BY <1>2, <1>3, Zenon

\* Once no write is in progress, whatever is cached for the current version, in
\* Redis or in a synchronous worker, is exactly what the tables hold - provided
\* writes are announced after their commit.
THEOREM EveryChangeSeen ==
    ASSUME KeepsRedis, OneThreadPerProcess, AnnouncedWrites
    PROVE  Spec => []NoChangeLeftUnseen
<1>1. Init => ProcessFresh /\ Pending
  <2>1. Init => ProcessFresh
    BY DEF Init, ProcessFresh, Owned, ProcessCacheFresh
  <2>2. Init => published[version] = Zero
    BY RuleCacheConstants DEF Init, Versions
  <2>3. Init => Pending
    BY <2>2, Zenon DEF Init, Pending
  <2> QED BY <2>1, <2>3, Zenon
<1>2. Fresh /\ ProcessFresh /\ Pending /\ [Next]_vars => Fresh' /\ ProcessFresh' /\ Pending'
  BY StepFresh, StepProcessFresh, StepPending, Zenon DEF Fresh
<1>3. Fresh /\ ProcessFresh /\ Pending => NoChangeLeftUnseen
  <2> SUFFICES ASSUME Fresh, ProcessFresh, Pending, \A w \in Writers : wpc[w] = "idle"
               PROVE  /\ cache[version] \in {None, db}
                      /\ \A p \in Processes :
                            pversion[p] = version => pcache[p] \in {None, db}
    BY Zenon DEF NoChangeLeftUnseen
  <2>1. \A x \in Tables : db[x] = published[version][x]
    BY Zenon DEF Pending
  <2>2. ASSUME NEW s \in Snapshots, Covers(s, published[version]), Covers(db, s) PROVE s = db
    <3>1. db \in Snapshots
      BY Zenon DEF Fresh, TypeOK
    <3>2. \A x \in Tables : s[x] = db[x]
      BY <2>1, <2>2, <3>1 DEF Snapshots, Covers
    <3> QED BY <3>1, <3>2 DEF Snapshots
  <2>3. version \in 0..version /\ version \in Versions
    BY DEF Fresh, TypeOK, Versions
  <2>4. cache[version] \in {None, db}
    BY <2>2, <2>3, Zenon DEF Fresh, TypeOK, CacheFresh, Committed
  <2>5. ASSUME NEW p \in Processes, pversion[p] = version PROVE pcache[p] \in {None, db}
    BY <2>2, <2>3, <2>5, Zenon DEF Fresh, TypeOK, ProcessFresh, ProcessCacheFresh, Committed
  <2> QED BY <2>4, <2>5, Zenon
<1> QED BY InitFresh, <1>1, <1>2, <1>3, PTL DEF Spec

----------------------------------------------------------------------------
(* load_rule_cache implements the abstract rule service. *)

\* What RuleService calls floor.
Floor == [t \in Threads |-> IF pc[t] = "idle" THEN None ELSE published[ver[t]]]

\* A step that moves a load between two inner steps is invisible.
LEMMA InnerStep ==
    ASSUME NEW t \in Threads, TypeOK, TypeOK',
           UNCHANGED <<db, version, published, ver, served>>,
           pc[t] # "idle", pc'[t] # "idle", \A u \in Threads \ {t} : pc'[u] = pc[u]
    PROVE  UNCHANGED Service!svars
BY Zenon DEF Service!svars

\* A write is RuleService's Commit, whatever path it takes.
LEMMA CommitRefines ==
    ASSUME TypeOK, NEW X, CommitTo(X), UNCHANGED <<redisVars, loadVars>>
    PROVE  Service!Commit
BY CommitGrows, Zenon DEF TypeOK, Service!Commit, Service!Snapshots, Service!Covers, Snapshots, Covers,
   redisVars, loadVars

\* An increment is its Publish.
LEMMA InvalidateRefines ==
    ASSUME Fresh, Invalidate, UNCHANGED <<db, loadVars>>
    PROVE  Service!Publish \/ UNCHANGED Service!svars
<1>1. CASE UNCHANGED <<version, published>>
  BY <1>1, Zenon DEF Service!svars, loadVars
<1>2. CASE /\ version < MaxVersion
           /\ version' = version + 1
           /\ published' = [published EXCEPT ![version + 1] = db]
  <2>1. version + 1 \in Versions /\ published \in [Versions -> Snapshots]
    BY <1>2, RuleCacheConstants DEF Fresh, TypeOK, Versions
  <2>2. published'[version'] = db
    BY <1>2, <2>1, Zenon
  <2>3. \A t \in Threads : published'[ver[t]] = published[ver[t]]
    BY InvalidateKeeps DEF Fresh, TypeOK, Tagged, Versions
  <2> QED BY <2>2, <2>3, Zenon DEF Service!Publish, loadVars
<1> QED BY <1>1, <1>2, Zenon DEF Invalidate

\* A load that returns s is its Return.
LEMMA ReturnRefines ==
    ASSUME Fresh, NEW t \in Threads, pc[t] # "idle", NEW s \in Snapshots,
           Covers(s, published[ver[t]]), Covers(db, s), EndLoad({t}, s),
           UNCHANGED <<db, version, published>>
    PROVE  Service!Return(t)
<1>1. published[ver[t]] \in Snapshots /\ published[ver[t]] # None
  BY DEF Fresh, TypeOK, Snapshots, None, Tables
<1>2. Floor[t] # None
  BY <1>1, Zenon DEF Floor
<1>3. Floor' = [Floor EXCEPT ![t] = None]
  BY Zenon DEF Floor, EndLoad
<1>4. served' = [served EXCEPT ![t] = s]
  BY Zenon DEF Fresh, TypeOK, EndLoad
<1> QED BY <1>2, <1>3, <1>4, Zenon DEF Service!Return, Service!None, Service!Snapshots, Service!Covers,
           None, Snapshots, Covers, Floor

\* A load that fails, or dies with its process, is abandoned.
LEMMA AbandonRefines ==
    ASSUME Fresh, NEW T \in SUBSET Threads, EndLoad(T, None), UNCHANGED <<db, version, published>>
    PROVE  Service!Abandon
<1>1. Floor' = [t \in Threads |-> IF t \in T THEN None ELSE Floor[t]]
  BY Zenon DEF Floor, EndLoad
<1>2. served' = [t \in Threads |-> IF t \in T THEN None ELSE served[t]]
  BY Zenon DEF EndLoad
<1> QED BY <1>1, <1>2, Zenon DEF Service!Abandon, Service!None, None, Floor

\* Every step is a step of RuleService or leaves what it sees unchanged.
LEMMA StepRefines ==
    ASSUME KeepsRedis, OneThreadPerProcess, Fresh, ProcessFresh, [Next]_vars
    PROVE  [Service!Next]_(Service!svars)
<1>0. TypeOK /\ TypeOK'
  BY StepType, Zenon DEF Fresh
<1>1. CASE UNCHANGED vars
  BY <1>1, Zenon DEF Service!svars, vars, redisVars, loadVars
<1>2. ASSUME NEW w \in Writers, WriterStep(w) PROVE [Service!Next]_(Service!svars)
  <2>1. CASE \/ \E x \in Tables : Save(w, x) \/ BulkUpdate(w, x)
             \/ AtomicCommit(w) \/ ExpireBlockRules(w) \/ ExpireAllowRules(w)
    <3>1. PICK X \in SUBSET Tables : CommitTo(X)
      BY <2>1, <1>0, Zenon DEF Save, BulkUpdate, AtomicCommit, ExpireBlockRules, ExpireAllowRules,
                        TypeOK, Tables
    <3>2. UNCHANGED <<redisVars, loadVars>>
      BY <2>1, Zenon DEF Save, BulkUpdate, AtomicCommit, ExpireBlockRules, ExpireAllowRules
    <3> QED BY <1>0, <3>1, <3>2, CommitRefines, Zenon DEF Service!Next
  <2>2. CASE Announce(w) \/ AtomicSignal(w)
    BY <2>2, InvalidateRefines, Zenon DEF Announce, AtomicSignal, Service!Next
  <2>3. CASE AtomicRollback(w) \/ \E x \in Tables : AtomicWrite(w, x)
    BY <2>3, Zenon DEF AtomicRollback, AtomicWrite, Service!svars, redisVars, loadVars
  <2> QED BY <1>2, <2>1, <2>2, <2>3, Zenon DEF WriterStep
<1>3. ASSUME NEW t \in Threads, GetVersion(t) PROVE [Service!Next]_(Service!svars)
  <2>1. Floor[t] = None /\ Floor' = [Floor EXCEPT ![t] = published[version]]
    BY <1>0, <1>3, ZenonT(60) DEF GetVersion, Go, Floor, TypeOK, redisVars
  <2>2. Service!Begin(t)
    BY <1>3, <2>1, Zenon DEF GetVersion, Service!Begin, Service!None, None, Floor, redisVars
  <2> QED BY <2>2, Zenon DEF Service!Next
<1>4. ASSUME NEW t \in Threads,
             \/ CheckProcessCache(t) \/ FetchCached(t) \/ AcquireLock(t) \/ RetryLock(t)
             \/ ProceedWithoutLock(t) \/ ReadBlockRules(t) \/ ReadAllowRules(t)
             \/ StoreCache(t) \/ ReleaseLock(t) \/ SetProcessCache(t)
      PROVE  [Service!Next]_(Service!svars)
  <2>1. /\ UNCHANGED <<db, version, published, ver, served>>
        /\ pc[t] # "idle" /\ pc'[t] # "idle" /\ \A u \in Threads \ {t} : pc'[u] = pc[u]
    BY <1>0, <1>4, ZenonT(60) DEF CheckProcessCache, FetchCached, AcquireLock, RetryLock, ProceedWithoutLock,
       ReadBlockRules, ReadAllowRules, StoreCache, ReleaseLock, SetProcessCache, Go, TypeOK, redisVars
  <2> QED BY <1>0, <2>1, InnerStep, Zenon
<1>5. ASSUME NEW t \in Threads, SetProcessVersion(t) PROVE [Service!Next]_(Service!svars)
  <2>1. snap[t] \in Snapshots /\ Covers(snap[t], published[ver[t]]) /\ Covers(db, snap[t])
    BY <1>5, Zenon DEF SetProcessVersion, Fresh, TypeOK, HasRead, Committed
  <2> QED BY <1>5, <2>1, ReturnRefines, Zenon DEF SetProcessVersion, Service!Next, redisVars
<1>6. ASSUME NEW t \in Threads, ReturnProcessCache(t) PROVE [Service!Next]_(Service!svars)
  <2>1. /\ ProcOf[t] \in Processes /\ pcache[ProcOf[t]] # None
        /\ pversion[ProcOf[t]] = ver[t] /\ ver[t] \in 0..version
    <3>1. /\ ProcOf[t] \in Processes /\ pcache[ProcOf[t]] # None
          /\ pversion[ProcOf[t]] = ver[t]
      BY <1>6, RuleCacheConstants, ZenonT(60) DEF ReturnProcessCache, ProcessFresh, Owned
    <3>2. version \in 0..MaxVersion /\ ver[t] \in 0..MaxVersion /\ ver[t] <= version
      BY Zenon DEF Fresh, TypeOK, Tagged, Versions
    <3> QED BY <3>1, <3>2, RuleCacheConstants
  <2>2. /\ pcache[ProcOf[t]] \in Snapshots
        /\ Covers(pcache[ProcOf[t]], published[ver[t]]) /\ Covers(db, pcache[ProcOf[t]])
    BY <2>1, Zenon DEF ProcessFresh, ProcessCacheFresh, Fresh, TypeOK, Committed
  <2> QED BY <1>6, <2>2, ReturnRefines, Zenon DEF ReturnProcessCache, Service!Next, redisVars
<1>7. ASSUME NEW t \in Threads, LoadError(t) PROVE [Service!Next]_(Service!svars)
  BY <1>7, AbandonRefines, Zenon DEF LoadError, Service!Next
<1>8. ASSUME NEW p \in Processes, Crash(p) PROVE [Service!Next]_(Service!svars)
  BY <1>8, AbandonRefines, Zenon DEF Crash, Service!Next, redisVars
<1>9. CASE LockExpires \/ \E v \in Versions : CacheExpires(v)
  BY <1>9, Zenon DEF LockExpires, CacheExpires, Service!svars, loadVars
<1>10. CASE RedisLoss
  BY <1>10, Zenon DEF RedisLoss, KeepsRedis
<1> QED
  BY <1>1, <1>2, <1>3, <1>4, <1>5, <1>6, <1>7, <1>8, <1>9, <1>10, Zenon DEF Next, LoadStep

\* load_rule_cache, its caches and its lock implement the abstract service: what
\* a load returns reflects every change announced before it began and nothing
\* uncommitted, for any number of synchronous workers and writers.
THEOREM RuleCacheImplementsRuleService ==
    ASSUME KeepsRedis, OneThreadPerProcess PROVE Spec => ImplementsRuleService
<1>1. Init => Service!Init
  <2> SUFFICES ASSUME Init PROVE Service!Init
    BY Zenon
  <2>1. published[version] = Zero
    BY RuleCacheConstants DEF Init, Versions
  <2> QED BY <2>1, Zenon DEF Init, Service!Init, Service!None, None, Zero
<1>2. Init => ProcessFresh
  BY DEF Init, ProcessFresh, Owned, ProcessCacheFresh
<1>3. Fresh /\ ProcessFresh /\ [Next]_vars => Fresh' /\ ProcessFresh'
  BY StepFresh, StepProcessFresh, Zenon
<1>4. Fresh /\ ProcessFresh /\ [Next]_vars => [Service!Next]_(Service!svars)
  BY StepRefines, Zenon
<1> QED BY InitFresh, <1>1, <1>2, <1>3, <1>4, PTL DEF Spec, ImplementsRuleService, Service!Spec
----------------------------------------------------------------------------
(* The safety half of the termination of load_rule_cache. *)

\* What a load may do next: it moves on, counting the retries of the lock.
Moves(t) ==
    \/ pc[t] = "check" /\ pc'[t] \in {"fast", "fetch"} /\ tries'[t] = tries[t]
    \/ pc[t] = "fetch" /\ pc'[t] \in {"lock", "setCache"} /\ tries'[t] = tries[t]
    \/ pc[t] = "lock" /\ pc'[t] = "lock" /\ tries'[t] = tries[t] + 1
    \/ pc[t] = "lock" /\ pc'[t] = "block"
    \/ pc[t] = "block" /\ pc'[t] = "allow"
    \/ pc[t] = "allow" /\ pc'[t] = "store"
    \/ pc[t] = "store" /\ pc'[t] = "release"
    \/ pc[t] = "release" /\ pc'[t] = "setCache"
    \/ pc[t] = "setCache" /\ pc'[t] = "setVersion"
    \/ pc[t] # "idle" /\ pc'[t] = "idle"

\* The locals of a load that a step leaves alone.
Waits(t) == UNCHANGED <<pc[t], ver[t], snap[t], locked[t], tries[t]>>

\* A load that moves has fewer steps to go.
LEMMA MovesDecrease ==
    ASSUME TypeOK, TypeOK', NEW t \in Threads, Moves(t)
    PROVE  Remaining(t)' < Remaining(t)
<1>1. /\ tries[t] \in 0..LockRetries /\ tries'[t] \in 0..LockRetries
      /\ pc[t] \in LoadSteps /\ pc'[t] \in LoadSteps /\ LockRetries \in Nat
  BY RuleCacheConstants, Zenon DEF TypeOK
<1> QED BY <1>1, SMTT(60) DEF Moves, Remaining, LoadSteps

\* A thread's own step moves its load.
LEMMA OwnStepMoves ==
    ASSUME TypeOK, NEW t \in Threads, LoadStep(t) \/ LoadError(t)
    PROVE  Moves(t)
<1>0. pc \in [Threads -> LoadSteps] /\ tries \in [Threads -> 0..LockRetries]
  BY Zenon DEF TypeOK
<1>1. CASE CheckProcessCache(t) \/ FetchCached(t)
  BY <1>0, <1>1, Zenon DEF CheckProcessCache, FetchCached, Go, Moves
<1>2. CASE RetryLock(t)
  BY <1>0, <1>2, Zenon DEF RetryLock, Moves
<1>3. CASE AcquireLock(t) \/ ProceedWithoutLock(t)
  BY <1>0, <1>3, Zenon DEF AcquireLock, ProceedWithoutLock, Go, Moves
<1>4. CASE ReadBlockRules(t) \/ ReadAllowRules(t) \/ StoreCache(t)
  BY <1>0, <1>4, Zenon DEF ReadBlockRules, ReadAllowRules, StoreCache, Go, Moves
<1>5. CASE ReleaseLock(t) \/ SetProcessCache(t)
  BY <1>0, <1>5, Zenon DEF ReleaseLock, SetProcessCache, Go, Moves
<1>6. CASE ReturnProcessCache(t) \/ SetProcessVersion(t) \/ LoadError(t)
  BY <1>0, <1>6, Zenon DEF ReturnProcessCache, SetProcessVersion, LoadError, EndLoad, Moves
<1> QED BY <1>1, <1>2, <1>3, <1>4, <1>5, <1>6, Zenon DEF LoadStep

\* Another thread's step leaves it alone.
LEMMA OtherStepWaits ==
    ASSUME TypeOK, NEW u \in Threads, GetVersion(u) \/ LoadStep(u) \/ LoadError(u),
           NEW t \in Threads, t # u
    PROVE  Waits(t)
<1>0. /\ pc \in [Threads -> LoadSteps] /\ tries \in [Threads -> 0..LockRetries]
      /\ ver \in [Threads -> Versions] /\ snap \in [Threads -> Snapshots]
      /\ locked \in [Threads -> BOOLEAN]
  BY Zenon DEF TypeOK
<1>1. CASE GetVersion(u) \/ CheckProcessCache(u) \/ FetchCached(u)
  BY <1>0, <1>1, Zenon DEF GetVersion, CheckProcessCache, FetchCached, Go, Waits
<1>2. CASE AcquireLock(u) \/ RetryLock(u) \/ ProceedWithoutLock(u)
  BY <1>0, <1>2, Zenon DEF AcquireLock, RetryLock, ProceedWithoutLock, Go, Waits
<1>3. CASE ReadBlockRules(u) \/ ReadAllowRules(u) \/ StoreCache(u)
  BY <1>0, <1>3, Zenon DEF ReadBlockRules, ReadAllowRules, StoreCache, Go, Waits
<1>4. CASE ReleaseLock(u) \/ SetProcessCache(u)
  BY <1>0, <1>4, Zenon DEF ReleaseLock, SetProcessCache, Go, Waits
<1>5. CASE ReturnProcessCache(u) \/ SetProcessVersion(u) \/ LoadError(u)
  BY <1>0, <1>5, Zenon DEF ReturnProcessCache, SetProcessVersion, LoadError, EndLoad, Waits
<1> QED BY <1>1, <1>2, <1>3, <1>4, <1>5, Zenon DEF LoadStep

\* The environment ends a load or leaves it alone.
LEMMA EnvironmentEndsOrWaits ==
    ASSUME TypeOK, [Next]_vars, NEW t \in Threads, pc[t] # "idle",
           ~ \E u \in Threads : GetVersion(u) \/ LoadStep(u) \/ LoadError(u)
    PROVE  Moves(t) \/ Waits(t)
<1>1. ASSUME NEW p \in Processes, Crash(p) PROVE Moves(t) \/ Waits(t)
  BY <1>1, Zenon DEF Crash, EndLoad, Moves, Waits
<1>2. CASE UNCHANGED loadVars
  BY <1>2, Zenon DEF loadVars, Waits
<1>3. CASE ~ \E p \in Processes : Crash(p)
  <2>1. UNCHANGED loadVars
    BY <1>3, Zenon DEF Next, WriterStep, Save, AtomicWrite, BulkUpdate, Announce, AtomicSignal,
       AtomicCommit, AtomicRollback, ExpireBlockRules, ExpireAllowRules, CacheExpires, LockExpires,
       RedisLoss, vars
  <2> QED BY <1>2, <2>1, Zenon
<1> QED BY <1>1, <1>3, Zenon

\* A load of load_rule_cache takes at most nine steps and the retries of the lock,
\* for any number of threads, processes and writers and whatever fails meanwhile.
THEOREM LoadsAreBounded == Spec => LoadBounded
<1>1. TypeOK /\ TypeOK' /\ [Next]_vars =>
         [\A t \in Threads : pc[t] # "idle" =>
             \/ Remaining(t)' < Remaining(t)
             \/ UNCHANGED <<pc[t], ver[t], snap[t], locked[t], tries[t]>>]_vars
  <2> SUFFICES ASSUME TypeOK, TypeOK', [Next]_vars, NEW t \in Threads, pc[t] # "idle"
               PROVE  Remaining(t)' < Remaining(t) \/ Waits(t)
    BY Zenon DEF Waits
  <2>1. ASSUME NEW u \in Threads, GetVersion(u) \/ LoadStep(u) \/ LoadError(u)
        PROVE  Moves(t) \/ Waits(t)
    <3>1. CASE t = u
      BY <2>1, <3>1, OwnStepMoves, Zenon DEF GetVersion
    <3>2. CASE t # u
      BY <2>1, <3>2, OtherStepWaits, Zenon
    <3> QED BY <3>1, <3>2, Zenon
  <2>2. Moves(t) \/ Waits(t)
    BY <2>1, EnvironmentEndsOrWaits, Zenon
  <2> QED BY <2>2, MovesDecrease, Zenon
<1> QED BY <1>1, TypeCorrect, PTL DEF Spec, LoadBounded
=============================================================================
