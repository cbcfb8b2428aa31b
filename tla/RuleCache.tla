----------------------------- MODULE RuleCache -----------------------------
(***************************************************************************)
(* The compiled-rule cache of django-waf: the rule tables, the paths that  *)
(* write them, the Redis version key those paths increment, the JSON cache *)
(* kept in Redis per version, the cache each worker process keeps for one  *)
(* version, and load_rule_cache, which every evaluated request calls.      *)
(*                                                                         *)
(* A table's contents are abstracted to a stamp, the number of committed   *)
(* writes they reflect, so a rule set read from the two tables is a        *)
(* snapshot: a stamp for each.  Every Redis command, SQL statement and     *)
(* assignment to a process-wide variable is a step of its own.             *)
(***************************************************************************)
EXTENDS Integers

CONSTANTS Threads,      \* request threads
          Processes,    \* worker processes
          ProcOf,       \* the process each thread runs in
          Writers,      \* connections that write rules
          WriteKinds,   \* the write paths exercised, a subset of AllKinds
          Faults,       \* the faults exercised, a subset of AllFaults
          LockRetries,  \* _REBUILD_LOCK_RETRIES
          MaxVersion,   \* bound: increments of waf:rules:version
          MaxCommits    \* bound: committed writes

VARIABLES
    db,         \* committed contents of the rule tables
    version,    \* Redis waf:rules:version, 0 when the key is absent
    cache,      \* Redis waf:rules:cache:{version}
    lock,       \* Redis waf:rule_cache:lock is set
    pcache,     \* _process_cache of each process
    pversion,   \* _process_cache_version of each process
    pc, ver, snap, locked, tries,  \* control and locals of load_rule_cache
    served,     \* what each thread's last load returned, if it is done
    wpc, wrote, \* control of each writer and the tables it wrote
    published   \* history: db when each version number was assigned

redisVars  == <<version, cache, lock, published>>
procVars   == <<pcache, pversion>>
loadVars   == <<pc, ver, snap, locked, tries, served>>
writerVars == <<wpc, wrote>>
vars == <<db, redisVars, procVars, loadVars, writerVars>>

AllKinds  == {"save", "atomic", "bulk", "expire"}
AllFaults == {"incr_lost", "load_error", "crash", "redis_loss"}

ASSUME RuleCacheConstants ==
    /\ ProcOf \in [Threads -> Processes]
    /\ WriteKinds \subseteq AllKinds
    /\ Faults \subseteq AllFaults
    /\ LockRetries \in Nat
    /\ MaxVersion \in Nat
    /\ MaxCommits \in Nat

Tables    == {"block", "allow"}
Versions  == 0..MaxVersion
Snapshots == [Tables -> 0..MaxCommits]
None      == [x \in Tables |-> -1]   \* an absent key or an unset variable
Zero      == [x \in Tables |-> 0]

\* s reflects at least every write that r reflects.
Covers(s, r) == \A x \in Tables : r[x] <= s[x]

LoadSteps == {"idle", "check", "fast", "fetch", "lock", "block", "allow",
              "store", "release", "setCache", "setVersion"}
WriterSteps == {"idle", "announce", "signal", "commit", "expireAllow"}

TypeOK ==
    /\ db \in Snapshots
    /\ version \in Versions
    /\ cache \in [Versions -> Snapshots \cup {None}]
    /\ lock \in BOOLEAN
    /\ pcache \in [Processes -> Snapshots \cup {None}]
    /\ pversion \in [Processes -> Versions \cup {-1}]
    /\ pc \in [Threads -> LoadSteps]
    /\ ver \in [Threads -> Versions]
    /\ snap \in [Threads -> Snapshots]
    /\ locked \in [Threads -> BOOLEAN]
    /\ tries \in [Threads -> 0..LockRetries]
    /\ served \in [Threads -> Snapshots \cup {None}]
    /\ wpc \in [Writers -> WriterSteps]
    /\ wrote \in [Writers -> SUBSET Tables]
    /\ published \in [Versions -> Snapshots]

Init ==
    /\ db = Zero
    /\ version = 0
    /\ cache = [v \in Versions |-> None]
    /\ lock = FALSE
    /\ pcache = [p \in Processes |-> None]
    /\ pversion = [p \in Processes |-> -1]
    /\ pc = [t \in Threads |-> "idle"]
    /\ ver = [t \in Threads |-> 0]
    /\ snap = [t \in Threads |-> Zero]
    /\ locked = [t \in Threads |-> FALSE]
    /\ tries = [t \in Threads |-> 0]
    /\ served = [t \in Threads |-> None]
    /\ wpc = [w \in Writers |-> "idle"]
    /\ wrote = [w \in Writers |-> {}]
    /\ published = [v \in Versions |-> Zero]

----------------------------------------------------------------------------
(* Writers *)

\* INCR waf:rules:version.  An exception is logged and swallowed.
Invalidate ==
    \/ /\ version < MaxVersion
       /\ version' = version + 1
       /\ published' = [published EXCEPT ![version + 1] = db]
    \/ /\ "incr_lost" \in Faults
       /\ UNCHANGED <<version, published>>

\* The stamps after one committed statement or transaction writes tables X.
CommitTo(X) ==
    /\ db' = [x \in Tables |-> IF x \in X THEN db[x] + 1 ELSE db[x]]
    /\ db'["block"] + db'["allow"] <= MaxCommits

GoWriter(w, step, tables) ==
    /\ wpc' = [wpc EXCEPT ![w] = step]
    /\ wrote' = [wrote EXCEPT ![w] = tables]

\* Model.save() on an autocommit connection: the row is committed, and the
\* post_save receiver runs next.
Save(w, x) ==
    /\ "save" \in WriteKinds
    /\ wpc[w] = "idle"
    /\ CommitTo({x})
    /\ GoWriter(w, "announce", {x})
    /\ UNCHANGED <<redisVars, procVars, loadVars>>

\* The post_save receiver, or the explicit call at the end of expire_rules.
Announce(w) ==
    /\ wpc[w] = "announce"
    /\ Invalidate
    /\ GoWriter(w, "idle", {})
    /\ UNCHANGED <<db, cache, lock, procVars, loadVars>>

\* A save() or delete() inside transaction.atomic(): not visible to others yet.
AtomicWrite(w, x) ==
    /\ "atomic" \in WriteKinds
    /\ wpc[w] \in {"idle", "commit"}
    /\ GoWriter(w, "signal", wrote[w] \cup {x})
    /\ UNCHANGED <<db, redisVars, procVars, loadVars>>

\* Its receiver, which runs before the transaction ends.
AtomicSignal(w) ==
    /\ wpc[w] = "signal"
    /\ Invalidate
    /\ GoWriter(w, "commit", wrote[w])
    /\ UNCHANGED <<db, cache, lock, procVars, loadVars>>

AtomicCommit(w) ==
    /\ wpc[w] = "commit"
    /\ CommitTo(wrote[w])
    /\ GoWriter(w, "idle", {})
    /\ UNCHANGED <<redisVars, procVars, loadVars>>

AtomicRollback(w) ==
    /\ wpc[w] = "commit"
    /\ GoWriter(w, "idle", {})
    /\ UNCHANGED <<db, redisVars, procVars, loadVars>>

\* QuerySet.update() sends no signal, and nothing else increments the version.
BulkUpdate(w, x) ==
    /\ "bulk" \in WriteKinds
    /\ wpc[w] = "idle"
    /\ CommitTo({x})
    /\ UNCHANGED <<redisVars, procVars, loadVars, writerVars>>

\* expire_rules: one UPDATE per table, then the increment when rows changed.
ExpireBlockRules(w) ==
    /\ "expire" \in WriteKinds
    /\ wpc[w] = "idle"
    /\ \E X \in SUBSET {"block"} :
          CommitTo(X) /\ GoWriter(w, "expireAllow", X)
    /\ UNCHANGED <<redisVars, procVars, loadVars>>

\* Mutant: the increment depends on the second UPDATE alone.
ExpireForgetsBlockRules(w) ==
    /\ wpc[w] = "expireAllow"
    /\ \E X \in SUBSET {"allow"} :
          /\ CommitTo(X)
          /\ IF X = {} THEN GoWriter(w, "idle", {}) ELSE GoWriter(w, "announce", X)
    /\ UNCHANGED <<redisVars, procVars, loadVars>>

ExpireAllowRules(w) ==
    /\ wpc[w] = "expireAllow"
    /\ \E X \in SUBSET {"allow"} :
          /\ CommitTo(X)
          /\ LET total == wrote[w] \cup X
             IN  IF total = {} THEN GoWriter(w, "idle", {})
                               ELSE GoWriter(w, "announce", total)
    /\ UNCHANGED <<redisVars, procVars, loadVars>>

WriterStep(w) ==
    \/ \E x \in Tables : Save(w, x) \/ AtomicWrite(w, x) \/ BulkUpdate(w, x)
    \/ Announce(w) \/ AtomicSignal(w) \/ AtomicCommit(w) \/ AtomicRollback(w)
    \/ ExpireBlockRules(w) \/ ExpireAllowRules(w)

----------------------------------------------------------------------------
(* load_rule_cache *)

Go(t, step) == pc' = [pc EXCEPT ![t] = step]

\* The load ends for threads T with result s; its locals go out of scope.
EndLoad(T, s) ==
    /\ pc' = [t \in Threads |-> IF t \in T THEN "idle" ELSE pc[t]]
    /\ ver' = [t \in Threads |-> IF t \in T THEN 0 ELSE ver[t]]
    /\ snap' = [t \in Threads |-> IF t \in T THEN Zero ELSE snap[t]]
    /\ locked' = [t \in Threads |-> IF t \in T THEN FALSE ELSE locked[t]]
    /\ tries' = [t \in Threads |-> IF t \in T THEN 0 ELSE tries[t]]
    /\ served' = [t \in Threads |-> IF t \in T THEN s ELSE served[t]]

\* A request arrives: GET waf:rules:version.
GetVersion(t) ==
    /\ pc[t] = "idle"
    /\ ver' = [ver EXCEPT ![t] = version]
    /\ served' = [served EXCEPT ![t] = None]
    /\ Go(t, "check")
    /\ UNCHANGED <<db, redisVars, procVars, snap, locked, tries, writerVars>>

\* Mutant: a process trusts its cache whatever version Redis shows.
CheckAnyVersion(t) ==
    /\ pc[t] = "check"
    /\ IF pcache[ProcOf[t]] # None THEN Go(t, "fast") ELSE Go(t, "fetch")
    /\ UNCHANGED <<db, redisVars, procVars, ver, snap, locked, tries, served, writerVars>>

\* The two process-wide variables are compared, and read again to return.
CheckProcessCache(t) ==
    LET p == ProcOf[t] IN
    /\ pc[t] = "check"
    /\ IF pcache[p] # None /\ pversion[p] = ver[t]
       THEN Go(t, "fast") ELSE Go(t, "fetch")
    /\ UNCHANGED <<db, redisVars, procVars, ver, snap, locked, tries, served, writerVars>>

ReturnProcessCache(t) ==
    /\ pc[t] = "fast"
    /\ EndLoad({t}, pcache[ProcOf[t]])
    /\ UNCHANGED <<db, redisVars, procVars, writerVars>>

\* GET waf:rules:cache:{version}; unreadable JSON is a miss, as an evicted key is.
FetchCached(t) ==
    /\ pc[t] = "fetch"
    /\ IF cache[ver[t]] # None
       THEN snap' = [snap EXCEPT ![t] = cache[ver[t]]] /\ Go(t, "setCache")
       ELSE Go(t, "lock") /\ UNCHANGED snap
    /\ UNCHANGED <<db, redisVars, procVars, ver, locked, tries, served, writerVars>>

\* SET waf:rule_cache:lock NX EX: taken, or busy and retried, or given up on.
AcquireLock(t) ==
    /\ pc[t] = "lock"
    /\ ~lock
    /\ lock' = TRUE
    /\ locked' = [locked EXCEPT ![t] = TRUE]
    /\ Go(t, "block")
    /\ UNCHANGED <<db, version, cache, published, procVars, ver, snap, tries, served, writerVars>>

\* Mutant: a busy lock sends the load back to the cache, and is not counted.
RetryFromCache(t) ==
    /\ pc[t] = "lock"
    /\ lock
    /\ tries[t] < LockRetries
    /\ Go(t, "fetch")
    /\ UNCHANGED <<db, redisVars, procVars, ver, snap, locked, tries, served, writerVars>>

RetryLock(t) ==
    /\ pc[t] = "lock"
    /\ lock
    /\ tries[t] < LockRetries
    /\ tries' = [tries EXCEPT ![t] = @ + 1]
    /\ UNCHANGED <<db, redisVars, procVars, pc, ver, snap, locked, served, writerVars>>

\* Mutant: a load waits for the lock as long as somebody holds it.
WaitForLock(t) ==
    /\ pc[t] = "lock"
    /\ "load_error" \in Faults
    /\ Go(t, "block")
    /\ UNCHANGED <<db, redisVars, procVars, ver, snap, locked, tries, served, writerVars>>

ProceedWithoutLock(t) ==
    /\ pc[t] = "lock"
    /\ \/ lock /\ tries[t] = LockRetries
       \/ "load_error" \in Faults
    /\ Go(t, "block")
    /\ UNCHANGED <<db, redisVars, procVars, ver, snap, locked, tries, served, writerVars>>

\* The two SELECTs of _rebuild_rule_cache_from_db.
ReadBlockRules(t) ==
    /\ pc[t] = "block"
    /\ snap' = [snap EXCEPT ![t] = [Zero EXCEPT !["block"] = db["block"]]]
    /\ Go(t, "allow")
    /\ UNCHANGED <<db, redisVars, procVars, ver, locked, tries, served, writerVars>>

ReadAllowRules(t) ==
    /\ pc[t] = "allow"
    /\ snap' = [snap EXCEPT ![t]["allow"] = db["allow"]]
    /\ Go(t, "store")
    /\ UNCHANGED <<db, redisVars, procVars, ver, locked, tries, served, writerVars>>

\* Mutant: the rebuilt rules are stored under the version of the moment.
StoreUnderNewVersion(t) ==
    /\ pc[t] = "store"
    /\ cache' = [cache EXCEPT ![version] = snap[t]]
    /\ Go(t, "release")
    /\ UNCHANGED <<db, version, lock, published, procVars, ver, snap, locked, tries, served, writerVars>>

\* SETEX under the version read at the start of the load.
StoreCache(t) ==
    /\ pc[t] = "store"
    /\ cache' = [cache EXCEPT ![ver[t]] = snap[t]]
    /\ Go(t, "release")
    /\ UNCHANGED <<db, version, lock, published, procVars, ver, snap, locked, tries, served, writerVars>>

\* DEL of the lock key, whoever set it last, if this thread had taken it.
\* An exception is swallowed and leaves the key to its TTL.
DeleteLock(t) ==
    \/ lock' = (lock /\ ~locked[t])
    \/ "load_error" \in Faults /\ UNCHANGED lock

ReleaseLock(t) ==
    /\ pc[t] = "release"
    /\ DeleteLock(t)
    /\ locked' = [locked EXCEPT ![t] = FALSE]
    /\ Go(t, "setCache")
    /\ UNCHANGED <<db, version, cache, published, procVars, ver, snap, tries, served, writerVars>>

\* The two assignments that end a load that did not take the fast path.
SetProcessCache(t) ==
    /\ pc[t] = "setCache"
    /\ pcache' = [pcache EXCEPT ![ProcOf[t]] = snap[t]]
    /\ Go(t, "setVersion")
    /\ UNCHANGED <<db, redisVars, pversion, ver, snap, locked, tries, served, writerVars>>

\* Mutant: the process records the version of the moment.
SetNewProcessVersion(t) ==
    /\ pc[t] = "setVersion"
    /\ pversion' = [pversion EXCEPT ![ProcOf[t]] = version]
    /\ EndLoad({t}, snap[t])
    /\ UNCHANGED <<db, redisVars, pcache, writerVars>>

SetProcessVersion(t) ==
    /\ pc[t] = "setVersion"
    /\ pversion' = [pversion EXCEPT ![ProcOf[t]] = ver[t]]
    /\ EndLoad({t}, snap[t])
    /\ UNCHANGED <<db, redisVars, pcache, writerVars>>

\* A Redis or database error: the lock is released on the way out, in the
\* finally clause, and the middleware passes the request unevaluated.
LoadError(t) ==
    /\ "load_error" \in Faults
    /\ pc[t] \in {"fetch", "block", "allow", "store"}
    /\ DeleteLock(t)
    /\ EndLoad({t}, None)
    /\ UNCHANGED <<db, version, cache, published, procVars, writerVars>>

\* What a thread does once its load has started.
LoadStep(t) ==
    \/ CheckProcessCache(t) \/ ReturnProcessCache(t) \/ FetchCached(t)
    \/ AcquireLock(t) \/ RetryLock(t) \/ ProceedWithoutLock(t)
    \/ ReadBlockRules(t) \/ ReadAllowRules(t) \/ StoreCache(t)
    \/ ReleaseLock(t) \/ SetProcessCache(t) \/ SetProcessVersion(t)

----------------------------------------------------------------------------
(* The environment *)

\* A cache key reaches _CACHE_TTL, or is evicted.
CacheExpires(v) ==
    /\ cache[v] # None
    /\ cache' = [cache EXCEPT ![v] = None]
    /\ UNCHANGED <<db, version, lock, published, procVars, loadVars, writerVars>>

\* The lock reaches _REBUILD_LOCK_TTL, its holder still working or gone.
LockExpires ==
    /\ lock
    /\ lock' = FALSE
    /\ UNCHANGED <<db, version, cache, published, procVars, loadVars, writerVars>>

\* A worker process dies and is replaced.
Crash(p) ==
    /\ "crash" \in Faults
    /\ pcache' = [pcache EXCEPT ![p] = None]
    /\ pversion' = [pversion EXCEPT ![p] = -1]
    /\ EndLoad({t \in Threads : ProcOf[t] = p}, None)
    /\ UNCHANGED <<db, redisVars, writerVars>>

\* Redis restarts empty or is flushed: an absent version key reads as 0.
RedisLoss ==
    /\ "redis_loss" \in Faults
    /\ version' = 0
    /\ cache' = [v \in Versions |-> None]
    /\ lock' = FALSE
    /\ published' = [published EXCEPT ![0] = db]
    /\ UNCHANGED <<db, procVars, loadVars, writerVars>>

Next ==
    \/ \E w \in Writers : WriterStep(w)
    \/ \E t \in Threads : GetVersion(t) \/ LoadStep(t) \/ LoadError(t)
    \/ \E v \in Versions : CacheExpires(v)
    \/ LockExpires
    \/ \E p \in Processes : Crash(p)
    \/ RedisLoss

Spec == Init /\ [][Next]_vars

\* A running thread keeps running; nobody has to make a request or a change.
FairSpec == Spec /\ \A t \in Threads : WF_vars(LoadStep(t))
----------------------------------------------------------------------------
(* Properties *)

\* The JSON kept in Redis for a version reflects every write committed before
\* that version number was assigned, however long before the SETEX its SELECTs
\* ran, whoever else rebuilt meanwhile and whether or not the lock was held.
CacheFresh ==
    \A v \in 0..version : cache[v] # None => Covers(cache[v], published[v])

\* The same of the rule set a process keeps in _process_cache and returns
\* whenever Redis shows the version in _process_cache_version.
ProcessCacheFresh ==
    \A p \in Processes :
        pcache[p] # None /\ pversion[p] \in 0..version
            => Covers(pcache[p], published[pversion[p]])

\* What load_rule_cache promises its caller: the rule set it returns reflects
\* everything announced before the load began, and nothing uncommitted.
Service == INSTANCE RuleService WITH
    published <- published[version],
    floor <- [t \in Threads |-> IF pc[t] = "idle"
                                THEN None ELSE published[ver[t]]]

ImplementsRuleService == Service!Spec

\* Every rule change reaches the caches: once no writer is in the middle of a
\* change, whatever is cached for the current version is what the tables hold.
NoChangeLeftUnseen ==
    (\A w \in Writers : wpc[w] = "idle") =>
        /\ cache[version] \in {None, db}
        /\ \A p \in Processes :
              pversion[p] = version => pcache[p] \in {None, db}

\* The steps that the load of thread t can still take.
Remaining(t) ==
    LET retries == LockRetries - tries[t]
        After == [idle |-> 0, check |-> 9 + retries, fast |-> 1, fetch |-> 8 + retries,
                  lock |-> 7 + retries, block |-> 6, allow |-> 5, store |-> 4, release |-> 3,
                  setCache |-> 2, setVersion |-> 1]
    IN  After[pc[t]]

\* load_rule_cache takes a bounded number of steps whatever the writers, the other
\* loads, the TTLs and the faults do meanwhile: nothing that happens to a load under
\* way, the busy lock included, leaves it with as many steps to go as before.
LoadBounded ==
    [][\A t \in Threads : pc[t] # "idle" =>
          \/ Remaining(t)' < Remaining(t)
          \/ UNCHANGED <<pc[t], ver[t], snap[t], locked[t], tries[t]>>]_vars

\* A load always ends: no thread waits for a lock holder that died.
LoadTerminates ==
    \A t \in Threads : pc[t] # "idle" ~> pc[t] = "idle"
============================================================================
