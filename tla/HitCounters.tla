---------------------------- MODULE HitCounters ----------------------------
(***************************************************************************)
(* The hit counters of block rules: the request path that increments a     *)
(* Redis counter per rule, the scheduled flush that moves the counters     *)
(* into BlockRule.hit_count, and the liveness probe that drives a counter  *)
(* of its own through the same flush inside a transaction it rolls back,   *)
(* and then puts back the counters that flush swept up.                    *)
(*                                                                         *)
(* A counter is represented by the set of the hits it counts, so that a    *)
(* hit which is counted twice, or not at all, can be told.  Every Redis    *)
(* command (a MULTI is one) and every SQL statement is a step.             *)
(***************************************************************************)
CONSTANTS Rules,     \* block rules, none of them deleted meanwhile
          Hits,      \* bound: the hits that traffic may make
          Flushers,  \* workers that run flush_rule_hit_counts
          Probes,    \* workers that run probe_flush_path
          Faults,    \* the faults exercised, a subset of AllFaults
          Overlap    \* whether a flush or another probe may run while a probe does

AllFaults == {"redis", "db", "crash", "expiry"}

ASSUME HitCountersConstants ==
    /\ Faults \subseteq AllFaults
    /\ Overlap \in BOOLEAN
    /\ Flushers \cap Probes = {} /\ Rules \cap Probes = {} /\ Hits \cap Probes = {}

VARIABLES
    counter,   \* Redis waf:rule_hits:{rule}, empty when the key is absent
    stored,    \* committed BlockRule.hit_count
    pc, todo, hand,  \* control and locals of each flush or probe
    snapshot,  \* other_keys_snapshot of each probe
    tx,        \* what a probe's flush wrote in the probe's transaction
    broken,    \* the transaction has failed and accepts nothing more
    verdict,   \* what each probe reported last
    recorded,  \* history: every hit ever counted in Redis, by rule
    lost,      \* history: hits that are in no counter and no row any more
    hurt,      \* history: the probe itself met a fault
    during     \* history: hits made since the probe began

flushVars == <<pc, todo, hand>>
probeVars == <<snapshot, tx, broken, verdict, hurt>>
vars == <<counter, stored, flushVars, probeVars, recorded, lost, during>>

\* A probe stands for its synthetic rule, that rule's key and the hit on it.
Procs  == Flushers \cup Probes
Keys   == Rules \cup Probes
Tokens == Hits \cup Probes
NoHits == [k \in Keys |-> {}]

Steps == {"idle", "snapshot", "list", "take", "persist", "verify", "cleanup", "reconcile"}

TypeOK ==
    /\ counter \in [Keys -> SUBSET Tokens]
    /\ stored \in [Rules -> SUBSET Tokens]
    /\ pc \in [Procs -> Steps]
    /\ todo \in [Procs -> SUBSET Keys]
    /\ hand \in [Procs -> [Keys -> SUBSET Tokens]]
    /\ snapshot \in [Probes -> [Keys -> SUBSET Tokens]]
    /\ tx \in [Probes -> [Keys -> SUBSET Tokens]]
    /\ broken \in [Probes -> BOOLEAN]
    /\ verdict \in [Probes -> {"none", "alive", "failed"}]
    /\ recorded \in [Rules -> SUBSET Hits]
    /\ lost \subseteq Tokens
    /\ hurt \in [Probes -> BOOLEAN]
    /\ during \in [Probes -> SUBSET Hits]

Init ==
    /\ counter = NoHits
    /\ stored = [k \in Rules |-> {}]
    /\ pc = [f \in Procs |-> "idle"]
    /\ todo = [f \in Procs |-> {}]
    /\ hand = [f \in Procs |-> NoHits]
    /\ snapshot = [p \in Probes |-> NoHits]
    /\ tx = [p \in Probes |-> NoHits]
    /\ broken = [p \in Probes |-> FALSE]
    /\ verdict = [p \in Probes |-> "none"]
    /\ recorded = [k \in Rules |-> {}]
    /\ lost = {}
    /\ hurt = [p \in Probes |-> FALSE]
    /\ during = [p \in Probes |-> {}]

Present == {k \in Keys : counter[k] # {}}
ProbesIdle == \A p \in Probes : pc[p] = "idle"
Go(f, step) == pc' = [pc EXCEPT ![f] = step]

\* Hits are lost: by an error, which the code logs; or unlogged, with a worker
\* that dies, a counter that expires, or a probe that undoes what it did not make.
Drop(S) == lost' = lost \cup S

\* Process f met fault x.
Fault(f, x) ==
    /\ x \in Faults
    /\ hurt' = [p \in Probes |-> hurt[p] \/ p = f]

----------------------------------------------------------------------------
(* _record_rule_hit *)

\* INCR, and an EXPIRE that starts the two days of the key anew.  A command that
\* fails is swallowed; without its INCR a hit was never recorded.
Hit(k, h) ==
    /\ \A j \in Rules : h \notin recorded[j]
    /\ counter' = [counter EXCEPT ![k] = @ \cup {h}]
    /\ recorded' = [recorded EXCEPT ![k] = @ \cup {h}]
    /\ during' = [p \in Probes |-> IF pc[p] = "idle" THEN {} ELSE during[p] \cup {h}]
    /\ UNCHANGED <<stored, flushVars, probeVars, lost>>

\* No flush has come and no hit was made for two days: the key is gone.  What a
\* probe has copied of it comes back.
CounterExpires(k) ==
    /\ "expiry" \in Faults
    /\ counter[k] # {}
    /\ counter' = [counter EXCEPT ![k] = {}]
    /\ Drop(counter[k] \ UNION {snapshot[p][k] : p \in Probes})
    /\ UNCHANGED <<stored, flushVars, probeVars, recorded, during>>

----------------------------------------------------------------------------
(* flush_rule_hit_counts, run by the scheduler or by a probe *)

MayFlush(f) ==
    \/ f \in Flushers /\ pc[f] = "idle" /\ (ProbesIdle \/ Overlap)
    \/ f \in Probes /\ pc[f] = "list"

\* Mutant: the consumer's key prefix has drifted from the producer's.
ListDriftedPrefix(f) ==
    /\ MayFlush(f)
    /\ todo' = [todo EXCEPT ![f] = {}]
    /\ Go(f, "take")
    /\ UNCHANGED <<counter, stored, hand, probeVars, recorded, during, lost>>

\* KEYS waf:rule_hits:*
ListKeys(f) ==
    /\ MayFlush(f)
    /\ todo' = [todo EXCEPT ![f] = Present]
    /\ Go(f, "take")
    /\ UNCHANGED <<counter, stored, hand, probeVars, recorded, during, lost>>

ListFails(f) ==
    /\ MayFlush(f)
    /\ Fault(f, "redis")
    /\ Go(f, IF f \in Probes THEN "verify" ELSE "idle")
    /\ UNCHANGED <<counter, stored, todo, hand, snapshot, tx, broken, verdict, recorded, during, lost>>

\* Mutant: a command that the server rejects every time, and an error swallowed.
TakeRejected(f, k) ==
    /\ pc[f] = "take"
    /\ k \in todo[f]
    /\ todo' = [todo EXCEPT ![f] = @ \ {k}]
    /\ UNCHANGED <<counter, stored, pc, hand, probeVars, recorded, during, lost>>

\* The pipeline of GET and DEL for the next key; a count of zero is skipped.
Take(f, k) ==
    /\ pc[f] = "take"
    /\ k \in todo[f]
    /\ todo' = [todo EXCEPT ![f] = @ \ {k}]
    /\ counter' = [counter EXCEPT ![k] = {}]
    /\ hand' = [hand EXCEPT ![f][k] = counter[k]]
    /\ Go(f, IF counter[k] = {} THEN "take" ELSE "persist")
    /\ UNCHANGED <<stored, probeVars, recorded, during, lost>>

\* It fails before it reached Redis, or its answer is lost on the way back.
TakeFails(f, k) ==
    /\ pc[f] = "take"
    /\ k \in todo[f]
    /\ Fault(f, "redis")
    /\ todo' = [todo EXCEPT ![f] = @ \ {k}]
    /\ \/ UNCHANGED <<counter, lost>>
       \/ /\ counter' = [counter EXCEPT ![k] = {}]
          /\ Drop(IF f \in Probes THEN counter[k] \ snapshot[f][k] ELSE counter[k])
    /\ UNCHANGED <<stored, pc, hand, snapshot, tx, broken, verdict, recorded, during>>

\* Another transaction has written the row and not ended.
RowLocked(f, k) == k \in Rules /\ \E p \in Probes \ {f} : tx[p][k] # {}

\* UPDATE ... SET hit_count = hit_count + count.  The rule of a probe is visible
\* to that probe alone; anyone else's UPDATE matches no row.
Persist(f, k) ==
    /\ pc[f] = "persist"
    /\ hand[f][k] # {}
    /\ ~RowLocked(f, k)
    /\ \/ /\ f \in Flushers
          /\ stored' = [j \in Rules |-> IF j = k THEN stored[j] \cup hand[f][k] ELSE stored[j]]
          /\ UNCHANGED tx
       \/ /\ f \in Probes /\ ~broken[f]
          /\ tx' = [tx EXCEPT ![f][k] = IF k \in Rules \cup {f} THEN @ \cup hand[f][k] ELSE @]
          /\ UNCHANGED stored
    /\ hand' = [hand EXCEPT ![f] = NoHits]
    /\ Go(f, "take")
    /\ UNCHANGED <<counter, todo, snapshot, broken, verdict, hurt, recorded, during, lost>>

\* Mutant: a failed UPDATE is logged as lost, and the count put back for the next run.
PersistFailsKept(f, k) ==
    /\ pc[f] = "persist"
    /\ hand[f][k] # {}
    /\ Fault(f, "db")
    /\ Drop(hand[f][k])
    /\ counter' = [counter EXCEPT ![k] = @ \cup hand[f][k]]
    /\ hand' = [hand EXCEPT ![f] = NoHits]
    /\ Go(f, "take")
    /\ UNCHANGED <<stored, todo, snapshot, tx, broken, verdict, recorded, during>>

\* The UPDATE fails after the counter is gone.  In a probe that marks the whole
\* transaction for rollback, and every later UPDATE fails as well.
PersistFails(f, k) ==
    /\ pc[f] = "persist"
    /\ hand[f][k] # {}
    /\ \/ /\ f \in Flushers /\ Fault(f, "db")
          /\ Drop(hand[f][k])
          /\ UNCHANGED broken
       \/ /\ f \in Probes /\ ((broken[f] /\ UNCHANGED hurt) \/ Fault(f, "db"))
          /\ Drop(hand[f][k] \ snapshot[f][k])
          /\ broken' = [broken EXCEPT ![f] = TRUE]
    /\ hand' = [hand EXCEPT ![f] = NoHits]
    /\ Go(f, "take")
    /\ UNCHANGED <<counter, stored, todo, snapshot, tx, verdict, recorded, during>>

EndFlush(f) ==
    /\ pc[f] = "take"
    /\ todo[f] = {}
    /\ Go(f, IF f \in Probes THEN "verify" ELSE "idle")
    /\ UNCHANGED <<counter, stored, todo, hand, probeVars, recorded, during, lost>>

----------------------------------------------------------------------------
(* run_flush_probe *)

\* The synthetic rule is created, with a key of its own, and KEYS lists the
\* counters to snapshot; a listing that fails is taken for an empty one.  (A key
\* left behind by an earlier run counts for a rule that no longer exists.)
ProbeBegin(p) ==
    /\ pc[p] = "idle"
    /\ Overlap \/ \A f \in Procs : pc[f] = "idle"
    /\ \/ /\ todo' = [todo EXCEPT ![p] = Present \ {p}]
          /\ hurt' = [hurt EXCEPT ![p] = FALSE]
       \/ /\ "redis" \in Faults
          /\ todo' = [todo EXCEPT ![p] = {}]
          /\ hurt' = [hurt EXCEPT ![p] = TRUE]
    /\ verdict' = [verdict EXCEPT ![p] = "none"]
    /\ counter' = [counter EXCEPT ![p] = {}]
    /\ Go(p, "snapshot")
    /\ UNCHANGED <<stored, hand, snapshot, tx, broken, recorded, during, lost>>

\* Mutant: a counter is left out of the snapshot though its GET succeeds.
SnapshotSkips(p, k) ==
    /\ pc[p] = "snapshot"
    /\ k \in todo[p]
    /\ todo' = [todo EXCEPT ![p] = @ \ {k}]
    /\ UNCHANGED <<counter, stored, pc, hand, probeVars, recorded, during, lost>>

\* _snapshot_other_keys: GET of the next key.  One that fails is left out.
SnapshotKey(p, k) ==
    /\ pc[p] = "snapshot"
    /\ k \in todo[p]
    /\ todo' = [todo EXCEPT ![p] = @ \ {k}]
    /\ \/ snapshot' = [snapshot EXCEPT ![p][k] = counter[k]] /\ UNCHANGED hurt
       \/ Fault(p, "redis") /\ UNCHANGED snapshot
    /\ UNCHANGED <<counter, stored, pc, hand, tx, broken, verdict, recorded, during, lost>>

\* The producer is called for the synthetic rule; it swallows its errors.
ProbeRecord(p) ==
    /\ pc[p] = "snapshot"
    /\ todo[p] = {}
    /\ \/ counter' = [counter EXCEPT ![p] = {p}] /\ UNCHANGED hurt
       \/ Fault(p, "redis") /\ UNCHANGED counter
    /\ Go(p, "list")
    /\ UNCHANGED <<stored, todo, hand, snapshot, tx, broken, verdict, recorded, during, lost>>

\* The synthetic rule and its key are read back, and the transaction rolled
\* back whatever they show.  A read that fails counts as a dead flush path.
ProbeVerify(p) ==
    /\ pc[p] = "verify"
    /\ \/ /\ verdict' = [verdict EXCEPT ![p] =
                IF ~broken[p] /\ tx[p][p] = {p} /\ counter[p] = {} THEN "alive" ELSE "failed"]
          /\ UNCHANGED hurt
       \/ /\ Fault(p, "redis")
          /\ verdict' = [verdict EXCEPT ![p] = "failed"]
    /\ tx' = [tx EXCEPT ![p] = NoHits]
    /\ broken' = [broken EXCEPT ![p] = FALSE]
    /\ Drop(UNION {tx[p][k] \ snapshot[p][k] : k \in Rules})
    /\ Go(p, "cleanup")
    /\ UNCHANGED <<counter, stored, todo, hand, snapshot, recorded, during>>

\* Mutant: the counters the probe's flush swept up are not put back.
CleanupOnly(p) ==
    /\ pc[p] = "cleanup"
    /\ \/ counter' = [counter EXCEPT ![p] = {}] /\ UNCHANGED hurt
       \/ Fault(p, "redis") /\ UNCHANGED counter
    /\ snapshot' = [snapshot EXCEPT ![p] = NoHits]
    /\ Go(p, "reconcile")
    /\ UNCHANGED <<stored, todo, hand, tx, broken, verdict, recorded, during, lost>>

\* _cleanup_probe_key; a key it fails to delete is left to its TTL.
ProbeCleanup(p) ==
    /\ pc[p] = "cleanup"
    /\ \/ counter' = [counter EXCEPT ![p] = {}] /\ UNCHANGED hurt
       \/ Fault(p, "redis") /\ UNCHANGED counter
    /\ todo' = [todo EXCEPT ![p] = {k \in Keys : snapshot[p][k] # {}}]
    /\ Go(p, "reconcile")
    /\ UNCHANGED <<stored, hand, snapshot, tx, broken, verdict, recorded, during, lost>>

\* Mutant: the database row is restored as well as the key.
ReconcileBoth(p, k) ==
    /\ pc[p] = "reconcile"
    /\ k \in todo[p]
    /\ counter' = [counter EXCEPT ![k] = snapshot[p][k]]
    /\ stored' = [j \in Rules |-> IF j = k THEN stored[j] \cup snapshot[p][k] ELSE stored[j]]
    /\ todo' = [todo EXCEPT ![p] = @ \ {k}]
    /\ snapshot' = [snapshot EXCEPT ![p][k] = {}]
    /\ UNCHANGED <<pc, hand, tx, broken, verdict, hurt, recorded, during, lost>>

\* _reconcile_other_keys: SET of the next key to its snapshot, over whatever was
\* counted in it since.
Reconcile(p, k) ==
    /\ pc[p] = "reconcile"
    /\ k \in todo[p]
    /\ \/ /\ counter' = [counter EXCEPT ![k] = snapshot[p][k]]
          /\ Drop(counter[k] \ snapshot[p][k])
          /\ UNCHANGED hurt
       \/ Fault(p, "redis") /\ Drop(snapshot[p][k] \ counter[k]) /\ UNCHANGED counter
    /\ todo' = [todo EXCEPT ![p] = @ \ {k}]
    /\ snapshot' = [snapshot EXCEPT ![p][k] = {}]
    /\ UNCHANGED <<stored, pc, hand, tx, broken, verdict, recorded, during>>

ProbeEnd(p) ==
    /\ pc[p] = "reconcile"
    /\ todo[p] = {}
    /\ Go(p, "idle")
    /\ during' = [during EXCEPT ![p] = {}]
    /\ UNCHANGED <<counter, stored, todo, hand, probeVars, recorded, lost>>

----------------------------------------------------------------------------

\* A worker dies.  The database rolls its transaction back; what it had taken
\* out of Redis is gone, and no log line says so.
Crash(f) ==
    /\ pc[f] # "idle"
    /\ Fault(f, "crash")
    /\ Drop(UNION {hand[f][k] \cup (IF f \in Probes THEN (tx[f][k] \cup snapshot[f][k]) \ counter[k]
                                                   ELSE {}) : k \in Keys})
    /\ pc' = [pc EXCEPT ![f] = "idle"]
    /\ todo' = [todo EXCEPT ![f] = {}]
    /\ hand' = [hand EXCEPT ![f] = NoHits]
    /\ snapshot' = [p \in Probes |-> IF p = f THEN NoHits ELSE snapshot[p]]
    /\ tx' = [p \in Probes |-> IF p = f THEN NoHits ELSE tx[p]]
    /\ broken' = [p \in Probes |-> broken[p] /\ p # f]
    /\ during' = [p \in Probes |-> IF p = f THEN {} ELSE during[p]]
    /\ UNCHANGED <<counter, stored, verdict, recorded>>

FlushStep(f) ==
    \/ ListKeys(f) \/ ListFails(f) \/ EndFlush(f)
    \/ \E k \in Keys : Take(f, k) \/ TakeFails(f, k) \/ Persist(f, k) \/ PersistFails(f, k)

ProbeStep(p) ==
    \/ ProbeRecord(p) \/ ProbeVerify(p) \/ ProbeCleanup(p) \/ ProbeEnd(p)
    \/ \E k \in Keys : SnapshotKey(p, k) \/ Reconcile(p, k)

Next ==
    \/ \E k \in Rules : CounterExpires(k) \/ \E h \in Hits : Hit(k, h)
    \/ \E f \in Procs : FlushStep(f) \/ Crash(f)
    \/ \E p \in Probes : ProbeBegin(p) \/ ProbeStep(p)

Spec == Init /\ [][Next]_vars

\* The flush is scheduled for ever and its workers keep running; a Redis error
\* does not recur for ever on the same key.
FairSpec ==
    /\ Spec
    /\ \A f \in Flushers : SF_vars(ListKeys(f)) /\ \A k \in Rules : SF_vars(Take(f, k))
    /\ \A f \in Procs : WF_vars(FlushStep(f) /\ pc[f] # "idle")
    /\ \A p \in Probes : WF_vars(ProbeStep(p))

----------------------------------------------------------------------------
(* Properties *)

\* Every hit is accounted for once, also the ones made while a probe runs: whenever
\* no flush and no probe is under way, a recorded hit is in BlockRule.hit_count, or
\* still in its Redis counter, or was lost at a step known to lose hits (an error the
\* code logs; a crash; an expired counter; a probe's rollback or SET over newer hits),
\* and in only one of the three.
HitsAccounted ==
    (\A f \in Procs : pc[f] = "idle") =>
        \A k \in Rules :
            /\ recorded[k] = stored[k] \cup counter[k] \cup (recorded[k] \cap lost)
            /\ stored[k] \cap counter[k] = {}
            /\ (stored[k] \cup counter[k]) \cap lost = {}

\* What a probe undoes: with no error of its own it takes along no hit but those made
\* since it began, for _snapshot_other_keys has a copy of every earlier one, which
\* survives the rollback and comes back with _reconcile_other_keys.
ProbeSparesEarlierHits ==
    [][\A p \in Probes : FlushStep(p) \/ ProbeStep(p) =>
           hurt'[p] \/ Hits \cap (lost' \ lost) \subseteq during[p]]_vars

\* The database never gets ahead of the traffic: hit_count holds no hit that was
\* not made, and none that is about to be added to it again.
NeverCountedTwice ==
    \A k \in Rules, f \in Flushers :
        /\ stored[k] \subseteq recorded[k]
        /\ stored[k] \cap (counter[k] \cup hand[f][k]) = {}

\* What flush_rule_hit_counts and the probe promise together: a hit that has been
\* recorded ends in BlockRule.hit_count or among the lost ones, only once and for
\* good, however often it is taken out of Redis and put back before that.
Tally == INSTANCE HitTally WITH
    made <- recorded,
    counted <- stored,
    given_up <- [k \in Rules |-> recorded[k] \cap lost]

ImplementsHitTally == Tally!Spec

\* A probe that reports a dead flush path met an error itself.
NoFalseAlarm == \A p \in Probes : verdict[p] = "failed" => hurt[p]

\* An unflushed counter waits for the next run, not for ever.
HitsReachDatabase ==
    \A h \in Hits :
        (\E k \in Rules : h \in recorded[k]) ~> (\E k \in Rules : h \in stored[k] \cup lost)
============================================================================
