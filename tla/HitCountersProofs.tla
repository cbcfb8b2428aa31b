------------------------- MODULE HitCountersProofs --------------------------
(***************************************************************************)
(* Theorems about HitCounters for any number of rules, hits and workers:   *)
(* the inductive invariant behind its accounting, and what follows of it.  *)
(***************************************************************************)
EXTENDS HitCounters, TLAPS

----------------------------------------------------------------------------
(* Every hit in one place *)

\* No flush and no other probe runs while a probe does.  Hits may be made meanwhile.
NoOtherFlush == ~Overlap

\* A probe that runs is then the only process running.
Alone == \A p \in Probes : pc[p] # "idle" => \A f \in Procs : f # p => pc[f] = "idle"

\* Locals hold hits only between the steps that fill and empty them.
Phases ==
    /\ \A f \in Procs : pc[f] # "persist" => hand[f] = NoHits
    /\ \A f \in Procs : \A j, k \in Keys : hand[f][j] # {} /\ hand[f][k] # {} => j = k
    /\ \A p \in Probes :
          /\ pc[p] = "idle" => snapshot[p] = NoHits
          /\ pc[p] \notin {"take", "persist", "verify"} => tx[p] = NoHits
          /\ pc[p] = "snapshot" => \A k \in todo[p] : snapshot[p][k] = {}
          /\ pc[p] = "reconcile" => \A k \in Keys : (snapshot[p][k] # {}) <=> (k \in todo[p])

\* Hits stay with the rule they were recorded for, and two rules share none.
Home(k) == IF k \in Rules THEN recorded[k] ELSE Probes

Homes ==
    /\ \A j, k \in Rules : j # k => recorded[j] \cap recorded[k] = {}
    /\ \A k \in Rules : stored[k] \subseteq recorded[k]
    /\ \A h \in lost : \E k \in Keys : h \in Home(k)
    /\ \A k \in Keys :
          /\ counter[k] \subseteq Home(k)
          /\ \A f \in Procs : hand[f][k] \subseteq Home(k)
          /\ \A p \in Probes : tx[p][k] \subseteq Home(k) /\ snapshot[p][k] \subseteq Home(k)

\* A hit of rule k is somewhere ...
Somewhere(k) ==
    \A h \in recorded[k] :
        \/ h \in stored[k] \/ h \in counter[k] \/ h \in lost
        \/ \E f \in Procs : h \in hand[f][k]
        \/ \E p \in Probes : h \in tx[p][k] \/ h \in snapshot[p][k]

\* ... and in one place, but for the copy a probe has made of a counter.
Once(k) ==
    /\ stored[k] \cap counter[k] = {} /\ stored[k] \cap lost = {} /\ counter[k] \cap lost = {}
    /\ \A f \in Procs : hand[f][k] \cap (stored[k] \cup counter[k] \cup lost) = {}
    /\ \A f, g \in Procs : f # g => hand[f][k] \cap hand[g][k] = {}
    /\ \A p \in Probes :
          /\ tx[p][k] \cap (stored[k] \cup counter[k] \cup lost) = {}
          /\ tx[p][k] \cap hand[p][k] = {}
          /\ snapshot[p][k] \cap (stored[k] \cup lost) = {}

Ledger == Alone /\ Phases /\ Homes /\ \A k \in Rules : Somewhere(k) /\ Once(k)

\* The ledger is empty at first.
LEMMA InitLedger == Init => Ledger
<1> SUFFICES ASSUME Init PROVE Ledger
  BY Zenon
<1>1. Alone /\ Phases
  BY Zenon DEF Init, Alone, Phases, Procs, NoHits
<1>2. Homes
  BY Zenon DEF Init, Homes, NoHits, Keys
<1>3. \A k \in Rules : Somewhere(k) /\ Once(k)
  BY Zenon DEF Init, Somewhere, Once, NoHits, Keys, Procs
<1> QED BY <1>1, <1>2, <1>3, Zenon DEF Ledger

\* Hits dropped from key k leave the other rules alone.
LEMMA OtherHome ==
    ASSUME Homes, TypeOK, NEW j \in Rules, NEW k \in Keys, j # k
    PROVE  Home(k) \cap recorded[j] = {}
BY HitCountersConstants, Zenon DEF Homes, Home, TypeOK, Keys

\* A process that starts when it may, goes on or stops leaves every probe alone.
LEMMA KeepsAlone ==
    ASSUME TypeOK, Alone, NEW f \in Procs, NEW s \in Steps, pc' = [pc EXCEPT ![f] = s],
           \/ pc[f] # "idle" \/ s = "idle"
           \/ f \notin Probes /\ ProbesIdle
           \/ \A g \in Procs : pc[g] = "idle"
    PROVE  Alone'
BY Zenon DEF TypeOK, Alone, ProbesIdle, Procs

\* A new hit is in its counter and nowhere else.
LEMMA HitLedger ==
    ASSUME NoOtherFlush, TypeOK, Ledger, NEW k \in Rules, NEW h \in Hits, Hit(k, h)
    PROVE  Ledger'
<1>0. /\ k \in Keys /\ h \notin Probes
      /\ \A j \in Keys : counter'[j] = IF j = k THEN counter[k] \cup {h} ELSE counter[j]
      /\ \A j \in Rules : recorded'[j] = IF j = k THEN recorded[k] \cup {h} ELSE recorded[j]
      /\ \A j \in Rules : h \notin recorded[j]
  BY HitCountersConstants, Zenon DEF Hit, TypeOK, Keys
<1>1. UNCHANGED <<stored, pc, todo, hand, snapshot, tx, lost>>
  BY Zenon DEF Hit, flushVars, probeVars
<1>3. Alone' /\ Phases'
  <2>1. Alone'
    BY <1>1, Zenon DEF Ledger, Alone
  <2>3. Phases'
    BY <1>1 DEF Ledger, Phases
  <2> QED BY <2>1, <2>3
<1>4. Homes'
  <2>1. \A j \in Keys : Home(j) \subseteq Home(j)'
    BY <1>0, Zenon DEF Home
  <2>2. \A j \in Keys : counter'[j] \subseteq Home(j)'
    BY <1>0, <2>1 DEF Ledger, Homes, Home
  <2> QED BY <1>0, <1>1, <2>1, <2>2 DEF Ledger, Homes
<1>5. ASSUME NEW j \in Rules PROVE Somewhere(j)' /\ Once(j)'
  <2>0. j \in Keys
    BY Zenon DEF Keys
  <2>1. Somewhere(j)'
    BY <1>0, <1>1, <2>0, Zenon DEF Ledger, Somewhere
  <2>2. CASE j # k
    BY <1>0, <1>1, <2>0, <2>1, <2>2, ZenonT(60) DEF Ledger, Once
  <2>3. CASE j = k
    <3>0. h \notin recorded[k] /\ \A S : S \subseteq recorded[k] => h \notin S
      BY <1>0, Zenon
    <3>1. /\ h \notin stored[k] /\ \A f \in Procs : h \notin hand[f][k]
          /\ \A p \in Probes : h \notin tx[p][k] /\ h \notin snapshot[p][k]
      BY <1>0, <3>0, Zenon DEF Ledger, Homes, Home
    <3>2. h \notin lost
      BY <1>0, Zenon DEF Ledger, Homes, Home
    <3> QED BY <1>0, <1>1, <2>1, <2>3, <3>1, <3>2 DEF Ledger, Once
  <2> QED BY <2>1, <2>2, <2>3, Zenon
<1> QED BY <1>3, <1>4, <1>5, Zenon DEF Ledger

\* A rule none of whose hits move stays in order.
LEMMA Untouched ==
    ASSUME NEW j \in Rules, Homes, Somewhere(j), Once(j), recorded'[j] = recorded[j],
           stored'[j] = stored[j], counter'[j] = counter[j],
           \A h \in recorded[j] : h \in lost' <=> h \in lost,
           \A f \in Procs : hand'[f][j] = hand[f][j],
           \A p \in Probes : tx'[p][j] = tx[p][j] /\ snapshot'[p][j] = snapshot[p][j]
    PROVE  Somewhere(j)' /\ Once(j)'
<1>0. j \in Keys
  BY Zenon DEF Keys
<1>1. Somewhere(j)'
  BY Zenon DEF Somewhere
<1>2. /\ stored[j] \subseteq recorded[j] /\ counter[j] \subseteq recorded[j]
      /\ \A f \in Procs : hand[f][j] \subseteq recorded[j]
      /\ \A p \in Probes : tx[p][j] \subseteq recorded[j] /\ snapshot[p][j] \subseteq recorded[j]
  BY <1>0, Zenon DEF Homes, Home
<1>3. Once(j)'
  BY <1>2, ZenonT(60) DEF Once, Procs
<1> QED BY <1>1, <1>3, Zenon

\* What a step that only drops hits of one key leaves true.
LEMMA DropHomes ==
    ASSUME Homes, NEW k \in Keys, NEW S, S \subseteq Home(k), lost' \subseteq lost \cup S,
           UNCHANGED recorded
    PROVE  \A h \in lost' : \E j \in Keys : h \in Home(j)'
BY Zenon DEF Homes, Home

\* The hits of the key a flush takes move from the counter into its hand.
LEMMA TakeLedger ==
    ASSUME TypeOK, Ledger, NEW f \in Procs, NEW k \in Keys, Take(f, k)
    PROVE  Ledger'
<1>0. /\ \A j \in Keys : counter'[j] = IF j = k THEN {} ELSE counter[j]
      /\ hand[f] = NoHits
      /\ \A g \in Procs : g # f => hand'[g] = hand[g]
      /\ \A j \in Keys : hand'[f][j] = IF j = k THEN counter[k] ELSE {}
      /\ \A g \in Procs : pc'[g] = IF g # f THEN pc[g] ELSE IF counter[k] = {} THEN "take" ELSE "persist"
      /\ counter[k] = {} => hand'[f] = NoHits
  <2>1. hand[f] = NoHits
    BY Zenon DEF Take, Ledger, Phases
  <2>2. hand' = [hand EXCEPT ![f] = [NoHits EXCEPT ![k] = counter[k]]]
    BY <2>1, Zenon DEF Take
  <2>3. counter[k] = {} => [NoHits EXCEPT ![k] = counter[k]] = NoHits
    BY Zenon DEF NoHits
  <2>4. /\ counter' = [counter EXCEPT ![k] = {}]
        /\ pc' = [pc EXCEPT ![f] = IF counter[k] = {} THEN "take" ELSE "persist"]
    BY Zenon DEF Take, Go
  <2>5. \A j \in Keys : [NoHits EXCEPT ![k] = counter[k]][j] = IF j = k THEN counter[k] ELSE {}
    BY Zenon DEF NoHits
  <2>6. /\ \A g \in Procs : g # f => hand'[g] = hand[g]
        /\ hand'[f] = [NoHits EXCEPT ![k] = counter[k]]
    BY <2>2, Zenon DEF TypeOK
  <2>7. /\ \A j \in Keys : counter'[j] = IF j = k THEN {} ELSE counter[j]
        /\ \A g \in Procs : pc'[g] = IF g # f THEN pc[g] ELSE IF counter[k] = {} THEN "take" ELSE "persist"
    BY <2>4, Zenon DEF TypeOK
  <2> QED BY <2>1, <2>3, <2>5, <2>6, <2>7, Zenon
<1>1. UNCHANGED <<stored, snapshot, tx, recorded, lost>> /\ pc[f] = "take"
  BY Zenon DEF Take, probeVars
<1>2. Alone'
  BY KeepsAlone, Zenon DEF Take, Go, Ledger, Steps
<1>3. Phases'
  <2>1. \A g \in Procs : pc'[g] # "persist" => hand'[g] = NoHits
    BY <1>0, <1>1 DEF Ledger, Phases
  <2>2. \A p \in Probes : p # f => pc[p] \notin {"snapshot", "list", "reconcile"}
    BY <1>1, Zenon DEF Ledger, Alone, Procs
  <2>3. \A p \in Probes : p \in Procs
    BY Zenon DEF Procs
  <2>4. \A g \in Procs : \A i, j \in Keys : hand'[g][i] # {} /\ hand'[g][j] # {} => i = j
    BY <1>0 DEF Ledger, Phases
  <2> QED BY <1>0, <1>1, <2>1, <2>2, <2>3, <2>4 DEF Ledger, Phases
<1>4. Homes'
  BY <1>0, <1>1, ZenonT(60) DEF Ledger, Homes, Home
<1>5. ASSUME NEW j \in Rules PROVE Somewhere(j)' /\ Once(j)'
  <2>0. j \in Keys
    BY Zenon DEF Keys
  <2>1. CASE j # k
    <3>1. \A g \in Procs : hand'[g][j] = hand[g][j]
      BY <1>0, <2>0, <2>1, Zenon DEF NoHits
    <3> QED BY <1>0, <1>1, <2>0, <2>1, <3>1, Untouched, Zenon DEF Ledger
  <2>2. CASE j = k
    <3>1. \A g \in Procs : hand'[g][j] = IF g = f THEN counter[j] ELSE hand[g][j]
      BY <1>0, <2>0, <2>2, Zenon
    <3>2. hand[f][j] = {} /\ counter'[j] = {}
      BY <1>0, <2>0, <2>2, Zenon DEF NoHits
    <3>3. Somewhere(j)'
      BY <1>0, <1>1, <2>0, <3>1, <3>2, ZenonT(60) DEF Ledger, Somewhere
    <3>4. Once(j)'
      BY <1>0, <1>1, <2>0, <3>1, <3>2 DEF Ledger, Once, Procs
    <3> QED BY <3>3, <3>4, Zenon
  <2> QED BY <2>1, <2>2, Zenon
<1> QED BY <1>2, <1>3, <1>4, <1>5, Zenon DEF Ledger

\* Steps that only list keys or end a loop.
LEMMA ControlLedger ==
    ASSUME NoOtherFlush, TypeOK, Ledger, NEW f \in Procs,
           \/ ListKeys(f) \/ ListFails(f) \/ EndFlush(f)
           \/ f \in Probes /\ ProbeEnd(f)
    PROVE  Ledger'
<1>0. UNCHANGED <<counter, stored, hand, snapshot, tx, recorded, lost>>
  BY Zenon DEF ListKeys, ListFails, EndFlush, ProbeEnd, probeVars
<1>1. PICK s \in Steps : pc' = [pc EXCEPT ![f] = s] /\ s \in {"take", "verify", "idle"}
  BY Zenon DEF ListKeys, ListFails, EndFlush, ProbeEnd, Go, Steps
<1>2. Alone'
  <2>1. pc[f] # "idle" \/ (f \notin Probes /\ ProbesIdle)
    <3>1. f \in Flushers => f \notin Probes
      BY HitCountersConstants, Zenon
    <3>2. ~Overlap
      BY Zenon DEF NoOtherFlush
    <3>3. CASE ListKeys(f) \/ ListFails(f)
      BY <3>1, <3>2, <3>3, Zenon DEF ListKeys, ListFails, MayFlush
    <3>4. CASE EndFlush(f) \/ ProbeEnd(f)
      BY <3>4, Zenon DEF EndFlush, ProbeEnd
    <3> QED BY <3>3, <3>4, Zenon
  <2> QED BY <1>1, <2>1, KeepsAlone, Zenon DEF Ledger
<1>3. Phases'
  <2>1. hand[f] = NoHits
    BY Zenon DEF ListKeys, ListFails, EndFlush, ProbeEnd, MayFlush, Ledger, Phases
  <2>2. \A g \in Procs : pc'[g] # "persist" => hand'[g] = NoHits
    <3>1. \A g \in Procs : pc[g] # "persist" => hand[g] = NoHits
      BY Zenon DEF Ledger, Phases
    <3>2. \A g \in Procs : g # f => pc'[g] = pc[g]
      BY <1>1, Zenon DEF TypeOK
    <3> QED BY <1>0, <2>1, <3>1, <3>2, Zenon
  <2>3. ASSUME NEW p \in Probes, p # f
        PROVE  pc'[p] = pc[p] /\ (pc[p] \in {"snapshot", "reconcile"} => UNCHANGED todo)
    <3>1. pc'[p] = pc[p] /\ p \in Procs
      BY <1>1, <2>3, Zenon DEF TypeOK, Procs
    <3>2. CASE pc[p] \in {"snapshot", "reconcile"}
      <4>1. pc[f] = "idle"
        BY <2>3, <3>2, Zenon DEF Ledger, Alone
      <4>2. ~ProbesIdle
        BY <3>2, Zenon DEF ProbesIdle
      <4> QED BY <4>1, <4>2, Zenon DEF ListKeys, ListFails, EndFlush, ProbeEnd, MayFlush, NoOtherFlush
    <3> QED BY <3>1, <3>2, Zenon
  <2>4. ASSUME f \in Probes
        PROVE  /\ pc'[f] = "idle" => snapshot[f] = NoHits /\ tx[f] = NoHits
               /\ pc'[f] \in {"take", "verify", "idle"}
    <3>1. pc'[f] = s
      BY <1>1, Zenon DEF TypeOK
    <3>2. CASE s = "idle"
      <4>1. pc[f] = "reconcile" /\ todo[f] = {}
        BY <1>1, <2>4, <3>1, <3>2, Zenon DEF ListKeys, ListFails, EndFlush, ProbeEnd, Go, TypeOK
      <4>2. \A k \in Keys : snapshot[f][k] = {}
        BY <2>4, <4>1, Zenon DEF Ledger, Phases
      <4>3. snapshot[f] = [k \in Keys |-> snapshot[f][k]]
        BY <2>4, Zenon DEF TypeOK
      <4>4. snapshot[f] = NoHits
        BY <4>2, <4>3, Zenon DEF NoHits
      <4>5. tx[f] = NoHits
        BY <2>4, <4>1, Zenon DEF Ledger, Phases
      <4> QED BY <3>1, <3>2, <4>4, <4>5, Zenon
    <3> QED BY <1>1, <3>1, <3>2, Zenon
  <2>5. \A g \in Procs : \A j, k \in Keys : hand'[g][j] # {} /\ hand'[g][k] # {} => j = k
    BY <1>0, Zenon DEF Ledger, Phases
  <2> QED BY <1>0, <2>2, <2>3, <2>4, <2>5, SMTT(60) DEF Ledger, Phases
<1>4. Homes'
  BY <1>0, Zenon DEF Ledger, Homes, Home
<1>5. \A j \in Rules : Somewhere(j)' /\ Once(j)'
  BY <1>0, Untouched, Zenon DEF Ledger
<1> QED BY <1>2, <1>3, <1>4, <1>5, Zenon DEF Ledger

\* A pipeline that fails leaves the counter, or loses what no snapshot holds.
LEMMA TakeFailsLedger ==
    ASSUME TypeOK, Ledger, NEW f \in Procs, NEW k \in Keys, TakeFails(f, k)
    PROVE  Ledger'
<1> DEFINE gone == IF f \in Probes THEN counter[k] \ snapshot[f][k] ELSE counter[k]
<1>0. /\ UNCHANGED <<stored, pc, hand, snapshot, tx, recorded>> /\ pc[f] = "take"
      /\ \/ UNCHANGED <<counter, lost>>
         \/ counter' = [counter EXCEPT ![k] = {}] /\ lost' = lost \cup gone
  BY Zenon DEF TakeFails, Drop
<1>1. Alone'
  BY <1>0, Zenon DEF Ledger, Alone
<1>2. Phases'
  <2>1. \A p \in Probes : p \in Procs
    BY Zenon DEF Procs
  <2>2. \A p \in Probes : pc[p] \notin {"snapshot", "list", "reconcile"}
    BY <1>0, <2>1, Zenon DEF Ledger, Alone
  <2> QED BY <1>0, <2>1, <2>2, Zenon DEF Ledger, Phases
<1>3. Homes'
  <2>1. counter[k] \subseteq Home(k)
    BY Zenon DEF Ledger, Homes
  <2>2. \A h \in lost' : \E j \in Keys : h \in Home(j)'
    <3>1. gone \subseteq Home(k) /\ lost' \subseteq lost \cup gone
      BY <1>0, <2>1, Zenon
    <3> HIDE DEF gone
    <3> QED BY <1>0, <3>1, DropHomes, Zenon DEF Ledger
  <2>3. \A j \in Keys : counter'[j] \subseteq counter[j]
    BY <1>0, Zenon DEF TypeOK
  <2> QED BY <1>0, <2>2, <2>3, ZenonT(60) DEF Ledger, Homes, Home
<1>4. ASSUME NEW j \in Rules PROVE Somewhere(j)' /\ Once(j)'
  <2>0. j \in Keys
    BY Zenon DEF Keys
  <2>1. CASE j # k
    <3>1. Home(k) \cap recorded[j] = {} /\ counter[k] \subseteq Home(k)
      BY <2>1, OtherHome, Zenon DEF Ledger, Homes
    <3>2. \A h \in recorded[j] : h \in lost' <=> h \in lost
      BY <1>0, <3>1, Zenon
    <3>3. counter'[j] = counter[j]
      BY <1>0, <2>0, <2>1, Zenon DEF TypeOK
    <3> QED BY <1>0, <3>2, <3>3, Untouched, Zenon DEF Ledger
  <2>2. CASE j = k
    <3>1. CASE UNCHANGED <<counter, lost>>
      BY <1>0, <3>1, Untouched, Zenon DEF Ledger
    <3>2. CASE counter' = [counter EXCEPT ![k] = {}] /\ lost' = lost \cup gone
      <4>1. counter'[j] = {}
        BY <2>0, <2>2, <3>2, Zenon DEF TypeOK
      <4>2. f \in Flushers => \A p \in Probes : snapshot[p][j] = {} /\ tx[p][j] = {}
        <5>1. ASSUME f \in Flushers, NEW p \in Probes PROVE pc[p] = "idle"
          BY <1>0, <5>1, HitCountersConstants, Zenon DEF Ledger, Alone, Procs
        <5> QED BY <2>0, <5>1 DEF Ledger, Phases, NoHits
      <4>3. \A p \in Probes : p # f => snapshot[p][j] = {} /\ tx[p][j] = {}
        <5>1. ASSUME NEW p \in Probes, p # f PROVE pc[p] = "idle"
          BY <1>0, <5>1, Zenon DEF Ledger, Alone, Procs
        <5> QED BY <2>0, <5>1 DEF Ledger, Phases, NoHits
      <4>4. Somewhere(j)'
        BY <1>0, <2>2, <3>2, <4>1, Zenon DEF Ledger, Somewhere
      <4>5. Once(j)'
        BY <1>0, <2>2, <3>2, <4>1, <4>2, <4>3 DEF Ledger, Once
      <4> QED BY <4>4, <4>5, Zenon
    <3> QED BY <1>0, <3>1, <3>2, Zenon
  <2> QED BY <2>1, <2>2, Zenon
<1> QED BY <1>1, <1>2, <1>3, <1>4, Zenon DEF Ledger

\* The other processes, while a probe runs or a flush works on a key.
LEMMA OthersIdle ==
    ASSUME Ledger, NEW f \in Procs, pc[f] # "idle", NEW p \in Probes, p # f
    PROVE  pc[p] = "idle" /\ \A k \in Keys : snapshot[p][k] = {} /\ tx[p][k] = {}
<1>1. pc[p] = "idle"
  BY Zenon DEF Ledger, Alone, Procs
<1> QED BY <1>1 DEF Ledger, Phases, NoHits

\* An UPDATE moves the hits in hand to the row, or to the probe's transaction.
LEMMA PersistLedger ==
    ASSUME TypeOK, Ledger, NEW f \in Procs, NEW k \in Keys, Persist(f, k)
    PROVE  Ledger'
<1>0. /\ UNCHANGED <<counter, todo, snapshot, recorded, lost>> /\ pc[f] = "persist"
      /\ pc' = [pc EXCEPT ![f] = "take"]
      /\ \A g \in Procs : g # f => hand'[g] = hand[g]
      /\ hand'[f] = NoHits
      /\ \A g \in Procs : pc'[g] = IF g = f THEN "take" ELSE pc[g]
  BY Zenon DEF Persist, Go, TypeOK
<1>1. \A j \in Keys : j # k => hand[f][j] = {}
  BY Zenon DEF Persist, Ledger, Phases
<1>2. \A p \in Probes : p # f => pc[p] = "idle" /\ \A j \in Keys : snapshot[p][j] = {} /\ tx[p][j] = {}
  BY <1>0, OthersIdle, Zenon
<1>3. \/ /\ f \in Flushers /\ UNCHANGED tx
         /\ \A j \in Rules : stored'[j] = IF j = k THEN stored[j] \cup hand[f][k] ELSE stored[j]
      \/ /\ f \in Probes /\ UNCHANGED stored
         /\ \A p \in Probes : p # f => tx'[p] = tx[p]
         /\ \A j \in Keys : tx'[f][j] = IF j = k /\ k \in Rules \cup {f}
                                        THEN tx[f][j] \cup hand[f][k] ELSE tx[f][j]
  <2>1. CASE f \in Flushers /\ UNCHANGED tx /\
             stored' = [j \in Rules |-> IF j = k THEN stored[j] \cup hand[f][k] ELSE stored[j]]
    BY <2>1, Zenon
  <2>2. CASE f \in Probes /\ UNCHANGED stored /\
             tx' = [tx EXCEPT ![f][k] = IF k \in Rules \cup {f} THEN @ \cup hand[f][k] ELSE @]
    <3>1. tx \in [Probes -> [Keys -> SUBSET Tokens]]
      BY Zenon DEF TypeOK
    <3>2. \A p \in Probes : p # f => tx'[p] = tx[p]
      BY <2>2, <3>1, Zenon
    <3>3. tx'[f] = [tx[f] EXCEPT ![k] = IF k \in Rules \cup {f} THEN tx[f][k] \cup hand[f][k]
                                        ELSE tx[f][k]]
      BY <2>2, <3>1, Zenon
    <3>4. tx[f] \in [Keys -> SUBSET Tokens]
      BY <2>2, <3>1, Zenon
    <3>5. \A j \in Keys : tx'[f][j] = IF j = k /\ k \in Rules \cup {f}
                                      THEN tx[f][j] \cup hand[f][k] ELSE tx[f][j]
      BY <3>3, <3>4, Zenon
    <3> QED BY <2>2, <3>2, <3>5, Zenon
  <2> QED BY <2>1, <2>2, Zenon DEF Persist
<1>4. Alone'
  BY <1>0, KeepsAlone, Zenon DEF Ledger, Steps
<1>5. Phases'
  <2>1. \A p \in Probes : p \in Procs
    BY Zenon DEF Procs
  <2>2. \A p \in Probes : p # f => pc[p] = "idle" /\ tx'[p] = tx[p]
    BY <1>2, <1>3, Zenon
  <2>3. \A g \in Procs : \A i, j \in Keys : hand'[g][i] # {} /\ hand'[g][j] # {} => i = j
    BY <1>0, ZenonT(60) DEF Ledger, Phases, NoHits
  <2> QED BY <1>0, <2>1, <2>2, <2>3 DEF Ledger, Phases
<1>6. Homes'
  <2>1. hand[f][k] \subseteq Home(k)
    BY Zenon DEF Ledger, Homes
  <2>2. ASSUME NEW j \in Rules PROVE stored'[j] \subseteq recorded[j]
    <3>1. stored[j] \subseteq recorded[j]
      BY Zenon DEF Ledger, Homes
    <3>2. j = k => hand[f][k] \subseteq recorded[j]
      BY <2>1, Zenon DEF Home
    <3>3. stored'[j] = stored[j] \/ (j = k /\ stored'[j] = stored[j] \cup hand[f][k])
      BY <1>3, Zenon
    <3> QED BY <3>1, <3>2, <3>3, Zenon
  <2>3. \A j \in Keys : \A p \in Probes : tx'[p][j] \subseteq Home(j)
    <3>1. \A j \in Keys : \A p \in Probes : tx[p][j] \subseteq Home(j)
      BY Zenon DEF Ledger, Homes
    <3> QED BY <1>3, <2>1, <3>1, Zenon
  <2>4. \A j \in Keys : \A g \in Procs : hand'[g][j] \subseteq Home(j)
    BY <1>0, Zenon DEF Ledger, Homes, NoHits
  <2> QED BY <1>0, <2>2, <2>3, <2>4, Zenon DEF Ledger, Homes, Home
<1>7. ASSUME NEW j \in Rules PROVE Somewhere(j)' /\ Once(j)'
  <2>0. j \in Keys
    BY Zenon DEF Keys
  <2>1. CASE j # k
    <3>1. \A g \in Procs : hand'[g][j] = hand[g][j]
      BY <1>0, <1>1, <2>0, <2>1, Zenon DEF NoHits
    <3>2. stored'[j] = stored[j] /\ \A p \in Probes : tx'[p][j] = tx[p][j]
      BY <1>3, <2>0, <2>1, Zenon
    <3> QED BY <1>0, <3>1, <3>2, Untouched, Zenon DEF Ledger
  <2>2. CASE j = k
    <3>1. hand'[f][j] = {} /\ \A g \in Procs : g # f => hand'[g][j] = hand[g][j]
      BY <1>0, <2>0, Zenon DEF NoHits
    <3>2. CASE f \in Flushers /\ UNCHANGED tx /\ stored'[j] = stored[j] \cup hand[f][j]
      <4>1. Somewhere(j)'
        BY <1>0, <2>2, <3>1, <3>2 DEF Ledger, Somewhere
      <4>2. \A p \in Probes : snapshot[p][j] = {} /\ tx[p][j] = {}
        BY <1>2, <2>0, <3>2, HitCountersConstants, Zenon
      <4>3. Once(j)'
        BY <1>0, <2>2, <3>1, <3>2, <4>2 DEF Ledger, Once
      <4> QED BY <4>1, <4>3, Zenon
    <3>3. CASE /\ f \in Probes /\ UNCHANGED stored
               /\ \A p \in Probes : tx'[p][j] = IF p = f THEN tx[f][j] \cup hand[f][j] ELSE tx[p][j]
      <4>1. Somewhere(j)'
        BY <1>0, <2>2, <3>1, <3>3 DEF Ledger, Somewhere
      <4>2. Once(j)'
        <5>1. \A p \in Probes : tx'[p][j] \cap hand'[p][j] = {}
          BY <1>0, <3>1, <3>3, Zenon DEF Ledger, Once, Procs
        <5> QED BY <1>0, <2>2, <3>1, <3>3, <5>1 DEF Ledger, Once
      <4> QED BY <4>1, <4>2, Zenon
    <3> QED BY <1>3, <2>0, <2>2, <3>2, <3>3, Zenon
  <2> QED BY <2>1, <2>2, Zenon
<1> QED BY <1>4, <1>5, <1>6, <1>7, Zenon DEF Ledger

\* An UPDATE that fails drops the hits in hand that no snapshot holds.
LEMMA PersistFailsLedger ==
    ASSUME TypeOK, Ledger, NEW f \in Procs, NEW k \in Keys, PersistFails(f, k)
    PROVE  Ledger'
<1>0. /\ UNCHANGED <<counter, stored, todo, snapshot, tx, recorded>> /\ pc[f] = "persist"
      /\ pc' = [pc EXCEPT ![f] = "take"]
      /\ \A g \in Procs : g # f => hand'[g] = hand[g]
      /\ hand'[f] = NoHits
      /\ \A g \in Procs : pc'[g] = IF g = f THEN "take" ELSE pc[g]
  BY Zenon DEF PersistFails, Go, TypeOK
<1>1. \A j \in Keys : j # k => hand[f][j] = {}
  BY Zenon DEF PersistFails, Ledger, Phases
<1>2. \A p \in Probes : p # f => pc[p] = "idle" /\ \A j \in Keys : snapshot[p][j] = {} /\ tx[p][j] = {}
  BY <1>0, OthersIdle, Zenon
<1>3. \/ f \in Flushers /\ lost' = lost \cup hand[f][k]
      \/ f \in Probes /\ lost' = lost \cup (hand[f][k] \ snapshot[f][k])
  BY Zenon DEF PersistFails, Drop
<1>4. Alone'
  BY <1>0, KeepsAlone, Zenon DEF Ledger, Steps
<1>5. Phases'
  <2>1. \A p \in Probes : p \in Procs
    BY Zenon DEF Procs
  <2>3. \A g \in Procs : \A i, j \in Keys : hand'[g][i] # {} /\ hand'[g][j] # {} => i = j
    BY <1>0, ZenonT(60) DEF Ledger, Phases, NoHits
  <2> QED BY <1>0, <2>1, <2>3 DEF Ledger, Phases
<1>6. Homes'
  <2>1. hand[f][k] \subseteq Home(k)
    BY Zenon DEF Ledger, Homes
  <2>2. \A h \in lost' : \E j \in Keys : h \in Home(j)'
    <3>1. lost' \subseteq lost \cup hand[f][k]
      BY <1>3, Zenon
    <3> QED BY <1>0, <2>1, <3>1, DropHomes, Zenon DEF Ledger
  <2>3. \A j \in Keys : \A g \in Procs : hand'[g][j] \subseteq Home(j)
    BY <1>0, Zenon DEF Ledger, Homes, NoHits
  <2> QED BY <1>0, <2>2, <2>3, ZenonT(60) DEF Ledger, Homes, Home
<1>7. ASSUME NEW j \in Rules PROVE Somewhere(j)' /\ Once(j)'
  <2>0. j \in Keys
    BY Zenon DEF Keys
  <2>1. CASE j # k
    <3>1. \A g \in Procs : hand'[g][j] = hand[g][j]
      BY <1>0, <1>1, <2>0, <2>1, ZenonT(60) DEF NoHits
    <3>2. \A h \in recorded[j] : h \in lost' <=> h \in lost
      <4>1. Home(k) \cap recorded[j] = {} /\ hand[f][k] \subseteq Home(k)
        BY <2>1, OtherHome, Zenon DEF Ledger, Homes
      <4> QED BY <1>3, <4>1, Zenon
    <3> QED BY <1>0, <3>1, <3>2, Untouched, Zenon DEF Ledger
  <2>2. CASE j = k
    <3>1. hand'[f][j] = {} /\ \A g \in Procs : g # f => hand'[g][j] = hand[g][j]
      BY <1>0, <2>0, Zenon DEF NoHits
    <3>2. CASE f \in Flushers /\ lost' = lost \cup hand[f][j]
      <4>1. Somewhere(j)'
        BY <1>0, <2>2, <3>1, <3>2 DEF Ledger, Somewhere
      <4>2. \A p \in Probes : snapshot[p][j] = {} /\ tx[p][j] = {}
        BY <1>2, <2>0, <3>2, HitCountersConstants, Zenon
      <4>3. Once(j)'
        BY <1>0, <2>2, <3>1, <3>2, <4>2 DEF Ledger, Once
      <4> QED BY <4>1, <4>3, Zenon
    <3>3. CASE f \in Probes /\ lost' = lost \cup (hand[f][j] \ snapshot[f][j])
      <4>1. Somewhere(j)'
        BY <1>0, <2>2, <3>1, <3>3 DEF Ledger, Somewhere
      <4>2. Once(j)'
        <5>1. \A p \in Probes : p # f => snapshot[p][j] = {} /\ tx[p][j] = {}
          BY <1>2, <2>0, Zenon
        <5>2. tx[f][j] \cap hand[f][j] = {}
          BY <3>3, Zenon DEF Ledger, Once
        <5>3. \A p \in Probes : tx'[p][j] \cap hand'[p][j] = {}
          BY <1>0, <3>1, <5>1, Zenon
        <5> QED BY <1>0, <2>2, <3>1, <3>3, <5>1, <5>2, <5>3 DEF Ledger, Once
      <4> QED BY <4>1, <4>2, Zenon
    <3> QED BY <1>3, <2>0, <2>2, <3>2, <3>3, Zenon
  <2> QED BY <2>1, <2>2, Zenon
<1> QED BY <1>4, <1>5, <1>6, <1>7, Zenon DEF Ledger

----------------------------------------------------------------------------
\* The sets of hits a step moves about are sets of tokens.
LEMMA NoHitsType == NoHits \in [Keys -> SUBSET Tokens]
BY Zenon DEF NoHits

\* A fault leaves the probes' history well typed.
LEMMA FaultType ==
    ASSUME TypeOK, NEW f, NEW x, Fault(f, x)
    PROVE  hurt' \in [Probes -> BOOLEAN]
BY Zenon DEF TypeOK, Fault

\* The initial state is well typed.
LEMMA InitType == Init => TypeOK
BY NoHitsType DEF Init, TypeOK, Steps

\* One step of a flush keeps every variable's type.
LEMMA FlushStepType ==
    ASSUME TypeOK, NEW f \in Procs, FlushStep(f)
    PROVE  TypeOK'
<1>0. /\ \A k \in Keys : counter[k] \in SUBSET Tokens
      /\ \A k \in Keys : hand[f][k] \in SUBSET Tokens
      /\ NoHits \in [Keys -> SUBSET Tokens] /\ Rules \subseteq Keys
  BY NoHitsType DEF TypeOK, Keys
<1>1. CASE ListKeys(f)
  BY <1>1, Zenon DEF ListKeys, TypeOK, probeVars, Go, Steps, Present
<1>2. CASE ListFails(f)
  BY <1>2, FaultType, Zenon DEF ListFails, TypeOK, Go, Steps
<1>3. CASE EndFlush(f)
  BY <1>3, Zenon DEF EndFlush, TypeOK, probeVars, Go, Steps
<1>4. ASSUME NEW k \in Keys, Take(f, k) PROVE TypeOK'
  BY <1>0, <1>4, Zenon DEF Take, TypeOK, probeVars, Go, Steps
<1>5. ASSUME NEW k \in Keys, TakeFails(f, k) PROVE TypeOK'
  BY <1>0, <1>5, FaultType, ZenonT(60) DEF TakeFails, TypeOK, Drop
<1>6. ASSUME NEW k \in Keys, Persist(f, k) PROVE TypeOK'
  <2>1. stored' \in [Rules -> SUBSET Tokens]
    <3>1. stored \in [Rules -> SUBSET Tokens]
      BY Zenon DEF TypeOK
    <3> QED BY <1>0, <1>6, <3>1, Zenon DEF Persist
  <2>2. tx' \in [Probes -> [Keys -> SUBSET Tokens]]
    <3>1. CASE UNCHANGED tx
      BY <3>1, Zenon DEF TypeOK
    <3>2. CASE f \in Probes
      <4> DEFINE new == IF k \in Rules \cup {f} THEN tx[f][k] \cup hand[f][k] ELSE tx[f][k]
      <4>1. tx[f] \in [Keys -> SUBSET Tokens] /\ new \in SUBSET Tokens
        BY <1>0, <3>2 DEF TypeOK
      <4>2. tx' = [tx EXCEPT ![f] = [tx[f] EXCEPT ![k] = new]] \/ UNCHANGED tx
        BY <1>6, Zenon DEF Persist
      <4>3. [tx[f] EXCEPT ![k] = new] \in [Keys -> SUBSET Tokens]
        BY <4>1, Zenon
      <4>4. tx \in [Probes -> [Keys -> SUBSET Tokens]]
        BY Zenon DEF TypeOK
      <4> HIDE DEF new
      <4> QED BY <3>2, <4>2, <4>3, <4>4, Zenon
    <3> QED BY <1>6, <3>1, <3>2, Zenon DEF Persist
  <2> QED BY <1>0, <1>6, <2>1, <2>2, Zenon DEF Persist, TypeOK, Go, Steps
<1>7. ASSUME NEW k \in Keys, PersistFails(f, k) PROVE TypeOK'
  <2>1. hurt' \in [Probes -> BOOLEAN]
    <3>1. hurt \in [Probes -> BOOLEAN]
      BY Zenon DEF TypeOK
    <3> QED BY <1>7, <3>1, FaultType, Zenon DEF PersistFails
  <2>2. broken' \in [Probes -> BOOLEAN]
    BY <1>7, Zenon DEF PersistFails, TypeOK
  <2> QED BY <1>0, <1>7, <2>1, <2>2, Zenon DEF PersistFails, TypeOK, Go, Steps, Drop
<1> QED BY <1>1, <1>2, <1>3, <1>4, <1>5, <1>6, <1>7, Zenon DEF FlushStep, FlushStep

\* One step of a probe, or its start, keeps every variable's type.
LEMMA ProbeStepType ==
    ASSUME TypeOK, NEW p \in Probes, ProbeBegin(p) \/ ProbeStep(p)
    PROVE  TypeOK'
<1>0. /\ p \in Keys /\ p \in Procs /\ p \in Tokens
      /\ \A k \in Keys : counter[k] \in SUBSET Tokens
      /\ \A k \in Keys : snapshot[p][k] \in SUBSET Tokens /\ tx[p][k] \in SUBSET Tokens
      /\ NoHits \in [Keys -> SUBSET Tokens] /\ Rules \subseteq Keys
  BY NoHitsType DEF TypeOK, Keys, Procs, Tokens
<1>1. CASE ProbeBegin(p)
  <2>1. hurt' \in [Probes -> BOOLEAN]
    <3>1. hurt \in [Probes -> BOOLEAN]
      BY Zenon DEF TypeOK
    <3>2. hurt' = [hurt EXCEPT ![p] = TRUE] \/ hurt' = [hurt EXCEPT ![p] = FALSE]
      BY <1>1, Zenon DEF ProbeBegin
    <3>3. [hurt EXCEPT ![p] = TRUE] \in [Probes -> BOOLEAN]
      BY <3>1, Zenon
    <3>4. [hurt EXCEPT ![p] = FALSE] \in [Probes -> BOOLEAN]
      BY <3>1, Zenon
    <3> QED BY <3>2, <3>3, <3>4, Zenon
  <2>2. todo' \in [Procs -> SUBSET Keys]
    <3>1. todo \in [Procs -> SUBSET Keys]
      BY Zenon DEF TypeOK
    <3>2. todo' = [todo EXCEPT ![p] = Present \ {p}] \/ todo' = [todo EXCEPT ![p] = {}]
      BY <1>1, Zenon DEF ProbeBegin
    <3>3. Present \ {p} \subseteq Keys
      BY Zenon DEF Present
    <3> QED BY <1>0, <3>1, <3>2, <3>3, Zenon
  <2> QED BY <1>0, <1>1, <2>1, <2>2, Zenon DEF ProbeBegin, TypeOK, Go, Steps
<1>2. CASE ProbeRecord(p)
  <2>1. hurt' \in [Probes -> BOOLEAN]
    BY <1>2, FaultType, Zenon DEF ProbeRecord, TypeOK
  <2>2. counter' \in [Keys -> SUBSET Tokens]
    <3>1. counter \in [Keys -> SUBSET Tokens] /\ {p} \in SUBSET Tokens
      BY <1>0, Zenon DEF TypeOK
    <3>2. [counter EXCEPT ![p] = {p}] \in [Keys -> SUBSET Tokens]
      BY <1>0, <3>1, Zenon
    <3> QED BY <1>2, <3>1, <3>2, Zenon DEF ProbeRecord
  <2> QED BY <1>0, <1>2, <2>1, <2>2, Zenon DEF ProbeRecord, TypeOK, Go, Steps
<1>3. CASE ProbeVerify(p)
  <2>1. hurt' \in [Probes -> BOOLEAN]
    BY <1>3, FaultType, Zenon DEF ProbeVerify, TypeOK
  <2>2. broken' \in [Probes -> BOOLEAN]
    BY <1>3, Zenon DEF ProbeVerify, TypeOK
  <2>3. verdict' \in [Probes -> {"none", "alive", "failed"}]
    BY <1>3, Zenon DEF ProbeVerify, TypeOK
  <2>4. lost' \subseteq Tokens
    BY <1>0, <1>3 DEF ProbeVerify, TypeOK, Drop
  <2> QED BY <1>0, <1>3, <2>1, <2>2, <2>3, <2>4, Zenon DEF ProbeVerify, TypeOK, Go, Steps
<1>4. CASE ProbeCleanup(p)
  <2>1. hurt' \in [Probes -> BOOLEAN]
    BY <1>4, FaultType, Zenon DEF ProbeCleanup, TypeOK
  <2>2. counter' \in [Keys -> SUBSET Tokens]
    BY <1>0, <1>4, Zenon DEF ProbeCleanup, TypeOK
  <2> QED BY <1>0, <1>4, <2>1, <2>2, Zenon DEF ProbeCleanup, TypeOK, Go, Steps
<1>5. CASE ProbeEnd(p)
  BY <1>0, <1>5, Zenon DEF ProbeEnd, TypeOK, probeVars, Go, Steps
<1>6. ASSUME NEW k \in Keys, SnapshotKey(p, k) PROVE TypeOK'
  <2>1. hurt' \in [Probes -> BOOLEAN]
    BY <1>6, FaultType, Zenon DEF SnapshotKey, TypeOK
  <2>2. snapshot' \in [Probes -> [Keys -> SUBSET Tokens]]
    BY <1>0, <1>6, ZenonT(60) DEF SnapshotKey, TypeOK
  <2> QED BY <1>0, <1>6, <2>1, <2>2, Zenon DEF SnapshotKey, TypeOK
<1>7. ASSUME NEW k \in Keys, Reconcile(p, k) PROVE TypeOK'
  <2>1. hurt' \in [Probes -> BOOLEAN]
    BY <1>7, FaultType, Zenon DEF Reconcile, TypeOK
  <2>2. counter' \in [Keys -> SUBSET Tokens] /\ lost' \subseteq Tokens
    BY <1>0, <1>7, Zenon DEF Reconcile, TypeOK, Drop
  <2> QED BY <1>0, <1>7, <2>1, <2>2, Zenon DEF Reconcile, TypeOK
<1> QED BY <1>1, <1>2, <1>3, <1>4, <1>5, <1>6, <1>7, Zenon DEF ProbeStep

\* One step of any action keeps every variable's type.
LEMMA StepType == TypeOK /\ [Next]_vars => TypeOK'
<1> SUFFICES ASSUME TypeOK, [Next]_vars PROVE TypeOK'
  BY Zenon
<1>1. CASE UNCHANGED vars
  BY <1>1, Zenon DEF TypeOK, vars, flushVars, probeVars
<1>2. ASSUME NEW k \in Rules, NEW h \in Hits, Hit(k, h) PROVE TypeOK'
  <2>1. during' \in [Probes -> SUBSET Hits]
    BY <1>2, Zenon DEF Hit, TypeOK
  <2>2. counter' \in [Keys -> SUBSET Tokens]
    BY <1>2, Zenon DEF Hit, TypeOK, Tokens, Keys
  <2>3. recorded' \in [Rules -> SUBSET Hits]
    BY <1>2, Zenon DEF Hit, TypeOK
  <2> QED BY <1>2, <2>1, <2>2, <2>3, Zenon DEF Hit, TypeOK, flushVars, probeVars
<1>4. ASSUME NEW k \in Rules, CounterExpires(k) PROVE TypeOK'
  <2>1. k \in Keys /\ counter[k] \subseteq Tokens
    BY Zenon DEF TypeOK, Keys
  <2> QED BY <1>4, <2>1, Zenon DEF CounterExpires, TypeOK, Drop, flushVars, probeVars
<1>3. ASSUME NEW f \in Procs, Crash(f) PROVE TypeOK'
  <2>1. lost' \subseteq Tokens
    <3>1. \A k \in Keys : hand[f][k] \subseteq Tokens
      BY Zenon DEF TypeOK
    <3>2. f \in Probes => \A k \in Keys : tx[f][k] \subseteq Tokens /\ snapshot[f][k] \subseteq Tokens
      BY ZenonT(60) DEF TypeOK
    <3>3. lost \subseteq Tokens
      BY Zenon DEF TypeOK
    <3> QED BY <1>3, <3>1, <3>2, <3>3, Zenon DEF Crash, Drop
  <2>2. hand' \in [Procs -> [Keys -> SUBSET Tokens]]
    BY <1>3, NoHitsType, Zenon DEF Crash, TypeOK
  <2>3. /\ snapshot' \in [Probes -> [Keys -> SUBSET Tokens]]
        /\ tx' \in [Probes -> [Keys -> SUBSET Tokens]]
    BY <1>3, NoHitsType, Zenon DEF Crash, TypeOK
  <2>4. broken' \in [Probes -> BOOLEAN] /\ hurt' \in [Probes -> BOOLEAN]
    BY <1>3, FaultType, Zenon DEF Crash
  <2>5. pc' \in [Procs -> Steps] /\ todo' \in [Procs -> SUBSET Keys]
    BY <1>3, Zenon DEF Crash, TypeOK, Steps
  <2>6. during' \in [Probes -> SUBSET Hits]
    BY <1>3, Zenon DEF Crash, TypeOK
  <2> QED BY <1>3, <2>1, <2>2, <2>3, <2>4, <2>5, <2>6, Zenon DEF Crash, TypeOK
<1> QED BY <1>1, <1>2, <1>3, <1>4, FlushStepType, ProbeStepType, Zenon DEF Next

\* Every variable keeps its type.
THEOREM TypeCorrect == Spec => []TypeOK
BY InitType, StepType, PTL DEF Spec

----------------------------------------------------------------------------
(* Probes and crashes keep the ledger, too. *)

\* The start of a probe, and its own hit, concern its own key.
LEMMA OwnKeyLedger ==
    ASSUME NoOtherFlush, TypeOK, Ledger, NEW p \in Probes, ProbeBegin(p) \/ ProbeRecord(p)
    PROVE  Ledger'
<1>0. /\ UNCHANGED <<stored, hand, snapshot, tx, recorded, lost>> /\ p \in Keys /\ p \in Procs
      /\ \/ pc[p] = "idle" /\ pc' = [pc EXCEPT ![p] = "snapshot"]
         \/ pc[p] = "snapshot" /\ pc' = [pc EXCEPT ![p] = "list"] /\ UNCHANGED todo
      /\ \A g \in Procs : g # p => pc'[g] = pc[g] /\ pc[g] = "idle"
      /\ pc'[p] \in {"snapshot", "list"}
  <2>1. \A g \in Procs : g # p => pc[g] = "idle"
    BY Zenon DEF ProbeBegin, ProbeRecord, NoOtherFlush, Ledger, Alone
  <2> QED BY <2>1, Zenon DEF ProbeBegin, ProbeRecord, Go, TypeOK, Keys, Procs
<1>1. /\ \A k \in Keys : k # p => counter'[k] = counter[k]
      /\ counter'[p] \in {{}, {p}, counter[p]}
  BY <1>0, Zenon DEF ProbeBegin, ProbeRecord, TypeOK
<1>2. Alone'
  BY <1>0, Zenon DEF Alone, Procs
<1>3. Phases'
  <2>1. pc[p] = "idle" => snapshot[p] = NoHits /\ todo'[p] \subseteq Keys
    <3>1. pc[p] = "idle" => ProbeBegin(p)
      BY Zenon DEF ProbeRecord
    <3>2. pc[p] = "idle" => snapshot[p] = NoHits
      BY Zenon DEF Ledger, Phases
    <3>3. todo \in [Procs -> SUBSET Keys] /\ Present \subseteq Keys
      BY Zenon DEF TypeOK, Present
    <3> QED BY <1>0, <3>1, <3>2, <3>3, Zenon DEF ProbeBegin
  <2>3. pc'[p] = "snapshot" => \A k \in todo'[p] : snapshot[p][k] = {}
    BY <1>0, <2>1, Zenon DEF NoHits, TypeOK
  <2>4. \A q \in Probes : q \in Procs
    BY Zenon DEF Procs
  <2> QED BY <1>0, <2>3, <2>4, Zenon DEF Ledger, Phases
<1>4. Homes'
  <2>1. p \notin Rules
    BY HitCountersConstants, Zenon
  <2>2. \A k \in Keys : counter'[k] \subseteq Home(k)
    BY <1>1, <2>1 DEF Ledger, Homes, Home
  <2> QED BY <1>0, <2>2, Zenon DEF Ledger, Homes, Home
<1>5. ASSUME NEW j \in Rules PROVE Somewhere(j)' /\ Once(j)'
  <2>1. counter'[j] = counter[j]
    BY <1>1, HitCountersConstants, Zenon DEF Keys
  <2> QED BY <1>0, <2>1, Untouched, Zenon DEF Ledger
<1> QED BY <1>2, <1>3, <1>4, <1>5, Zenon DEF Ledger

\* A counter that is read into the snapshot is still the counter.
LEMMA SnapshotLedger ==
    ASSUME TypeOK, Ledger, NEW p \in Probes, NEW k \in Keys, SnapshotKey(p, k)
    PROVE  Ledger'
<1>0. /\ UNCHANGED <<counter, stored, pc, hand, tx, recorded, lost>> /\ pc[p] = "snapshot"
      /\ p \in Procs
      /\ \A q \in Probes : q # p => snapshot'[q] = snapshot[q]
      /\ \A j \in Keys : snapshot'[p][j] = snapshot[p][j] \/ (j = k /\ snapshot'[p][j] = counter[k])
  BY DEF SnapshotKey, TypeOK, Procs
<1>1. \A q \in Probes : q # p => pc[q] = "idle"
  BY <1>0, OthersIdle, Zenon
<1>2. Alone'
  BY <1>0, Zenon DEF Ledger, Alone
<1>3. Phases'
  <2>1. \A j \in todo'[p] : snapshot'[p][j] = {}
    <3>1. /\ todo'[p] = todo[p] \ {k} /\ todo[p] \subseteq Keys
          /\ \A j \in todo[p] : snapshot[p][j] = {}
      BY <1>0, Zenon DEF SnapshotKey, TypeOK, Ledger, Phases
    <3> QED BY <1>0, <3>1, Zenon
  <2>2. \A q \in Probes : q \in Procs
    BY Zenon DEF Procs
  <2> QED BY <1>0, <1>1, <2>1, <2>2 DEF Ledger, Phases
<1>4. Homes'
  <2>1. \A j \in Keys : \A q \in Probes : snapshot'[q][j] \subseteq Home(j)
    BY <1>0, Zenon DEF Ledger, Homes
  <2> QED BY <1>0, <2>1, Zenon DEF Ledger, Homes, Home
<1>5. ASSUME NEW j \in Rules PROVE Somewhere(j)' /\ Once(j)'
  <2>0. j \in Keys
    BY Zenon DEF Keys
  <2>1. /\ snapshot'[p][j] \in {snapshot[p][j], counter[j]}
        /\ snapshot[p][j] \subseteq snapshot'[p][j]
    <3>1. k \in todo[p] /\ \A i \in todo[p] : snapshot[p][i] = {}
      BY <1>0, Zenon DEF Ledger, Phases, SnapshotKey
    <3> QED BY <1>0, <2>0, <3>1, Zenon
  <2>2. \A q \in Probes : q # p => snapshot'[q][j] = snapshot[q][j]
    BY <1>0, Zenon
  <2>3. Somewhere(j)'
    BY <1>0, <2>1, <2>2 DEF Ledger, Somewhere
  <2>4. Once(j)'
    BY <1>0, <2>1, <2>2 DEF Ledger, Once
  <2> QED BY <2>3, <2>4, Zenon
<1> QED BY <1>2, <1>3, <1>4, <1>5, Zenon DEF Ledger

\* The rollback drops what the probe's flush wrote and no snapshot holds.
LEMMA VerifyLedger ==
    ASSUME TypeOK, Ledger, NEW p \in Probes, ProbeVerify(p)
    PROVE  Ledger'
<1>0. /\ UNCHANGED <<counter, stored, todo, hand, snapshot, recorded>> /\ pc[p] = "verify"
      /\ p \in Procs
      /\ pc' = [pc EXCEPT ![p] = "cleanup"]
      /\ \A q \in Probes : q # p => tx'[q] = tx[q]
      /\ tx'[p] = NoHits
      /\ \A g \in Procs : pc'[g] = IF g = p THEN "cleanup" ELSE pc[g]
      /\ lost' = lost \cup UNION {tx[p][k] \ snapshot[p][k] : k \in Rules}
  BY Zenon DEF ProbeVerify, Go, TypeOK, Drop, Procs
<1>1. \A q \in Probes : q # p => pc[q] = "idle"
  BY <1>0, OthersIdle, Zenon
<1>2. Alone'
  BY <1>0, KeepsAlone, Zenon DEF Ledger, Steps
<1>3. Phases'
  <2>1. \A q \in Probes : q \in Procs
    BY Zenon DEF Procs
  <2>2. \A g \in Procs : pc'[g] # "persist" => hand'[g] = NoHits
    BY <1>0, Zenon DEF Ledger, Phases
  <2> QED BY <1>0, <1>1, <2>1, <2>2 DEF Ledger, Phases
<1>4. Homes'
  <2>1. \A j \in Keys : \A q \in Probes : tx'[q][j] \subseteq Home(j)
    BY <1>0, Zenon DEF Ledger, Homes, NoHits
  <2>2. \A h \in lost' : \E j \in Keys : h \in Home(j)
    BY <1>0 DEF Ledger, Homes, Keys
  <2> QED BY <1>0, <2>1, <2>2, Zenon DEF Ledger, Homes, Home
<1>5. ASSUME NEW j \in Rules PROVE Somewhere(j)' /\ Once(j)'
  <2>0. j \in Keys
    BY Zenon DEF Keys
  <2>1. \A h \in recorded[j] : h \in lost' <=> h \in lost \/ h \in tx[p][j] \ snapshot[p][j]
    <3>1. \A k \in Rules : k # j => tx[p][k] \cap recorded[j] = {}
      BY Zenon DEF Ledger, Homes, Home, Keys
    <3> QED BY <1>0, <3>1, Zenon
  <2>2. tx'[p][j] = {} /\ \A q \in Probes : q # p => tx'[q][j] = tx[q][j]
    BY <1>0, <2>0, Zenon DEF NoHits
  <2>3. Somewhere(j)'
    BY <1>0, <2>1, <2>2, ZenonT(60) DEF Ledger, Somewhere
  <2>4. Once(j)'
    <3>0. hand[p][j] = {} /\ \A g \in Procs : hand[g][j] \cap tx[p][j] = {}
      <4>1. \A g \in Procs : pc[g] # "persist"
        BY <1>0, Zenon DEF Ledger, Alone
      <4> QED BY <1>0, <2>0, <4>1, SMTT(60) DEF Ledger, Phases, NoHits
    <3>1. /\ stored[j] \subseteq recorded[j] /\ counter[j] \subseteq recorded[j]
          /\ \A g \in Procs : hand[g][j] \subseteq recorded[j]
          /\ \A q \in Probes : tx[q][j] \subseteq recorded[j] /\ snapshot[q][j] \subseteq recorded[j]
      BY <2>0, Zenon DEF Ledger, Homes, Home
    <3>2. \A q \in Probes : q # p => snapshot[q][j] = {} /\ tx[q][j] = {}
      BY <1>0, <2>0, OthersIdle, Zenon
    <3>3. /\ stored[j] \cap lost' = {} /\ counter[j] \cap lost' = {}
          /\ \A g \in Procs : hand[g][j] \cap lost' = {}
          /\ snapshot[p][j] \cap lost' = {}
      BY <2>1, <3>0, <3>1, Zenon DEF Ledger, Once
    <3> QED BY <1>0, <2>2, <3>2, <3>3, ZenonT(60) DEF Ledger, Once
  <2> QED BY <2>3, <2>4, Zenon
<1> QED BY <1>2, <1>3, <1>4, <1>5, Zenon DEF Ledger

\* While a probe cleans up or reconciles, no flush holds a hit.
LEMMA NothingInHand ==
    ASSUME Ledger, NEW p \in Probes, pc[p] \in {"cleanup", "reconcile"}
    PROVE  /\ \A f \in Procs : \A k \in Keys : hand[f][k] = {}
           /\ \A q \in Probes : \A k \in Keys : tx[q][k] = {}
           /\ \A q \in Probes : q # p => pc[q] = "idle" /\ \A k \in Keys : snapshot[q][k] = {}
<1>1. \A f \in Procs : pc[f] \in {"cleanup", "reconcile", "idle"}
  BY Zenon DEF Ledger, Alone
<1>2. p \in Procs /\ Probes \subseteq Procs
  BY Zenon DEF Procs
<1>3. /\ \A f \in Procs : hand[f] = NoHits
      /\ \A q \in Probes : tx[q] = NoHits
  BY <1>1, <1>2, Zenon DEF Ledger, Phases
<1>4. \A k \in Keys : NoHits[k] = {}
  BY Zenon DEF NoHits
<1>5. \A q \in Probes : q # p => pc[q] = "idle" /\ \A k \in Keys : snapshot[q][k] = {}
  BY <1>2, OthersIdle, Zenon
<1> QED BY <1>3, <1>4, <1>5, Zenon

\* Deleting the probe's own key moves no hit of a rule.
LEMMA CleanupLedger ==
    ASSUME TypeOK, Ledger, NEW p \in Probes, ProbeCleanup(p)
    PROVE  Ledger'
<1>0. /\ UNCHANGED <<stored, hand, snapshot, tx, recorded, lost>> /\ pc[p] = "cleanup"
      /\ p \in Procs /\ p \in Keys
      /\ pc' = [pc EXCEPT ![p] = "reconcile"]
      /\ \A g \in Procs : pc'[g] = IF g = p THEN "reconcile" ELSE pc[g]
      /\ todo'[p] = {k \in Keys : snapshot[p][k] # {}}
      /\ \A k \in Keys : counter'[k] = counter[k] \/ (k = p /\ counter'[k] = {})
  BY Zenon DEF ProbeCleanup, Go, TypeOK, Procs, Keys
<1>1. \A q \in Probes : q # p => pc[q] = "idle"
  BY <1>0, NothingInHand, Zenon
<1>2. Alone'
  BY <1>0, KeepsAlone, ZenonT(60) DEF Ledger, Steps
<1>3. Phases'
  <2>1. \A q \in Probes : q \in Procs
    BY Zenon DEF Procs
  <2>2. \A g \in Procs : pc'[g] # "persist" => hand'[g] = NoHits
    BY <1>0 DEF Ledger, Phases
  <2>3. \A k \in Keys : (snapshot'[p][k] # {}) <=> (k \in todo'[p])
    BY <1>0, Zenon
  <2> QED BY <1>0, <1>1, <2>1, <2>2, <2>3, SMTT(60) DEF Ledger, Phases
<1>4. Homes'
  <2>1. \A k \in Keys : counter'[k] \subseteq Home(k)
    BY <1>0, Zenon DEF Ledger, Homes
  <2> QED BY <1>0, <2>1, ZenonT(60) DEF Ledger, Homes, Home
<1>5. ASSUME NEW j \in Rules PROVE Somewhere(j)' /\ Once(j)'
  <2>1. counter'[j] = counter[j]
    BY <1>0, HitCountersConstants, Zenon DEF Keys
  <2> QED BY <1>0, <2>1, Untouched, Zenon DEF Ledger
<1> QED BY <1>2, <1>3, <1>4, <1>5, Zenon DEF Ledger

\* A counter is put back, or what only its snapshot held is dropped.
LEMMA ReconcileLedger ==
    ASSUME TypeOK, Ledger, NEW p \in Probes, NEW k \in Keys, Reconcile(p, k)
    PROVE  Ledger'
<1>0. /\ UNCHANGED <<stored, pc, hand, tx, recorded>> /\ pc[p] = "reconcile" /\ p \in Procs
      /\ todo'[p] = todo[p] \ {k}
      /\ \A q \in Probes : q # p => snapshot'[q] = snapshot[q]
      /\ \A j \in Keys : snapshot'[p][j] = IF j = k THEN {} ELSE snapshot[p][j]
      /\ \A j \in Keys : j # k => counter'[j] = counter[j]
      /\ \/ counter'[k] = snapshot[p][k] /\ lost' = lost \cup (counter[k] \ snapshot[p][k])
         \/ counter'[k] = counter[k] /\ lost' = lost \cup (snapshot[p][k] \ counter[k])
  BY Zenon DEF Reconcile, TypeOK, Procs, Drop
<1>1. /\ \A f \in Procs : \A j \in Keys : hand[f][j] = {}
      /\ \A q \in Probes : \A j \in Keys : tx[q][j] = {}
      /\ \A q \in Probes : q # p => pc[q] = "idle" /\ \A j \in Keys : snapshot[q][j] = {}
  BY <1>0, NothingInHand, Zenon
<1>2. Alone'
  BY <1>0, ZenonT(60) DEF Ledger, Alone
<1>3. Phases'
  <2>1. \A q \in Probes : q \in Procs
    BY Zenon DEF Procs
  <2>2. \A j \in Keys : (snapshot'[p][j] # {}) <=> (j \in todo'[p])
    BY <1>0 DEF Ledger, Phases
  <2> QED BY <1>0, <1>1, <2>1, <2>2, SMTT(60) DEF Ledger, Phases
<1>4. Homes'
  <2>1. snapshot[p][k] \subseteq Home(k) /\ counter[k] \subseteq Home(k)
    BY Zenon DEF Ledger, Homes
  <2>2. \A h \in lost' : \E j \in Keys : h \in Home(j)'
    <3>1. lost' \subseteq lost \cup Home(k)
      BY <1>0, <2>1, Zenon
    <3> QED BY <1>0, <2>1, <3>1, DropHomes, ZenonT(60) DEF Ledger
  <2>3. \A j \in Keys : counter'[j] \subseteq Home(j)
    BY <1>0, <2>1, Zenon DEF Ledger, Homes
  <2>4. \A j \in Keys : \A q \in Probes : snapshot'[q][j] \subseteq Home(j)
    BY <1>0, ZenonT(60) DEF Ledger, Homes
  <2> QED BY <1>0, <2>2, <2>3, <2>4, SMTT(60) DEF Ledger, Homes, Home
<1>5. ASSUME NEW j \in Rules PROVE Somewhere(j)' /\ Once(j)'
  <2>0. j \in Keys
    BY Zenon DEF Keys
  <2>1. CASE j # k
    <3>1. \A h \in recorded[j] : h \in lost' <=> h \in lost
      <4>1. /\ Home(k) \cap recorded[j] = {}
            /\ snapshot[p][k] \subseteq Home(k) /\ counter[k] \subseteq Home(k)
        BY <2>1, OtherHome, Zenon DEF Ledger, Homes
      <4> QED BY <1>0, <4>1, Zenon
    <3> QED BY <1>0, <2>0, <2>1, <3>1, Untouched, Zenon DEF Ledger
  <2>2. CASE j = k
    <3>1. snapshot'[p][j] = {}
      BY <1>0, <2>0, <2>2, Zenon
    <3>2. \A q \in Probes : q # p => snapshot'[q][j] = snapshot[q][j]
      BY <1>0, Zenon
    <3>3. Somewhere(j)'
      BY <1>0, <2>2, <3>1, <3>2, SMTT(60) DEF Ledger, Somewhere
    <3>4. Once(j)'
      <4>1. /\ stored[j] \cap counter[j] = {} /\ stored[j] \cap lost = {} /\ counter[j] \cap lost = {}
            /\ snapshot[p][j] \cap stored[j] = {} /\ snapshot[p][j] \cap lost = {}
        BY Zenon DEF Ledger, Once
      <4>2. stored[j] \cap counter'[j] = {} /\ stored[j] \cap lost' = {} /\ counter'[j] \cap lost' = {}
        BY <1>0, <2>2, <4>1
      <4>3. /\ \A g \in Procs : hand'[g][j] = {}
            /\ \A q \in Probes : tx'[q][j] = {} /\ snapshot'[q][j] = {}
        BY <1>0, <1>1, <2>0, <3>1, <3>2, Zenon
      <4> QED BY <1>0, <4>2, <4>3, Zenon DEF Once, Procs
    <3> QED BY <3>3, <3>4, Zenon
  <2> QED BY <2>1, <2>2, Zenon
<1> QED BY <1>2, <1>3, <1>4, <1>5, Zenon DEF Ledger

\* A counter that expires loses what no snapshot holds.
LEMMA ExpiryLedger ==
    ASSUME TypeOK, Ledger, NEW k \in Rules, CounterExpires(k)
    PROVE  Ledger'
<1> DEFINE gone == counter[k] \ UNION {snapshot[p][k] : p \in Probes}
<1>0. /\ UNCHANGED <<stored, pc, todo, hand, snapshot, tx, recorded>> /\ k \in Keys
      /\ \A j \in Keys : counter'[j] = IF j = k THEN {} ELSE counter[j]
      /\ lost' = lost \cup gone
  BY Zenon DEF CounterExpires, Drop, TypeOK, Keys, flushVars, probeVars
<1>1. Alone' /\ Phases'
  BY <1>0 DEF Ledger, Alone, Phases
<1>2. Homes'
  <2>1. gone \subseteq Home(k)
    BY <1>0, Zenon DEF Ledger, Homes
  <2>2. \A h \in lost' : \E j \in Keys : h \in Home(j)'
    <3> HIDE DEF gone
    <3> QED BY <1>0, <2>1, DropHomes, Zenon DEF Ledger
  <2>3. \A j \in Keys : counter'[j] \subseteq counter[j]
    BY <1>0, Zenon
  <2> QED BY <1>0, <2>2, <2>3, ZenonT(60) DEF Ledger, Homes, Home
<1>3. ASSUME NEW j \in Rules PROVE Somewhere(j)' /\ Once(j)'
  <2>0. j \in Keys
    BY Zenon DEF Keys
  <2>1. CASE j # k
    <3>1. \A h \in recorded[j] : h \in lost' <=> h \in lost
      BY <1>0, <2>1, OtherHome, Zenon DEF Ledger, Homes
    <3> QED BY <1>0, <2>0, <2>1, <3>1, Untouched, Zenon DEF Ledger
  <2>2. CASE j = k
    <3>1. counter'[j] = {}
      BY <1>0, <2>0, <2>2, Zenon
    <3>2. Somewhere(j)'
      <4>1. \A h \in counter[j] : h \in gone \/ \E p \in Probes : h \in snapshot[p][j]
        BY <2>2, Zenon
      <4> HIDE DEF gone
      <4> QED BY <1>0, <3>1, <4>1 DEF Ledger, Somewhere
    <3>3. Once(j)'
      <4>1. gone \subseteq counter[j] /\ \A p \in Probes : gone \cap snapshot[p][j] = {}
        BY <2>2, Zenon
      <4> HIDE DEF gone
      <4> QED BY <1>0, <3>1, <4>1 DEF Ledger, Once
    <3> QED BY <3>2, <3>3, Zenon
  <2> QED BY <2>1, <2>2, Zenon
<1> QED BY <1>1, <1>2, <1>3, Zenon DEF Ledger

\* A worker that dies loses what only it held.
LEMMA CrashLedger ==
    ASSUME TypeOK, Ledger, NEW f \in Procs, Crash(f)
    PROVE  Ledger'
<1> DEFINE held(k) == hand[f][k] \cup
                      (IF f \in Probes THEN (tx[f][k] \cup snapshot[f][k]) \ counter[k] ELSE {})
<1>0. /\ UNCHANGED <<counter, stored, recorded>> /\ pc[f] # "idle"
      /\ pc' = [pc EXCEPT ![f] = "idle"]
      /\ \A g \in Procs : pc'[g] = IF g = f THEN "idle" ELSE pc[g]
      /\ \A g \in Procs : g # f => hand'[g] = hand[g] /\ todo'[g] = todo[g]
      /\ hand'[f] = NoHits
      /\ \A q \in Probes : snapshot'[q] = (IF q = f THEN NoHits ELSE snapshot[q])
      /\ \A q \in Probes : tx'[q] = (IF q = f THEN NoHits ELSE tx[q])
  BY Zenon DEF Crash, TypeOK
<1>1. lost' = lost \cup UNION {held(k) : k \in Keys}
  BY Zenon DEF Crash, Drop
<1>2. \A k \in Keys : held(k) \subseteq Home(k)
  BY Zenon DEF Ledger, Homes
<1>3. Alone'
  BY <1>0, KeepsAlone, Zenon DEF Ledger, Steps
<1>4. Phases'
  <2>1. \A q \in Probes : q \in Procs
    BY Zenon DEF Procs
  <2>2. \A g \in Procs : \A i, j \in Keys : hand'[g][i] # {} /\ hand'[g][j] # {} => i = j
    BY <1>0, ZenonT(60) DEF Ledger, Phases, NoHits
  <2>3. \A g \in Procs : pc'[g] # "persist" => hand'[g] = NoHits
    BY <1>0, ZenonT(60) DEF Ledger, Phases
  <2> QED BY <1>0, <2>1, <2>2, <2>3, SMTT(60) DEF Ledger, Phases
<1>5. Homes'
  <2>1. \A h \in lost' : \E j \in Keys : h \in Home(j)
    BY <1>1, <1>2 DEF Ledger, Homes
  <2>2. \A j \in Keys : \A g \in Procs : hand'[g][j] \subseteq Home(j)
    BY <1>0, Zenon DEF Ledger, Homes, NoHits
  <2>3. \A j \in Keys : \A q \in Probes : tx'[q][j] \subseteq Home(j) /\ snapshot'[q][j] \subseteq Home(j)
    BY <1>0, SMTT(60) DEF Ledger, Homes, NoHits
  <2> QED BY <1>0, <2>1, <2>2, <2>3, Zenon DEF Ledger, Homes, Home
<1>6. ASSUME NEW j \in Rules PROVE Somewhere(j)' /\ Once(j)'
  <2>0. j \in Keys
    BY Zenon DEF Keys
  <2>1. \A h \in recorded[j] : h \in lost' <=> h \in lost \/ h \in held(j)
    <3>1. \A k \in Keys : k # j => held(k) \cap recorded[j] = {}
      BY <1>2, OtherHome, Zenon DEF Ledger
    <3> HIDE DEF held
    <3> QED BY <1>1, <2>0, <3>1, Zenon
  <2>2. /\ hand'[f][j] = {} /\ \A g \in Procs : g # f => hand'[g][j] = hand[g][j]
        /\ \A q \in Probes : tx'[q][j] = (IF q = f THEN {} ELSE tx[q][j])
        /\ \A q \in Probes : snapshot'[q][j] = (IF q = f THEN {} ELSE snapshot[q][j])
    BY <1>0, <2>0, Zenon DEF NoHits
  <2>3. \A q \in Probes : q # f => snapshot[q][j] = {} /\ tx[q][j] = {}
    BY <1>0, <2>0, OthersIdle, Zenon
  <2>4. f \in Probes => \A g \in Procs : g # f => hand[g][j] = {}
    BY <1>0, <2>0 DEF Ledger, Alone, Phases, NoHits
  <2>5. Somewhere(j)'
    BY <1>0, <2>1, <2>2, <2>3, SMTT(60) DEF Ledger, Somewhere
  <2>6. /\ stored[j] \subseteq recorded[j] /\ counter[j] \subseteq recorded[j]
        /\ \A g \in Procs : hand[g][j] \subseteq recorded[j]
    BY <2>0, Zenon DEF Ledger, Homes, Home
  <2>7. /\ held(j) \cap stored[j] = {} /\ held(j) \cap counter[j] = {}
        /\ \A g \in Procs : g # f => hand[g][j] \cap held(j) = {}
    BY <2>4, Zenon DEF Ledger, Once
  <2>8. Once(j)'
    <3> HIDE DEF held
    <3>1. /\ stored[j] \cap lost' = {} /\ counter[j] \cap lost' = {}
          /\ \A g \in Procs : hand'[g][j] \cap lost' = {}
      BY <2>1, <2>2, <2>6, <2>7, Zenon DEF Ledger, Once
    <3> QED BY <1>0, <2>2, <2>3, <3>1, ZenonT(60) DEF Ledger, Once
  <2> QED BY <2>5, <2>8, Zenon
<1> QED BY <1>3, <1>4, <1>5, <1>6, Zenon DEF Ledger

\* One step of any action keeps the ledger.
LEMMA StepLedger ==
    ASSUME NoOtherFlush, TypeOK, Ledger, [Next]_vars
    PROVE  Ledger'
<1>1. CASE UNCHANGED vars
  <2>0. UNCHANGED <<counter, stored, pc, todo, hand, snapshot, tx, recorded, lost>>
    BY <1>1, Zenon DEF vars, flushVars, probeVars
  <2>1. Alone' /\ Phases'
    BY <2>0 DEF Ledger, Alone, Phases
  <2>2. Homes'
    BY <2>0, Zenon DEF Ledger, Homes, Home
  <2>3. \A k \in Rules : Somewhere(k)' /\ Once(k)'
    BY <2>0, ZenonT(60) DEF Ledger, Somewhere, Once
  <2> QED BY <2>1, <2>2, <2>3, Zenon DEF Ledger
<1>2. ASSUME NEW f \in Procs, FlushStep(f) PROVE Ledger'
  BY <1>2, ControlLedger, TakeLedger, TakeFailsLedger, PersistLedger, PersistFailsLedger, Zenon
  DEF FlushStep
<1>3. ASSUME NEW p \in Probes, ProbeBegin(p) \/ ProbeStep(p) PROVE Ledger'
  <2>1. p \in Procs
    BY Zenon DEF Procs
  <2> QED BY <1>3, <2>1, OwnKeyLedger, VerifyLedger, CleanupLedger, ControlLedger,
             SnapshotLedger, ReconcileLedger, Zenon DEF ProbeStep
<1> QED BY <1>1, <1>2, <1>3, HitLedger, ExpiryLedger, CrashLedger, Zenon DEF Next

\* Every hit is accounted for once, with any number of overlapping flushes, any
\* faults, crashes and expired counters, and hits that go on while a probe runs.  (A
\* flush that overlaps a probe is excluded: run HitCountersProbe shows what it does.)
THEOREM HitsAlwaysAccounted ==
    ASSUME NoOtherFlush
    PROVE  Spec => []HitsAccounted
<1>1. TypeOK /\ Ledger /\ [Next]_vars => Ledger'
  BY StepLedger, Zenon
<1>2. Ledger => HitsAccounted
  <2> SUFFICES ASSUME Ledger, \A f \in Procs : pc[f] = "idle", NEW k \in Rules
               PROVE  /\ recorded[k] = stored[k] \cup counter[k] \cup (recorded[k] \cap lost)
                      /\ stored[k] \cap counter[k] = {}
                      /\ (stored[k] \cup counter[k]) \cap lost = {}
    BY Zenon DEF HitsAccounted
  <2>1. k \in Keys
    BY Zenon DEF Keys
  <2>2. /\ \A f \in Procs : hand[f][k] = {}
        /\ \A p \in Probes : tx[p][k] = {} /\ snapshot[p][k] = {}
    BY <2>1 DEF Ledger, Phases, NoHits, Procs
  <2>3. stored[k] \subseteq recorded[k] /\ counter[k] \subseteq recorded[k]
    BY <2>1, Zenon DEF Ledger, Homes, Home
  <2> QED BY <2>2, <2>3, Zenon DEF Ledger, Somewhere, Once
<1> QED BY <1>1, <1>2, InitLedger, TypeCorrect, PTL DEF Spec

\* The database never gets ahead of the traffic, even when hits are made under a probe.
THEOREM NothingCountedTwice ==
    ASSUME NoOtherFlush
    PROVE  Spec => []NeverCountedTwice
<1>1. TypeOK /\ Ledger /\ [Next]_vars => Ledger'
  BY StepLedger, Zenon
<1>2. Ledger => NeverCountedTwice
  BY Zenon DEF Ledger, Homes, Once, NeverCountedTwice, Procs
<1> QED BY <1>1, <1>2, InitLedger, TypeCorrect, PTL DEF Spec

----------------------------------------------------------------------------
(* What a probe undoes *)

\* From its snapshot on, a probe without an error has a copy of every hit in reach
\* that was not made since it began.
Running == {"list", "take", "persist", "verify", "cleanup"}

Spared(p, k) ==
    counter[k] \cup hand[p][k] \cup tx[p][k] \subseteq snapshot[p][k] \cup during[p]

Covered(p) ==
    ~hurt[p] => /\ pc[p] = "snapshot" => \A k \in Rules \ todo[p] : Spared(p, k)
                /\ pc[p] \in Running => \A k \in Rules : Spared(p, k)
                /\ pc[p] = "reconcile" => \A k \in Rules \cap todo[p] : Spared(p, k)

\* No one else moves while a probe runs.
LEMMA OthersWait ==
    ASSUME NoOtherFlush, TypeOK, Ledger, NEW p \in Probes, NEW f \in Procs, f # p,
           FlushStep(f) \/ Crash(f) \/ (f \in Probes /\ (ProbeBegin(f) \/ ProbeStep(f)))
    PROVE  pc'[p] = "idle"
<1>0. p \in Procs /\ pc \in [Procs -> Steps] /\ ~Overlap /\ (f \in Flushers => f \notin Probes)
  BY HitCountersConstants, Zenon DEF Procs, TypeOK, NoOtherFlush
<1>1. pc[f] # "idle" \/ ProbesIdle \/ \A g \in Procs : pc[g] = "idle"
  <2>1. CASE FlushStep(f)
    BY <1>0, <2>1, Zenon DEF FlushStep, ListKeys, ListFails, MayFlush, EndFlush, Take, TakeFails,
                             Persist, PersistFails
  <2>2. CASE Crash(f) \/ ProbeStep(f)
    BY <2>2, Zenon DEF Crash, ProbeStep, ProbeRecord, ProbeVerify, ProbeCleanup, ProbeEnd,
                       SnapshotKey, Reconcile
  <2>3. CASE ProbeBegin(f)
    BY <1>0, <2>3, Zenon DEF ProbeBegin
  <2> QED BY <2>1, <2>2, <2>3, Zenon
<1>2. pc[p] = "idle"
  BY <1>0, <1>1, Zenon DEF Ledger, Alone, ProbesIdle
<1>3. UNCHANGED pc \/ \E s : pc' = [pc EXCEPT ![f] = s]
  <2>1. CASE FlushStep(f)
    BY <2>1, Zenon DEF FlushStep, ListKeys, ListFails, EndFlush, Take, TakeFails, Persist,
                       PersistFails, Go
  <2>2. CASE Crash(f) \/ ProbeStep(f) \/ ProbeBegin(f)
    BY <2>2, Zenon DEF Crash, ProbeStep, ProbeRecord, ProbeVerify, ProbeCleanup, ProbeEnd,
                       SnapshotKey, Reconcile, ProbeBegin, Go
  <2> QED BY <2>1, <2>2, Zenon
<1> QED BY <1>0, <1>2, <1>3, Zenon

\* A step of the flush that a probe drives keeps its copy complete.
LEMMA FlushCovered ==
    ASSUME TypeOK, Ledger, NEW p \in Probes, Covered(p), FlushStep(p)
    PROVE  Covered(p)'
<1>0. /\ p \in Procs /\ pc \in [Procs -> Steps] /\ p \notin Flushers /\ hurt \in [Probes -> BOOLEAN]
      /\ counter \in [Keys -> SUBSET Tokens] /\ Rules \subseteq Keys
      /\ hand \in [Procs -> [Keys -> SUBSET Tokens]] /\ tx \in [Probes -> [Keys -> SUBSET Tokens]]
  BY HitCountersConstants, Zenon DEF Procs, Keys, TypeOK
<1>1. UNCHANGED <<snapshot, during>> /\ (hurt[p] => hurt'[p]) /\ pc[p] \in Running
  <2>1. UNCHANGED <<snapshot, during>> /\ pc[p] \in Running
    BY <1>0, Zenon DEF FlushStep, ListKeys, ListFails, EndFlush, Take, TakeFails, Persist,
                       PersistFails, MayFlush, probeVars, Running
  <2>2. UNCHANGED hurt \/ \E x : Fault(p, x)
    BY Zenon DEF FlushStep, ListKeys, ListFails, EndFlush, Take, TakeFails, Persist, PersistFails,
                 probeVars
  <2> QED BY <1>0, <2>1, <2>2, Zenon DEF Fault
<1>2. pc'[p] \in Running
  BY <1>0, <1>1, Zenon DEF FlushStep, ListKeys, ListFails, EndFlush, Take, TakeFails, Persist,
                           PersistFails, Go, Running
<1>3. SUFFICES ASSUME ~hurt[p], NEW j \in Rules, Spared(p, j) PROVE Spared(p, j)'
  BY <1>1, <1>2, Zenon DEF Covered, Running
<1>4. j \in Keys /\ hand[p] \in [Keys -> SUBSET Tokens] /\ tx[p] \in [Keys -> SUBSET Tokens]
  BY <1>0, Zenon
<1>5. CASE ListKeys(p) \/ ListFails(p) \/ EndFlush(p)
  BY <1>5, <1>3, Zenon DEF ListKeys, ListFails, EndFlush, Spared, probeVars
<1>6. ASSUME NEW k \in Keys, Take(p, k) PROVE Spared(p, j)'
  <2>1. /\ counter'[j] \subseteq counter[j] /\ UNCHANGED <<tx, snapshot, during>>
        /\ hand'[p][j] = hand[p][j] \/ hand'[p][j] = counter[j]
    <3>1. /\ counter' = [counter EXCEPT ![k] = {}] /\ hand' = [hand EXCEPT ![p][k] = counter[k]]
          /\ UNCHANGED tx
      BY <1>6, Zenon DEF Take, probeVars
    <3>2. hand'[p] = [hand[p] EXCEPT ![k] = counter[k]]
      BY <1>0, <3>1, Zenon
    <3> QED BY <1>0, <1>1, <1>4, <3>1, <3>2, Zenon
  <2> QED BY <1>3, <2>1, Zenon DEF Spared
<1>7. ASSUME NEW k \in Keys, TakeFails(p, k) PROVE Spared(p, j)'
  <2>1. counter'[j] \subseteq counter[j] /\ UNCHANGED <<hand, tx>>
    BY <1>0, <1>4, <1>7, Zenon DEF TakeFails
  <2> QED BY <1>1, <1>3, <2>1, Zenon DEF Spared
<1>8. ASSUME NEW k \in Keys, Persist(p, k) PROVE Spared(p, j)'
  <2>1. /\ UNCHANGED counter /\ hand'[p][j] = {}
        /\ tx' = [tx EXCEPT ![p][k] = IF k \in Rules \cup {p} THEN @ \cup hand[p][k] ELSE @]
    BY <1>0, <1>4, <1>8, Zenon DEF Persist, NoHits
  <2>2. tx'[p] = [tx[p] EXCEPT ![k] = IF k \in Rules \cup {p} THEN tx[p][k] \cup hand[p][k] ELSE tx[p][k]]
    BY <1>0, <2>1, Zenon
  <2>3. tx'[p][j] \subseteq tx[p][j] \cup hand[p][j]
    BY <1>4, <2>2, Zenon
  <2> QED BY <1>1, <1>3, <2>1, <2>3, Zenon DEF Spared
<1>9. ASSUME NEW k \in Keys, PersistFails(p, k) PROVE Spared(p, j)'
  <2>1. UNCHANGED <<counter, tx>> /\ hand'[p][j] = {}
    BY <1>0, <1>4, <1>9, Zenon DEF PersistFails, NoHits
  <2> QED BY <1>1, <1>3, <2>1, Zenon DEF Spared
<1> QED BY <1>5, <1>6, <1>7, <1>8, <1>9, Zenon DEF FlushStep

\* So does a step around it.
LEMMA ProbeCovered ==
    ASSUME TypeOK, Ledger, NEW p \in Probes, Covered(p), ProbeBegin(p) \/ ProbeStep(p)
    PROVE  Covered(p)'
<1>0. /\ p \in Procs /\ pc \in [Procs -> Steps] /\ hurt \in [Probes -> BOOLEAN]
      /\ counter \in [Keys -> SUBSET Tokens] /\ Rules \subseteq Keys /\ p \notin Rules /\ p \in Keys
      /\ snapshot \in [Probes -> [Keys -> SUBSET Tokens]] /\ todo \in [Procs -> SUBSET Keys]
      /\ tx \in [Probes -> [Keys -> SUBSET Tokens]]
  BY HitCountersConstants, Zenon DEF Procs, Keys, TypeOK
<1>1. ProbeStep(p) => (hurt[p] => hurt'[p])
  <2>1. ProbeStep(p) => UNCHANGED hurt \/ \E x : Fault(p, x)
    BY Zenon DEF ProbeStep, ProbeRecord, ProbeVerify, ProbeCleanup, ProbeEnd, SnapshotKey, Reconcile,
                 probeVars
  <2> QED BY <1>0, <2>1, Zenon DEF Fault
<1>2. CASE ProbeBegin(p)
  <2>1. /\ pc'[p] = "snapshot" /\ UNCHANGED <<hand, snapshot, tx, during>>
        /\ \A k \in Rules : counter'[k] = counter[k]
        /\ hurt'[p] \/ todo'[p] = Present \ {p}
    BY <1>0, <1>2, Zenon DEF ProbeBegin, Go
  <2>2. hand[p] = NoHits /\ tx[p] = NoHits
    BY <1>0, <1>2, Zenon DEF ProbeBegin, Ledger, Phases
  <2>3. ASSUME ~hurt'[p], NEW k \in Rules \ todo'[p] PROVE Spared(p, k)'
    <3>1. counter[k] = {}
      BY <1>0, <2>1, <2>3, Zenon DEF Present
    <3> QED BY <1>0, <2>1, <2>2, <3>1, Zenon DEF Spared, NoHits
  <2> QED BY <2>1, <2>3, Zenon DEF Covered, Running
<1>3. CASE ProbeRecord(p)
  <2>1. /\ pc[p] = "snapshot" /\ todo[p] = {} /\ pc'[p] = "list"
        /\ UNCHANGED <<hand, snapshot, tx, during>> /\ \A k \in Rules : counter'[k] = counter[k]
    BY <1>0, <1>3, Zenon DEF ProbeRecord, Go
  <2>2. ~hurt'[p] => \A k \in Rules : Spared(p, k)
    BY <1>1, <1>3, <2>1, Zenon DEF Covered, ProbeStep
  <2>3. ~hurt'[p] => \A k \in Rules : Spared(p, k)'
    BY <2>1, <2>2, Zenon DEF Spared
  <2> QED BY <2>1, <2>3, Zenon DEF Covered
<1>4. CASE ProbeVerify(p)
  <2>1. /\ pc[p] = "verify" /\ pc'[p] = "cleanup" /\ tx'[p] = NoHits
        /\ UNCHANGED <<counter, hand, snapshot, during>>
    BY <1>0, <1>4, Zenon DEF ProbeVerify, Go
  <2>2. ~hurt'[p] => \A k \in Rules : Spared(p, k)
    BY <1>1, <1>4, <2>1, Zenon DEF Covered, ProbeStep, Running
  <2>3. \A k \in Rules : tx'[p][k] = {}
    BY <1>0, <2>1, Zenon DEF NoHits
  <2>4. ~hurt'[p] => \A k \in Rules : Spared(p, k)'
    BY <2>1, <2>2, <2>3, Zenon DEF Spared
  <2> QED BY <2>1, <2>4, Zenon DEF Covered
<1>5. CASE ProbeCleanup(p)
  <2>1. /\ pc[p] = "cleanup" /\ pc'[p] = "reconcile" /\ UNCHANGED <<hand, snapshot, tx, during>>
        /\ \A k \in Rules : counter'[k] = counter[k]
    BY <1>0, <1>5, Zenon DEF ProbeCleanup, Go
  <2>2. ~hurt'[p] => \A k \in Rules : Spared(p, k)
    BY <1>1, <1>5, <2>1, Zenon DEF Covered, ProbeStep, Running
  <2>3. ~hurt'[p] => \A k \in Rules : Spared(p, k)'
    BY <2>1, <2>2, Zenon DEF Spared
  <2> QED BY <2>1, <2>3, Zenon DEF Covered, Running
<1>6. CASE ProbeEnd(p)
  <2>1. pc'[p] = "idle"
    BY <1>0, <1>6, Zenon DEF ProbeEnd, Go
  <2> QED BY <2>1, Zenon DEF Covered, Running
<1>7. ASSUME NEW k \in Keys, SnapshotKey(p, k) PROVE Covered(p)'
  <2>1. /\ pc[p] = "snapshot" /\ UNCHANGED <<counter, pc, hand, tx, during>> /\ todo'[p] = todo[p] \ {k}
        /\ hurt'[p] \/ snapshot' = [snapshot EXCEPT ![p][k] = counter[k]]
    BY <1>0, <1>7, Zenon DEF SnapshotKey, Fault
  <2>2. ASSUME ~hurt'[p], NEW j \in Rules \ todo'[p] PROVE Spared(p, j)'
    <3>1. snapshot'[p] = [snapshot[p] EXCEPT ![k] = counter[k]]
      BY <1>0, <2>1, <2>2, Zenon
    <3>2. snapshot'[p][j] = IF j = k THEN counter[j] ELSE snapshot[p][j]
      BY <1>0, <3>1, Zenon
    <3>3. j = k \/ Spared(p, j)
      BY <1>1, <1>7, <2>1, <2>2, Zenon DEF Covered, ProbeStep
    <3>4. hand[p][j] = {} /\ tx[p][j] = {}
      BY <1>0, <2>1 DEF Ledger, Phases, NoHits
    <3> QED BY <2>1, <3>2, <3>3, <3>4, Zenon DEF Spared
  <2> QED BY <2>1, <2>2, Zenon DEF Covered, Running
<1>8. ASSUME NEW k \in Keys, Reconcile(p, k) PROVE Covered(p)'
  <2>1. /\ pc[p] = "reconcile" /\ UNCHANGED <<pc, hand, tx, during>> /\ todo'[p] = todo[p] \ {k}
        /\ \A j \in Keys \ {k} : counter'[j] = counter[j] /\ snapshot'[p][j] = snapshot[p][j]
    <3>1. snapshot' = [snapshot EXCEPT ![p][k] = {}]
      BY <1>8, Zenon DEF Reconcile
    <3>2. snapshot'[p] = [snapshot[p] EXCEPT ![k] = {}]
      BY <1>0, <3>1, Zenon
    <3> QED BY <1>0, <1>8, <3>2, Zenon DEF Reconcile
  <2>2. ASSUME ~hurt'[p], NEW j \in Rules \cap todo'[p] PROVE Spared(p, j)'
    <3>1. Spared(p, j) /\ j \in Keys \ {k}
      BY <1>0, <1>1, <1>8, <2>1, <2>2, Zenon DEF Covered, ProbeStep
    <3> QED BY <2>1, <3>1, Zenon DEF Spared
  <2> QED BY <2>1, <2>2, Zenon DEF Covered, Running
<1> QED BY <1>2, <1>3, <1>4, <1>5, <1>6, <1>7, <1>8, Zenon DEF ProbeStep

\* Every step keeps every running probe's copy complete.
LEMMA StepCovered ==
    ASSUME NoOtherFlush, TypeOK, Ledger, \A p \in Probes : Covered(p), [Next]_vars
    PROVE  \A p \in Probes : Covered(p)'
<1> SUFFICES ASSUME NEW p \in Probes PROVE Covered(p)'
  BY Zenon
<1>0. p \in Procs /\ Covered(p) /\ Probes \subseteq Procs /\ Rules \subseteq Keys
  BY Zenon DEF Procs, Keys
<1>1. CASE UNCHANGED vars
  BY <1>0, <1>1, Zenon DEF vars, flushVars, probeVars, Covered, Spared
<1>2. ASSUME NEW k \in Rules, NEW h \in Hits, Hit(k, h) PROVE Covered(p)'
  <2>1. /\ UNCHANGED <<pc, todo, hand, snapshot, tx, hurt>> /\ counter' = [counter EXCEPT ![k] = @ \cup {h}]
        /\ pc[p] # "idle" => during'[p] = during[p] \cup {h}
    BY <1>2, Zenon DEF Hit, flushVars, probeVars
  <2>2. \A j \in Rules : counter'[j] \subseteq counter[j] \cup {h}
    BY <1>0, <2>1, Zenon DEF TypeOK
  <2>3. \A j \in Rules : pc[p] # "idle" /\ Spared(p, j) => Spared(p, j)'
    BY <2>1, <2>2, Zenon DEF Spared
  <2> QED BY <1>0, <2>1, <2>3, Zenon DEF Covered, Running
<1>3. ASSUME NEW k \in Rules, CounterExpires(k) PROVE Covered(p)'
  <2>1. /\ UNCHANGED <<pc, todo, hand, snapshot, tx, hurt, during>>
        /\ counter' = [counter EXCEPT ![k] = {}]
    BY <1>3, Zenon DEF CounterExpires, flushVars, probeVars
  <2>2. \A j \in Rules : counter'[j] \subseteq counter[j]
    BY <1>0, <2>1, Zenon DEF TypeOK
  <2>3. \A j \in Rules : Spared(p, j) => Spared(p, j)'
    BY <2>1, <2>2, Zenon DEF Spared
  <2> QED BY <1>0, <2>1, <2>3, Zenon DEF Covered
<1>4. ASSUME NEW f \in Procs,
             FlushStep(f) \/ Crash(f) \/ (f \in Probes /\ (ProbeBegin(f) \/ ProbeStep(f)))
      PROVE  Covered(p)'
  <2>1. CASE f # p
    <3>1. pc'[p] = "idle"
      BY <1>4, <2>1, OthersWait, Zenon
    <3> QED BY <3>1, Zenon DEF Covered, Running
  <2>2. CASE f = p /\ ~Crash(f)
    BY <1>0, <1>4, <2>2, FlushCovered, ProbeCovered, Zenon
  <2>3. CASE f = p /\ Crash(f)
    <3>1. pc'[p] = "idle"
      BY <1>0, <2>3, Zenon DEF Crash, TypeOK
    <3> QED BY <3>1, Zenon DEF Covered, Running
  <2> QED BY <2>1, <2>2, <2>3, Zenon
<1> QED BY <1>0, <1>1, <1>2, <1>3, <1>4, Zenon DEF Next

\* What a step of a probe loses, when no error explains it.
LEMMA ProbeLosses ==
    ASSUME TypeOK, Ledger, NEW p \in Probes, Covered(p), FlushStep(p) \/ ProbeStep(p), ~hurt'[p]
    PROVE  Hits \cap (lost' \ lost) \subseteq during[p]
<1>0. /\ p \in Procs /\ p \notin Flushers /\ hurt \in [Probes -> BOOLEAN] /\ Rules \subseteq Keys
      /\ \A h \in Hits : h \notin Probes
  BY HitCountersConstants, Zenon DEF Procs, Keys, TypeOK
<1>1. ~\E x : Fault(p, x)
  BY Zenon DEF Fault
<1>2. ASSUME NEW k \in Keys, k \notin Rules
      PROVE  Hits \cap (counter[k] \cup hand[p][k]) = {}
  <2>1. counter[k] \subseteq Probes /\ hand[p][k] \subseteq Probes
    BY <1>0, <1>2, Zenon DEF Ledger, Homes, Home
  <2> QED BY <1>0, <2>1, Zenon
<1>3. CASE FlushStep(p)
  <2>1. ASSUME NEW k \in Keys, PersistFails(p, k) PROVE Hits \cap (lost' \ lost) \subseteq during[p]
    <3>1. /\ lost' = lost \cup (hand[p][k] \ snapshot[p][k]) /\ UNCHANGED hurt /\ pc[p] = "persist"
      BY <1>0, <1>1, <2>1, Zenon DEF PersistFails, Drop
    <3>2. k \in Rules => Spared(p, k)
      BY <3>1, Zenon DEF Covered, Running
    <3> QED BY <1>2, <3>1, <3>2, Zenon DEF Spared
  <2>2. ASSUME NEW k \in Keys, Take(p, k) \/ TakeFails(p, k) \/ Persist(p, k) PROVE UNCHANGED lost
    BY <1>1, <2>2, Zenon DEF Take, TakeFails, Persist
  <2>3. CASE ListKeys(p) \/ ListFails(p) \/ EndFlush(p)
    BY <2>3, Zenon DEF ListKeys, ListFails, EndFlush
  <2> QED BY <1>3, <2>1, <2>2, <2>3, Zenon DEF FlushStep
<1>4. CASE ProbeStep(p)
  <2>1. CASE ProbeVerify(p)
    <3>1. /\ lost' = lost \cup UNION {tx[p][k] \ snapshot[p][k] : k \in Rules}
          /\ UNCHANGED hurt /\ pc[p] = "verify"
      BY <1>1, <2>1, Zenon DEF ProbeVerify, Drop
    <3>2. \A k \in Rules : Spared(p, k)
      BY <3>1, Zenon DEF Covered, Running
    <3> QED BY <3>1, <3>2, Zenon DEF Spared
  <2>2. ASSUME NEW k \in Keys, Reconcile(p, k) PROVE Hits \cap (lost' \ lost) \subseteq during[p]
    <3>1. /\ lost' = lost \cup (counter[k] \ snapshot[p][k]) /\ UNCHANGED hurt
          /\ pc[p] = "reconcile" /\ k \in todo[p]
      BY <1>1, <2>2, Zenon DEF Reconcile, Drop
    <3>2. k \in Rules => Spared(p, k)
      BY <3>1, Zenon DEF Covered
    <3> QED BY <1>2, <3>1, <3>2, Zenon DEF Spared
  <2>3. CASE ProbeRecord(p) \/ ProbeCleanup(p) \/ ProbeEnd(p) \/ \E k \in Keys : SnapshotKey(p, k)
    BY <2>3, Zenon DEF ProbeRecord, ProbeCleanup, ProbeEnd, SnapshotKey
  <2> QED BY <1>4, <2>1, <2>2, <2>3, Zenon DEF ProbeStep
<1> QED BY <1>3, <1>4, Zenon

\* A probe that meets no error takes along no hit but those made since it began, however
\* many rules it finds and whatever earlier flushes and probes left behind.
THEOREM ProbesSpareEarlierHits ==
    ASSUME NoOtherFlush
    PROVE  Spec => ProbeSparesEarlierHits
<1> DEFINE Inv == TypeOK /\ Ledger /\ \A p \in Probes : Covered(p)
<1>1. Init => Inv
  <2>1. Init => \A p \in Probes : Covered(p)
    BY Zenon DEF Init, Covered, Running, Procs
  <2> QED BY <2>1, InitType, InitLedger, Zenon
<1>2. Inv /\ [Next]_vars => Inv'
  BY StepType, StepLedger, StepCovered, Zenon
<1>3. Inv /\ [Next]_vars =>
          [\A p \in Probes : FlushStep(p) \/ ProbeStep(p) =>
               hurt'[p] \/ Hits \cap (lost' \ lost) \subseteq during[p]]_vars
  BY ProbeLosses, Zenon
<1> HIDE DEF Inv
<1> QED BY <1>1, <1>2, <1>3, PTL DEF Spec, ProbeSparesEarlierHits

----------------------------------------------------------------------------
(* The hit counters implement HitTally *)

\* Nothing has been made, counted or given up.
LEMMA InitTally == Init => Tally!Init
<1> SUFFICES ASSUME Init PROVE Tally!Init
  BY Zenon
<1>1. \A k \in Rules : recorded[k] \cap lost = {}
  BY Zenon DEF Init
<1>2. [k \in Rules |-> recorded[k] \cap lost] = [k \in Rules |-> {}]
  BY <1>1, Zenon
<1> QED BY <1>2, Zenon DEF Init, Tally!Init

\* A new hit is HitTally's Make: no hit is dropped before it is made.
LEMMA HitMakes ==
    ASSUME TypeOK, Ledger, NEW k \in Rules, NEW h \in Hits, Hit(k, h)
    PROVE  Tally!Make(k, h)
<1>0. /\ recorded' = [recorded EXCEPT ![k] = @ \cup {h}] /\ UNCHANGED <<stored, lost>>
      /\ \A j \in Rules : h \notin recorded[j]
  BY Zenon DEF Hit
<1>1. h \notin lost
  BY <1>0, HitCountersConstants, Zenon DEF Ledger, Homes, Home
<1>2. \A j \in Rules : recorded'[j] \cap lost' = recorded[j] \cap lost
  BY <1>0, <1>1, Zenon DEF TypeOK
<1>3. [j \in Rules |-> recorded'[j] \cap lost'] = [j \in Rules |-> recorded[j] \cap lost]
  BY <1>2, Zenon
<1> QED BY <1>0, <1>3, Zenon DEF Tally!Make

\* The UPDATE of a flush is HitTally's Count, or counts for no rule.
LEMMA PersistCounts ==
    ASSUME TypeOK, Ledger, NEW f \in Flushers, NEW k \in Keys, Persist(f, k)
    PROVE  (k \in Rules /\ Tally!Count(k)) \/ UNCHANGED Tally!tally
<1>0. /\ UNCHANGED <<recorded, lost>> /\ f \in Procs
      /\ stored' = [j \in Rules |-> IF j = k THEN stored[j] \cup hand[f][k] ELSE stored[j]]
  BY HitCountersConstants, Zenon DEF Persist, Procs
<1>1. stored \in [Rules -> SUBSET Tokens]
  BY Zenon DEF TypeOK
<1>2. [j \in Rules |-> recorded'[j] \cap lost'] = [j \in Rules |-> recorded[j] \cap lost]
  BY <1>0, Zenon
<1>3. CASE k \in Rules
  <2>1. stored' = [stored EXCEPT ![k] = @ \cup hand[f][k]]
    BY <1>0, <1>1, <1>3, Zenon
  <2>2. hand[f][k] \in SUBSET Tally!Open(k)
    <3>1. hand[f][k] \subseteq recorded[k]
      BY <1>0, <1>3, Zenon DEF Ledger, Homes, Home
    <3>2. hand[f][k] \cap (stored[k] \cup lost) = {}
      BY <1>0, <1>3, Zenon DEF Ledger, Once
    <3>3. Tally!Open(k) = recorded[k] \ (stored[k] \cup (recorded[k] \cap lost))
      BY <1>3, Zenon DEF Tally!Open
    <3> QED BY <3>1, <3>2, <3>3, Zenon
  <2> QED BY <1>0, <1>2, <1>3, <2>1, <2>2, Zenon DEF Tally!Count
<1>4. CASE k \notin Rules
  <2>1. stored' = stored
    BY <1>0, <1>1, <1>4, Zenon
  <2> QED BY <1>0, <1>2, <2>1, Zenon DEF Tally!tally
<1> QED BY <1>3, <1>4, Zenon

\* A step that only drops hits, and none that is counted, is HitTally's GiveUp.
LEMMA DropGivesUp ==
    ASSUME UNCHANGED <<recorded, stored>>, lost \subseteq lost',
           \A k \in Rules : stored[k] \cap lost' = {}
    PROVE  Tally!GiveUp
<1> DEFINE D == [k \in Rules |-> recorded[k] \cap (lost' \ lost)]
<1>1. \A k \in Rules : Tally!Open(k) = recorded[k] \ (stored[k] \cup (recorded[k] \cap lost))
  BY Zenon DEF Tally!Open
<1>2. \A k \in Rules : D[k] \subseteq Tally!Open(k)
  BY <1>1, Zenon
<1>3. D \in [Rules -> SUBSET UNION {Tally!Open(k) : k \in Rules}]
  BY <1>2, Zenon
<1>4. \A k \in Rules : recorded'[k] \cap lost' = [j \in Rules |-> recorded[j] \cap lost][k] \cup D[k]
  BY Zenon
<1>5. [k \in Rules |-> recorded'[k] \cap lost'] =
         [k \in Rules |-> [j \in Rules |-> recorded[j] \cap lost][k] \cup D[k]]
  BY <1>4, Zenon
<1> HIDE DEF D
<1> QED BY <1>2, <1>3, <1>5, Zenon DEF Tally!GiveUp

\* A step that makes no hit drops some, if anything, and only the UPDATE of a flush
\* changes the table.
LEMMA OthersOnlyDrop ==
    ASSUME NEW f \in Procs,
           FlushStep(f) \/ Crash(f) \/ (f \in Probes /\ (ProbeBegin(f) \/ ProbeStep(f)))
    PROVE  /\ UNCHANGED recorded /\ lost \subseteq lost'
           /\ UNCHANGED stored \/ \E k \in Keys : f \in Flushers /\ Persist(f, k)
<1>1. CASE ListKeys(f) \/ ListFails(f) \/ EndFlush(f) \/ ProbeEnd(f)
  BY <1>1, Zenon DEF ListKeys, ListFails, EndFlush, ProbeEnd
<1>2. ASSUME NEW k \in Keys, Take(f, k) \/ TakeFails(f, k) \/ PersistFails(f, k)
      PROVE  UNCHANGED <<recorded, stored>> /\ lost \subseteq lost'
  BY <1>2, Zenon DEF Take, TakeFails, PersistFails, Drop
<1>3. ASSUME NEW k \in Keys, Persist(f, k)
      PROVE  UNCHANGED <<recorded, lost>> /\ (UNCHANGED stored \/ f \in Flushers)
  BY <1>3, Zenon DEF Persist
<1>4. CASE Crash(f)
  BY <1>4, Zenon DEF Crash, Drop
<1>5. CASE ProbeBegin(f) \/ ProbeRecord(f) \/ ProbeVerify(f) \/ ProbeCleanup(f)
  BY <1>5, Zenon DEF ProbeBegin, ProbeRecord, ProbeVerify, ProbeCleanup, Drop
<1>6. ASSUME NEW k \in Keys, SnapshotKey(f, k) \/ Reconcile(f, k)
      PROVE  UNCHANGED <<recorded, stored>> /\ lost \subseteq lost'
  BY <1>6, Zenon DEF SnapshotKey, Reconcile, Drop
<1>7. CASE FlushStep(f)
  BY <1>1, <1>2, <1>3, <1>7, Zenon DEF FlushStep
<1>8. CASE ProbeStep(f)
  BY <1>1, <1>5, <1>6, <1>8, Zenon DEF ProbeStep
<1> QED BY <1>4, <1>5, <1>7, <1>8, Zenon

\* Every step is a step of HitTally or leaves what it sees unchanged.
LEMMA StepTally ==
    ASSUME NoOtherFlush, TypeOK, Ledger, [Next]_vars
    PROVE  [Tally!Next]_(Tally!tally)
<1>0. Ledger'
  BY StepLedger, Zenon
<1>1. CASE UNCHANGED vars
  <2>1. UNCHANGED <<recorded, stored, lost>>
    BY <1>1, Zenon DEF vars
  <2>2. [k \in Rules |-> recorded'[k] \cap lost'] = [k \in Rules |-> recorded[k] \cap lost]
    BY <2>1, Zenon
  <2> QED BY <2>1, <2>2, Zenon DEF Tally!tally
<1>2. ASSUME NEW k \in Rules, NEW h \in Hits, Hit(k, h) PROVE Tally!Next
  BY <1>2, HitMakes, Zenon DEF Tally!Next
<1>5. ASSUME NEW k \in Rules, CounterExpires(k) PROVE Tally!Next
  <2>1. UNCHANGED <<recorded, stored>> /\ lost \subseteq lost'
    BY <1>5, Zenon DEF CounterExpires, Drop
  <2>2. \A j \in Rules : stored[j] \cap lost' = {}
    BY <1>0, <2>1, Zenon DEF Ledger, Once
  <2> QED BY <2>1, <2>2, DropGivesUp, Zenon DEF Tally!Next
<1>3. ASSUME NEW f \in Procs,
             FlushStep(f) \/ Crash(f) \/ (f \in Probes /\ (ProbeBegin(f) \/ ProbeStep(f)))
      PROVE  Tally!Next \/ UNCHANGED Tally!tally
  <2>1. CASE \E k \in Keys : f \in Flushers /\ Persist(f, k)
    BY <2>1, PersistCounts, Zenon DEF Tally!Next
  <2>2. CASE UNCHANGED stored
    <3>1. UNCHANGED recorded /\ lost \subseteq lost'
      BY <1>3, OthersOnlyDrop, Zenon
    <3>2. \A k \in Rules : stored[k] \cap lost' = {}
      BY <1>0, <2>2, Zenon DEF Ledger, Once
    <3>3. Tally!GiveUp
      BY <2>2, <3>1, <3>2, DropGivesUp, Zenon
    <3> QED BY <3>3, Zenon DEF Tally!Next
  <2> QED BY <1>3, <2>1, <2>2, OthersOnlyDrop, Zenon
<1>4. Probes \subseteq Procs
  BY Zenon DEF Procs
<1> QED BY <1>1, <1>2, <1>3, <1>4, <1>5, Zenon DEF Next

\* flush_rule_hit_counts and the probe implement HitTally, with any faults, crashes and
\* overlapping flushes, and whatever hits are made while a probe runs: a hit is counted
\* at most once, and what is lost is not counted later.
THEOREM HitCountersImplementHitTally ==
    ASSUME NoOtherFlush
    PROVE  Spec => ImplementsHitTally
<1>1. TypeOK /\ Ledger /\ [Next]_vars => Ledger'
  BY StepLedger, Zenon
<1>2. TypeOK /\ Ledger /\ [Next]_vars => [Tally!Next]_(Tally!tally)
  BY StepTally, Zenon
<1> QED BY <1>1, <1>2, InitLedger, InitTally, TypeCorrect, PTL
        DEF Spec, ImplementsHitTally, Tally!Spec

----------------------------------------------------------------------------
(* The hit of a probe *)

\* Where the hit of probe p is from when it is recorded until it is read back: in its
\* counter with the key still to be taken, in hand, or written.
Waiting(p) == p \in todo[p] /\ counter[p] = {p} /\ tx[p][p] = {} /\ hand[p][p] = {}
InHand(p)  == p \notin todo[p] /\ counter[p] = {} /\ tx[p][p] = {} /\ hand[p][p] = {p}
Written(p) == p \notin todo[p] /\ counter[p] = {} /\ tx[p][p] = {p} /\ hand[p][p] = {}

OnPath(p) ==
    /\ pc[p] = "list" => counter[p] = {p}
    /\ pc[p] = "take" => ~broken[p] /\ (Waiting(p) \/ Written(p))
    /\ pc[p] = "persist" => ~broken[p] /\ (Waiting(p) \/ InHand(p) \/ Written(p))
    /\ pc[p] = "verify" => ~broken[p] /\ Written(p)

PathInv(p) ==
    /\ pc[p] # "persist" => hand[p] = NoHits
    /\ \A j, k \in Keys : hand[p][j] # {} /\ hand[p][k] # {} => j = k
    /\ pc[p] \notin {"take", "persist", "verify"} => tx[p] = NoHits /\ ~broken[p]
    /\ verdict[p] = "failed" => hurt[p]
    /\ hurt[p] \/ OnPath(p)

PathsInv == Alone /\ \A p \in Probes : PathInv(p)

\* No probe has run.
LEMMA InitPath == Init => Alone /\ \A p \in Probes : PathInv(p)
<1> SUFFICES ASSUME Init PROVE Alone /\ \A p \in Probes : PathInv(p)
  BY Zenon
<1>1. Alone
  BY Zenon DEF Init, Alone, Procs
<1>2. ASSUME NEW p \in Probes PROVE PathInv(p)
  <2>1. /\ pc[p] = "idle" /\ hand[p] = NoHits /\ tx[p] = NoHits /\ ~broken[p] /\ verdict[p] = "none"
    BY Zenon DEF Init, Procs
  <2>2. \A k \in Keys : hand[p][k] = {}
    BY <2>1, Zenon DEF NoHits
  <2> QED BY <2>1, <2>2, Zenon DEF PathInv, OnPath
<1> QED BY <1>1, <1>2, Zenon

\* What every step but one of another process that starts is: of the only process that
\* runs, of a flush while no probe runs, or of a probe that starts when nothing runs.
LEMMA StartsAlone ==
    ASSUME NoOtherFlush, TypeOK, NEW f \in Procs,
           FlushStep(f) \/ Crash(f) \/ (f \in Probes /\ (ProbeBegin(f) \/ ProbeStep(f)))
    PROVE  \/ pc[f] # "idle" \/ (f \notin Probes /\ ProbesIdle)
           \/ \A g \in Procs : pc[g] = "idle"
<1>1. CASE ListKeys(f) \/ ListFails(f)
  <2>1. MayFlush(f)
    BY <1>1, Zenon DEF ListKeys, ListFails
  <2> QED BY <2>1, HitCountersConstants, Zenon DEF MayFlush, NoOtherFlush
<1>2. CASE EndFlush(f) \/ \E k \in Keys : Take(f, k) \/ TakeFails(f, k) \/ Persist(f, k) \/ PersistFails(f, k)
  BY <1>2, Zenon DEF EndFlush, Take, TakeFails, Persist, PersistFails
<1>3. CASE Crash(f)
  BY <1>3, Zenon DEF Crash
<1>4. CASE ProbeBegin(f)
  BY <1>4, Zenon DEF ProbeBegin, NoOtherFlush
<1>5. CASE ProbeStep(f)
  BY <1>5, Zenon DEF ProbeStep, ProbeRecord, ProbeVerify, ProbeCleanup, ProbeEnd, SnapshotKey, Reconcile
<1> QED BY <1>1, <1>2, <1>3, <1>4, <1>5, Zenon DEF FlushStep

\* Such a step moves its process to a step of its own.
LEMMA OwnMove ==
    ASSUME TypeOK, NEW f \in Procs,
           FlushStep(f) \/ Crash(f) \/ (f \in Probes /\ (ProbeBegin(f) \/ ProbeStep(f)))
    PROVE  \E s \in Steps : pc' = [pc EXCEPT ![f] = s]
<1>1. CASE ListKeys(f) \/ ListFails(f) \/ EndFlush(f)
  BY <1>1, Zenon DEF ListKeys, ListFails, EndFlush, Go, Steps
<1>2. CASE \E k \in Keys : Take(f, k) \/ Persist(f, k) \/ PersistFails(f, k)
  BY <1>2, Zenon DEF Take, Persist, PersistFails, Go, Steps
<1>3. pc = [pc EXCEPT ![f] = pc[f]] /\ pc[f] \in Steps
  BY Zenon DEF TypeOK
<1>4. CASE \E k \in Keys : TakeFails(f, k)
  BY <1>3, <1>4, Zenon DEF TakeFails
<1>5. CASE Crash(f)
  BY <1>5, Zenon DEF Crash, Steps
<1>6. CASE ProbeBegin(f)
  BY <1>6, Zenon DEF ProbeBegin, Go, Steps
<1>7. CASE ProbeRecord(f) \/ ProbeVerify(f) \/ ProbeCleanup(f) \/ ProbeEnd(f)
  BY <1>7, Zenon DEF ProbeRecord, ProbeVerify, ProbeCleanup, ProbeEnd, Go, Steps
<1>8. CASE \E k \in Keys : SnapshotKey(f, k) \/ Reconcile(f, k)
  BY <1>3, <1>8, Zenon DEF SnapshotKey, Reconcile
<1> QED BY <1>1, <1>2, <1>4, <1>5, <1>6, <1>7, <1>8, Zenon DEF FlushStep, ProbeStep

\* A probe that runs stays the only process that runs.
LEMMA StepAlone ==
    ASSUME NoOtherFlush, TypeOK, Alone, NEW f \in Procs,
           FlushStep(f) \/ Crash(f) \/ (f \in Probes /\ (ProbeBegin(f) \/ ProbeStep(f)))
    PROVE  Alone'
<1>1. PICK s \in Steps : pc' = [pc EXCEPT ![f] = s]
  BY OwnMove, Zenon
<1>2. \/ pc[f] # "idle" \/ (f \notin Probes /\ ProbesIdle)
      \/ \A g \in Procs : pc[g] = "idle"
  BY StartsAlone, Zenon
<1> QED BY <1>1, <1>2, KeepsAlone, Zenon

\* A process leaves the locals of a probe that is not its own alone.
LEMMA OthersLocals ==
    ASSUME TypeOK, NEW f \in Procs, NEW p \in Probes, p # f,
           FlushStep(f) \/ Crash(f) \/ (f \in Probes /\ (ProbeBegin(f) \/ ProbeStep(f)))
    PROVE  /\ hand'[p] = hand[p] /\ tx'[p] = tx[p] /\ verdict'[p] = verdict[p]
           /\ hurt[p] => hurt'[p]
           /\ ~broken[p] => ~broken'[p]
<1>0. /\ p \in Procs /\ hand \in [Procs -> [Keys -> SUBSET Tokens]] /\ tx \in [Probes -> [Keys -> SUBSET Tokens]]
      /\ verdict \in [Probes -> {"none", "alive", "failed"}]
      /\ hurt \in [Probes -> BOOLEAN] /\ broken \in [Probes -> BOOLEAN]
  BY Zenon DEF TypeOK, Procs
<1>1. ASSUME NEW x, Fault(f, x) PROVE hurt[p] => hurt'[p]
  BY <1>1, Zenon DEF Fault
<1>2. CASE ListKeys(f) \/ EndFlush(f) \/ ProbeEnd(f)
  BY <1>2, Zenon DEF ListKeys, EndFlush, ProbeEnd, probeVars
<1>3. CASE ListFails(f)
  BY <1>1, <1>3, Zenon DEF ListFails
<1>4. ASSUME NEW k \in Keys, Take(f, k) PROVE hand'[p] = hand[p] /\ UNCHANGED probeVars
  BY <1>0, <1>4, Zenon DEF Take
<1>5. ASSUME NEW k \in Keys, TakeFails(f, k)
      PROVE  UNCHANGED <<hand, tx, verdict, broken>> /\ (hurt[p] => hurt'[p])
  BY <1>1, <1>5, Zenon DEF TakeFails
<1>6. ASSUME NEW k \in Keys, Persist(f, k)
      PROVE  hand'[p] = hand[p] /\ tx'[p] = tx[p] /\ UNCHANGED <<verdict, broken, hurt>>
  BY <1>0, <1>6, Zenon DEF Persist
<1>7. ASSUME NEW k \in Keys, PersistFails(f, k)
      PROVE  /\ hand'[p] = hand[p] /\ UNCHANGED <<tx, verdict>>
             /\ (hurt[p] => hurt'[p]) /\ (~broken[p] => ~broken'[p])
  <2>1. hand'[p] = hand[p] /\ UNCHANGED <<tx, verdict>>
    BY <1>0, <1>7, Zenon DEF PersistFails
  <2>2. hurt[p] => hurt'[p]
    BY <1>1, <1>7, Zenon DEF PersistFails
  <2>3. ~broken[p] => ~broken'[p]
    BY <1>0, <1>7, Zenon DEF PersistFails
  <2> QED BY <2>1, <2>2, <2>3
<1>8. CASE Crash(f)
  <2>1. hand'[p] = hand[p] /\ tx'[p] = tx[p] /\ UNCHANGED verdict
    BY <1>0, <1>8, Zenon DEF Crash
  <2>2. (hurt[p] => hurt'[p]) /\ (~broken[p] => ~broken'[p])
    BY <1>1, <1>8, Zenon DEF Crash
  <2> QED BY <2>1, <2>2, Zenon
<1>9. CASE ProbeBegin(f)
  <2>1. verdict'[p] = verdict[p] /\ UNCHANGED <<hand, tx, broken>>
    BY <1>0, <1>9, Zenon DEF ProbeBegin
  <2>2. hurt' = [hurt EXCEPT ![f] = FALSE] \/ hurt' = [hurt EXCEPT ![f] = TRUE]
    BY <1>9, Zenon DEF ProbeBegin
  <2>3. hurt'[p] = hurt[p]
    BY <1>0, <2>2, Zenon
  <2> QED BY <2>1, <2>3, Zenon
<1>10. CASE ProbeRecord(f)
  BY <1>1, <1>10, Zenon DEF ProbeRecord
<1>11. CASE f \in Probes /\ ProbeVerify(f)
  <2>1. hand' = hand /\ tx'[p] = tx[p] /\ verdict'[p] = verdict[p] /\ broken'[p] = broken[p]
    BY <1>0, <1>11, Zenon DEF ProbeVerify
  <2>2. hurt[p] => hurt'[p]
    BY <1>1, <1>11, Zenon DEF ProbeVerify
  <2> QED BY <2>1, <2>2, Zenon
<1>12. CASE ProbeCleanup(f)
  BY <1>1, <1>12, Zenon DEF ProbeCleanup
<1>13. ASSUME NEW k \in Keys, SnapshotKey(f, k) \/ Reconcile(f, k)
       PROVE  UNCHANGED <<hand, tx, verdict, broken>> /\ (hurt[p] => hurt'[p])
  BY <1>1, <1>13, Zenon DEF SnapshotKey, Reconcile
<1>14. CASE FlushStep(f)
  BY <1>2, <1>3, <1>4, <1>5, <1>6, <1>7, <1>14, Zenon DEF FlushStep, probeVars
<1>15. CASE f \in Probes /\ ProbeStep(f)
  BY <1>2, <1>10, <1>11, <1>12, <1>13, <1>15, Zenon DEF ProbeStep
<1> QED BY <1>8, <1>9, <1>14, <1>15, Zenon

\* So the steps of the others keep a probe on its path.
LEMMA OthersPath ==
    ASSUME NoOtherFlush, TypeOK, Alone, NEW f \in Procs, NEW p \in Probes, p # f, PathInv(p),
           FlushStep(f) \/ Crash(f) \/ (f \in Probes /\ (ProbeBegin(f) \/ ProbeStep(f)))
    PROVE  PathInv(p)'
<1>1. /\ hand'[p] = hand[p] /\ tx'[p] = tx[p] /\ verdict'[p] = verdict[p]
      /\ hurt[p] => hurt'[p]
      /\ ~broken[p] => ~broken'[p]
  BY OthersLocals, Zenon
<1>2. p \in Procs
  BY Zenon DEF Procs
<1>3. pc[p] = "idle"
  <2> SUFFICES ASSUME pc[p] # "idle" PROVE FALSE
    OBVIOUS
  <2>1. pc[f] = "idle"
    BY Zenon DEF Alone
  <2> QED BY <1>2, <2>1, StartsAlone, Zenon DEF ProbesIdle
<1>4. pc'[p] = "idle"
  <2>1. PICK s \in Steps : pc' = [pc EXCEPT ![f] = s]
    BY OwnMove, Zenon
  <2> QED BY <1>2, <1>3, <2>1, Zenon DEF TypeOK
<1>5. /\ hand[p] = NoHits /\ tx[p] = NoHits /\ ~broken[p] /\ (verdict[p] = "failed" => hurt[p])
      /\ \A j, k \in Keys : hand[p][j] # {} /\ hand[p][k] # {} => j = k
  BY <1>3, Zenon DEF PathInv
<1>6. OnPath(p)'
  BY <1>4, Zenon DEF OnPath
<1> QED BY <1>1, <1>4, <1>5, <1>6, Zenon DEF PathInv

\* A fault that a probe meets is its own.
LEMMA OwnFault ==
    ASSUME NEW p \in Probes, NEW x, Fault(p, x) PROVE hurt'[p]
BY Zenon DEF Fault

\* The steps before the flush, and those after the verdict.
LEMMA AroundPath ==
    ASSUME TypeOK, NEW p \in Probes, PathInv(p),
           \/ ProbeBegin(p) \/ ProbeRecord(p) \/ ProbeCleanup(p) \/ ProbeEnd(p)
           \/ \E k \in Keys : SnapshotKey(p, k) \/ Reconcile(p, k)
    PROVE  PathInv(p)'
<1>0. /\ p \in Procs /\ p \in Keys /\ counter \in [Keys -> SUBSET Tokens] /\ pc \in [Procs -> Steps]
      /\ verdict \in [Probes -> {"none", "alive", "failed"}] /\ hurt \in [Probes -> BOOLEAN]
  BY Zenon DEF TypeOK, Procs, Keys
<1>1. UNCHANGED <<hand, tx, broken>> /\ pc[p] \notin {"take", "persist", "verify"}
  BY Zenon DEF ProbeBegin, ProbeRecord, ProbeCleanup, ProbeEnd, SnapshotKey, Reconcile, probeVars
<1>2. /\ hand[p] = NoHits /\ tx[p] = NoHits /\ ~broken[p]
      /\ \A j, k \in Keys : hand[p][j] # {} /\ hand[p][k] # {} => j = k
  BY <1>1, Zenon DEF PathInv
<1>3. pc'[p] \notin {"take", "persist", "verify"}
  BY <1>0, <1>1, Zenon DEF ProbeBegin, ProbeRecord, ProbeCleanup, ProbeEnd, SnapshotKey, Reconcile, Go
<1>4. verdict'[p] = "failed" => hurt'[p]
  <2>1. CASE ProbeBegin(p)
    BY <1>0, <2>1, Zenon DEF ProbeBegin
  <2>2. CASE ~ProbeBegin(p)
    <3>1. UNCHANGED verdict
      BY <2>2, Zenon DEF ProbeRecord, ProbeCleanup, ProbeEnd, SnapshotKey, Reconcile, probeVars
    <3>2. hurt[p] => hurt'[p]
      BY <2>2, OwnFault, Zenon DEF ProbeRecord, ProbeCleanup, ProbeEnd, SnapshotKey, Reconcile, probeVars
    <3> QED BY <3>1, <3>2, Zenon DEF PathInv
  <2> QED BY <2>1, <2>2, Zenon
<1>5. hurt'[p] \/ (pc'[p] = "list" => counter'[p] = {p})
  <2>1. CASE ProbeRecord(p)
    BY <1>0, <2>1, OwnFault, Zenon DEF ProbeRecord
  <2>2. CASE ~ProbeRecord(p)
    <3>1. pc'[p] # "list"
      BY <1>0, <2>2, Zenon DEF ProbeBegin, ProbeCleanup, ProbeEnd, SnapshotKey, Reconcile, Go
    <3> QED BY <3>1, Zenon
  <2> QED BY <2>1, <2>2, Zenon
<1>6. hurt'[p] \/ OnPath(p)'
  BY <1>3, <1>5, Zenon DEF OnPath
<1> QED BY <1>1, <1>2, <1>3, <1>4, <1>6, Zenon DEF PathInv

\* The flush lists the key of the probe, and ends only when it has been taken.
LEMMA ListPath ==
    ASSUME TypeOK, NEW p \in Probes, PathInv(p), ListKeys(p) \/ ListFails(p) \/ EndFlush(p)
    PROVE  PathInv(p)'
<1>0. /\ p \in Procs /\ p \in Keys /\ pc \in [Procs -> Steps] /\ todo \in [Procs -> SUBSET Keys]
      /\ p \notin Flushers /\ hurt \in [Probes -> BOOLEAN]
  BY HitCountersConstants, Zenon DEF TypeOK, Procs, Keys
<1>1. UNCHANGED <<hand, tx, broken, verdict, counter>> /\ pc[p] \in {"list", "take"}
  BY <1>0, Zenon DEF ListKeys, ListFails, EndFlush, MayFlush, probeVars
<1>2. /\ hand[p] = NoHits /\ (verdict[p] = "failed" => hurt[p])
      /\ \A j, k \in Keys : hand[p][j] # {} /\ hand[p][k] # {} => j = k
  BY <1>1, Zenon DEF PathInv
<1>3. hurt[p] => hurt'[p]
  BY OwnFault, Zenon DEF ListKeys, ListFails, EndFlush, probeVars
<1>4. pc'[p] \in {"take", "verify"}
  BY <1>0, Zenon DEF ListKeys, ListFails, EndFlush, Go
<1>5. hand[p][p] = {}
  BY <1>0, <1>2, Zenon DEF NoHits
<1>6. hurt'[p] \/ OnPath(p)'
  <2>1. CASE ListFails(p)
    BY <2>1, OwnFault, Zenon DEF ListFails
  <2>2. CASE hurt[p]
    BY <1>3, <2>2
  <2>3. CASE ListKeys(p) /\ ~hurt[p]
    <3>1. pc[p] = "list" /\ pc'[p] = "take" /\ todo'[p] = Present
      BY <1>0, <2>3, Zenon DEF ListKeys, MayFlush, Go
    <3>2. counter[p] = {p} /\ tx[p] = NoHits /\ ~broken[p]
      BY <2>3, <3>1, Zenon DEF PathInv, OnPath
    <3>3. p \in Present /\ tx[p][p] = {}
      BY <1>0, <3>2, Zenon DEF Present, NoHits
    <3> QED BY <1>1, <1>5, <3>1, <3>2, <3>3, Zenon DEF OnPath, Waiting
  <2>4. CASE EndFlush(p) /\ ~hurt[p]
    <3>1. pc[p] = "take" /\ pc'[p] = "verify" /\ todo[p] = {} /\ todo' = todo
      BY <1>0, <2>4, Zenon DEF EndFlush, Go
    <3>2. Written(p) /\ ~broken[p]
      BY <2>4, <3>1, Zenon DEF PathInv, OnPath, Waiting
    <3> QED BY <1>1, <3>1, <3>2, Zenon DEF OnPath, Written
  <2> QED BY <2>1, <2>2, <2>3, <2>4, Zenon
<1> QED BY <1>1, <1>2, <1>3, <1>4, <1>6, Zenon DEF PathInv
\* A key is taken: that of the probe with its hit in it, or another.
LEMMA TakePath ==
    ASSUME TypeOK, NEW p \in Probes, PathInv(p), NEW k \in Keys, Take(p, k)
    PROVE  PathInv(p)'
<1>0. /\ p \in Procs /\ p \in Keys /\ pc \in [Procs -> Steps] /\ todo \in [Procs -> SUBSET Keys]
      /\ counter \in [Keys -> SUBSET Tokens] /\ hand \in [Procs -> [Keys -> SUBSET Tokens]]
  BY Zenon DEF TypeOK, Procs, Keys
<1>1. /\ pc[p] = "take" /\ k \in todo[p] /\ UNCHANGED <<tx, broken, verdict, hurt>>
      /\ todo'[p] = todo[p] \ {k} /\ counter'[k] = {} /\ \A j \in Keys \ {k} : counter'[j] = counter[j]
      /\ pc'[p] = IF counter[k] = {} THEN "take" ELSE "persist"
  BY <1>0, Zenon DEF Take, Go, probeVars
<1>2. hand'[p] = [hand[p] EXCEPT ![k] = counter[k]] /\ hand[p] = NoHits
  BY <1>0, <1>1, Zenon DEF Take, PathInv
<1>3. \A j \in Keys : hand'[p][j] = IF j = k THEN counter[k] ELSE {}
  BY <1>2, Zenon DEF NoHits
<1>4. pc'[p] # "persist" => hand'[p] = NoHits
  <2>1. pc'[p] # "persist" => counter[k] = {}
    BY <1>1, Zenon
  <2>2. [NoHits EXCEPT ![k] = {}] = NoHits
    BY Zenon DEF NoHits
  <2> QED BY <1>2, <2>1, <2>2, Zenon
<1>5. hurt[p] \/ OnPath(p)'
  <2> SUFFICES ASSUME ~hurt[p] PROVE OnPath(p)'
    BY Zenon
  <2>1. ~broken[p] /\ (Waiting(p) \/ Written(p))
    BY <1>1, Zenon DEF PathInv, OnPath
  <2>2. CASE k = p
    <3>1. Waiting(p)
      BY <1>1, <2>1, <2>2, Zenon DEF Written
    <3>2. pc'[p] = "persist"
      BY <1>1, <2>2, <3>1, Zenon DEF Waiting
    <3>3. InHand(p)'
      BY <1>0, <1>1, <1>3, <2>2, <3>1, Zenon DEF InHand, Waiting
    <3> QED BY <1>1, <2>1, <3>2, <3>3, Zenon DEF OnPath
  <2>3. CASE k # p
    <3>1. counter'[p] = counter[p] /\ hand'[p][p] = {} /\ hand[p][p] = {} /\ (p \in todo'[p] <=> p \in todo[p])
      BY <1>0, <1>1, <1>2, <1>3, <2>3, Zenon DEF NoHits
    <3>2. Waiting(p)' \/ Written(p)'
      BY <1>1, <2>1, <3>1, Zenon DEF Waiting, Written
    <3>3. pc'[p] \in {"take", "persist"}
      BY <1>1, Zenon
    <3> QED BY <1>1, <2>1, <3>2, <3>3, Zenon DEF OnPath
  <2> QED BY <2>2, <2>3
<1>6. verdict[p] = "failed" => hurt[p]
  BY Zenon DEF PathInv
<1>7. pc'[p] \in {"take", "persist"}
  BY <1>1, Zenon
<1> QED BY <1>1, <1>3, <1>4, <1>5, <1>6, <1>7, Zenon DEF PathInv

\* What is in hand is written, in the transaction of the probe.
LEMMA PersistPath ==
    ASSUME TypeOK, NEW p \in Probes, PathInv(p), NEW k \in Keys, Persist(p, k)
    PROVE  PathInv(p)'
<1>0. /\ p \in Procs /\ p \in Keys /\ p \notin Flushers /\ pc \in [Procs -> Steps]
      /\ hand \in [Procs -> [Keys -> SUBSET Tokens]] /\ tx \in [Probes -> [Keys -> SUBSET Tokens]]
  BY HitCountersConstants, Zenon DEF TypeOK, Procs, Keys
<1>1. /\ pc[p] = "persist" /\ hand[p][k] # {} /\ UNCHANGED <<counter, todo, broken, verdict, hurt>>
      /\ hand'[p] = NoHits /\ pc'[p] = "take"
  BY <1>0, Zenon DEF Persist, Go
<1>2. tx'[p] = [tx[p] EXCEPT ![k] = IF k \in Rules \cup {p} THEN @ \cup hand[p][k] ELSE @]
  BY <1>0, Zenon DEF Persist
<1>3. \A j \in Keys : hand'[p][j] = {}
  BY <1>1, Zenon DEF NoHits
<1>4. hurt[p] \/ OnPath(p)'
  <2> SUFFICES ASSUME ~hurt[p] PROVE OnPath(p)'
    BY Zenon
  <2>1. ~broken[p] /\ (Waiting(p) \/ InHand(p) \/ Written(p))
    BY <1>1, Zenon DEF PathInv, OnPath
  <2>2. CASE k = p
    <3>1. InHand(p)
      BY <1>1, <2>1, <2>2, Zenon DEF Waiting, Written
    <3>2. tx'[p][p] = {p}
      BY <1>0, <1>2, <2>2, <3>1, SMT DEF InHand
    <3> QED BY <1>0, <1>1, <1>3, <2>1, <3>1, <3>2, Zenon DEF OnPath, InHand, Written
  <2>3. CASE k # p
    <3>1. ~InHand(p)
      BY <1>0, <1>1, <2>3, Zenon DEF PathInv, InHand
    <3>2. tx'[p][p] = tx[p][p]
      BY <1>0, <1>2, <2>3, Zenon
    <3>3. Waiting(p)' \/ Written(p)'
      BY <1>0, <1>1, <1>3, <2>1, <3>1, <3>2, Zenon DEF Waiting, Written
    <3> QED BY <1>1, <2>1, <3>3, Zenon DEF OnPath
  <2> QED BY <2>2, <2>3
<1>5. verdict[p] = "failed" => hurt[p]
  BY Zenon DEF PathInv
<1> QED BY <1>1, <1>3, <1>4, <1>5, Zenon DEF PathInv

\* A step that fails, and a crash, are faults of the probe; the UPDATE of a transaction
\* that is broken fails as well, but then one has failed before.
LEMMA FaultPath ==
    ASSUME TypeOK, NEW p \in Probes, PathInv(p),
           Crash(p) \/ \E k \in Keys : TakeFails(p, k) \/ PersistFails(p, k)
    PROVE  PathInv(p)'
<1>0. /\ p \in Procs /\ p \in Keys /\ p \notin Flushers /\ pc \in [Procs -> Steps]
      /\ hand \in [Procs -> [Keys -> SUBSET Tokens]] /\ hurt \in [Probes -> BOOLEAN]
  BY HitCountersConstants, Zenon DEF TypeOK, Procs, Keys
<1>1. hurt'[p]
  <2>1. CASE Crash(p) \/ \E k \in Keys : TakeFails(p, k)
    BY <2>1, OwnFault, Zenon DEF Crash, TakeFails
  <2>2. ASSUME NEW k \in Keys, PersistFails(p, k) PROVE hurt'[p]
    <3>1. pc[p] = "persist" /\ ((broken[p] /\ UNCHANGED hurt) \/ Fault(p, "db"))
      BY <1>0, <2>2, Zenon DEF PersistFails
    <3>2. broken[p] => hurt[p]
      BY <3>1, Zenon DEF PathInv, OnPath
    <3> QED BY <3>1, <3>2, OwnFault, Zenon
  <2> QED BY <2>1, <2>2, Zenon
<1>2. CASE Crash(p)
  <2>1. pc'[p] = "idle" /\ hand'[p] = NoHits /\ tx'[p] = NoHits /\ ~broken'[p]
    BY <1>0, <1>2, Zenon DEF Crash
  <2>2. \A j \in Keys : hand'[p][j] = {}
    BY <2>1, Zenon DEF NoHits
  <2> QED BY <1>1, <2>1, <2>2, Zenon DEF PathInv
<1>3. ASSUME NEW k \in Keys, TakeFails(p, k) PROVE PathInv(p)'
  <2>1. pc' = pc /\ hand' = hand /\ pc[p] = "take"
    BY <1>3, Zenon DEF TakeFails
  <2> QED BY <1>1, <2>1, Zenon DEF PathInv
<1>4. ASSUME NEW k \in Keys, PersistFails(p, k) PROVE PathInv(p)'
  <2>1. pc'[p] = "take" /\ hand'[p] = NoHits
    BY <1>0, <1>4, Zenon DEF PersistFails, Go
  <2>2. \A j \in Keys : hand'[p][j] = {}
    BY <2>1, Zenon DEF NoHits
  <2> QED BY <1>1, <2>1, <2>2, Zenon DEF PathInv
<1> QED BY <1>2, <1>3, <1>4, Zenon
\* What has been written is read back.
LEMMA VerifyPath ==
    ASSUME TypeOK, NEW p \in Probes, PathInv(p), ProbeVerify(p)
    PROVE  PathInv(p)'
<1>0. /\ p \in Procs /\ p \in Keys /\ pc \in [Procs -> Steps] /\ hurt \in [Probes -> BOOLEAN]
      /\ tx \in [Probes -> [Keys -> SUBSET Tokens]] /\ broken \in [Probes -> BOOLEAN]
      /\ verdict \in [Probes -> {"none", "alive", "failed"}]
  BY Zenon DEF TypeOK, Procs, Keys
<1>1. /\ pc[p] = "verify" /\ pc'[p] = "cleanup" /\ hand' = hand /\ tx'[p] = NoHits /\ ~broken'[p]
  BY <1>0, Zenon DEF ProbeVerify, Go
<1>2. verdict'[p] = "failed" => hurt'[p]
  <2>1. CASE Fault(p, "redis")
    BY <2>1, OwnFault, Zenon
  <2>2. CASE hurt[p] /\ UNCHANGED hurt
    BY <2>2, Zenon
  <2>3. CASE ~Fault(p, "redis") /\ ~hurt[p]
    <3>1. ~broken[p] /\ Written(p)
      BY <1>1, <2>3, Zenon DEF PathInv, OnPath
    <3>2. verdict'[p] = "alive"
      BY <1>0, <2>3, <3>1, Zenon DEF ProbeVerify, Written
    <3> QED BY <3>2, Zenon
  <2> QED BY <2>1, <2>2, <2>3, Zenon DEF ProbeVerify
<1>3. hand[p] = NoHits /\ \A j, k \in Keys : hand[p][j] # {} /\ hand[p][k] # {} => j = k
  BY <1>1, Zenon DEF PathInv
<1>4. OnPath(p)'
  BY <1>1, Zenon DEF OnPath
<1> QED BY <1>1, <1>2, <1>3, <1>4, Zenon DEF PathInv

\* Every step keeps every probe on its path.
LEMMA StepPath ==
    ASSUME NoOtherFlush, TypeOK, Alone, \A p \in Probes : PathInv(p), [Next]_vars
    PROVE  Alone' /\ \A p \in Probes : PathInv(p)'
<1>1. CASE UNCHANGED vars
  <2>0. UNCHANGED <<counter, pc, todo, hand, tx, broken, verdict, hurt>>
    BY <1>1, Zenon DEF vars, flushVars, probeVars
  <2>1. Alone'
    BY <2>0, Zenon DEF Alone
  <2>2. ASSUME NEW p \in Probes PROVE PathInv(p)'
    <3>1. OnPath(p) <=> OnPath(p)'
      BY <2>0 DEF OnPath, Waiting, InHand, Written
    <3> QED BY <2>0, <3>1, Zenon DEF PathInv
  <2> QED BY <2>1, <2>2, Zenon
<1>2. ASSUME NEW k \in Rules, NEW h \in Hits, Hit(k, h) PROVE Alone' /\ \A p \in Probes : PathInv(p)'
  <2>0. UNCHANGED <<pc, todo, hand, tx, broken, verdict, hurt>> /\ counter' = [counter EXCEPT ![k] = @ \cup {h}]
    BY <1>2, Zenon DEF Hit, flushVars, probeVars
  <2>1. Alone'
    BY <2>0, Zenon DEF Alone
  <2>2. ASSUME NEW p \in Probes PROVE PathInv(p)'
    <3>1. counter'[p] = counter[p]
      BY <2>0, HitCountersConstants, Zenon DEF TypeOK, Keys
    <3>2. OnPath(p) <=> OnPath(p)'
      BY <2>0, <3>1 DEF OnPath, Waiting, InHand, Written
    <3> QED BY <2>0, <3>2, Zenon DEF PathInv
  <2> QED BY <2>1, <2>2, Zenon
<1>5. ASSUME NEW k \in Rules, CounterExpires(k) PROVE Alone' /\ \A p \in Probes : PathInv(p)'
  <2>0. UNCHANGED <<pc, todo, hand, tx, broken, verdict, hurt>> /\ counter' = [counter EXCEPT ![k] = {}]
    BY <1>5, Zenon DEF CounterExpires, flushVars, probeVars
  <2>1. Alone'
    BY <2>0, Zenon DEF Alone
  <2>2. ASSUME NEW p \in Probes PROVE PathInv(p)'
    <3>1. counter'[p] = counter[p]
      BY <2>0, HitCountersConstants, Zenon DEF TypeOK, Keys
    <3>2. OnPath(p) <=> OnPath(p)'
      BY <2>0, <3>1 DEF OnPath, Waiting, InHand, Written
    <3> QED BY <2>0, <3>2, Zenon DEF PathInv
  <2> QED BY <2>1, <2>2, Zenon
<1>3. ASSUME NEW f \in Procs, FlushStep(f) \/ Crash(f) \/ (f \in Probes /\ (ProbeBegin(f) \/ ProbeStep(f)))
      PROVE  Alone' /\ \A p \in Probes : PathInv(p)'
  <2>1. Alone'
    BY <1>3, StepAlone, Zenon
  <2>2. ASSUME NEW p \in Probes, p # f PROVE PathInv(p)'
    BY <1>3, <2>2, OthersPath, Zenon
  <2>3. ASSUME f \in Probes PROVE PathInv(f)'
    <3>0. PathInv(f)
      BY <2>3, Zenon
    <3>1. CASE FlushStep(f)
      BY <2>3, <3>0, <3>1, ListPath, TakePath, PersistPath, FaultPath, Zenon DEF FlushStep
    <3>2. CASE Crash(f)
      BY <2>3, <3>0, <3>2, FaultPath, Zenon
    <3>3. CASE ProbeBegin(f) \/ ProbeStep(f)
      BY <2>3, <3>0, <3>3, AroundPath, VerifyPath, Zenon DEF ProbeStep
    <3> QED BY <1>3, <3>1, <3>2, <3>3, Zenon
  <2> QED BY <2>1, <2>2, <2>3, Zenon
<1>4. Probes \subseteq Procs
  BY Zenon DEF Procs
<1> QED BY <1>1, <1>2, <1>3, <1>4, <1>5, Zenon DEF Next

\* probe_flush_path cries no wolf: whatever is hit while it runs, whatever earlier
\* flushes and probes left behind when they failed or crashed, a probe that reports a
\* dead flush path met an error itself.
THEOREM AlarmsAreReal ==
    ASSUME NoOtherFlush
    PROVE  Spec => []NoFalseAlarm
<1>1. Init => PathsInv
  BY InitPath, Zenon DEF PathsInv
<1>2. TypeOK /\ PathsInv /\ [Next]_vars => PathsInv'
  BY StepPath, Zenon DEF PathsInv
<1>3. PathsInv => NoFalseAlarm
  BY Zenon DEF PathsInv, PathInv, NoFalseAlarm
<1> QED BY <1>1, <1>2, <1>3, TypeCorrect, PTL DEF Spec
=============================================================================
