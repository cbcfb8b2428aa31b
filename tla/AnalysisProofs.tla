--------------------------- MODULE AnalysisProofs ---------------------------
(***************************************************************************)
(* Theorems about the two ends of the analysis of traffic, for any number  *)
(* of rows, lines, detectors and runs: the automatic rules that it writes  *)
(* (AutoRule), and the log that it reads (AccessLog).                      *)
(***************************************************************************)
EXTENDS AutoRule, AccessLog, TLAPS

(* The automatic rules *)

\* The row a detector writes is a row.
LEMMA WrittenType ==
    ASSUME NEW q \in Rows, NEW seen \in Rows, NEW d \in Detectors
    PROVE  Written(q, seen, d) \in Rows
<1>1. Enforcing(d) \in BOOLEAN
  BY DEF Enforcing
<1>2. (IF Reviewed(seen) THEN q.active ELSE Enforcing(d)) \in BOOLEAN
  BY <1>1 DEF Rows
<1>3. (IF Reviewed(seen) THEN q.review
       ELSE IF Enforcing(d) THEN "NOT_APPLICABLE" ELSE "PENDING") \in Reviews
  BY DEF Rows, Reviews
<1> QED BY <1>2, <1>3, Zenon DEF Written, Rows, Ages

\* A row that is not there is a row too.
LEMMA NoRowType == ASSUME NEW s \in {"unborn", "gone"} PROVE NoRow(s) \in Rows
BY DEF NoRow, Rows, Reviews, Ages

\* Writing one row leaves the table well typed.
LEMMA WriteRowType ==
    ASSUME row \in [Ids -> Rows], NEW i \in Ids, NEW seen \in Rows, NEW d \in Detectors,
           WriteRow(i, seen, d)
    PROVE  row' \in [Ids -> Rows]
<1>1. Written(row[i], seen, d) \in Rows
  BY WrittenType
<1>2. row' = [row EXCEPT ![i] = Written(row[i], seen, d)]
  BY DEF WriteRow
<1> QED BY <1>1, <1>2

\* One step of any action keeps every variable's type.
LEMMA StepType == TypeOK /\ [Next]_vars => TypeOK'
<1> SUFFICES ASSUME TypeOK, [Next]_vars PROVE TypeOK'
  OBVIOUS
<1>0. /\ \A i \in Ids : row[i] \in Rows
      /\ NoRow("unborn") \in Rows /\ NoRow("gone") \in Rows
  BY NoRowType DEF TypeOK
<1>1. CASE UNCHANGED vars
  BY <1>1 DEF TypeOK, vars
<1>2. ASSUME NEW r \in Runners, RunnerStep(r) PROVE TypeOK'
  <2>1. ASSUME NEW d \in Detectors, Detect(r, d) PROVE TypeOK'
    <3>1. row' \in [Ids -> Rows]
      BY <1>0, <2>1, WriteRowType DEF Detect, TypeOK
    <3> QED BY <2>1, <3>1 DEF Detect, Go, TypeOK, RunSteps
  <2>2. CASE GetOrCreate(r) \/ Reget(r) \/ Retry(r)
    <3>1. row' \in [Ids -> Rows]
      <4>1. det[r] \in Detectors
        BY DEF TypeOK
      <4> QED BY <1>0, <2>2, <4>1, WriteRowType DEF GetOrCreate, Reget, Retry, TypeOK
    <3> QED BY <2>2, <3>1 DEF GetOrCreate, Reget, Retry, Go, TypeOK, RunSteps
  <2>3. CASE Insert(r)
    <3>1. \A i \in Ids : [row[i] EXCEPT !.state = "stored"] \in Rows
      BY <1>0 DEF Rows
    <3>2. \A i \in Ids : Written([row[i] EXCEPT !.state = "stored"], NoRow("unborn"), det[r]) \in Rows
      BY <1>0, <3>1, WrittenType, Zenon DEF TypeOK
    <3>3. row' \in [Ids -> Rows]
      <4>1. CASE UNCHANGED row
        BY <4>1 DEF TypeOK
      <4>2. ASSUME NEW i \in Ids,
                   row' = [row EXCEPT ![i] = Written([row[i] EXCEPT !.state = "stored"],
                                                     NoRow("unborn"), det[r])]
            PROVE  row' \in [Ids -> Rows]
        BY <3>2, <4>2 DEF TypeOK
      <4> QED BY <2>3, <4>1, <4>2, Zenon DEF Insert
    <3> QED BY <2>3, <3>3 DEF Insert, Go, TypeOK, RunSteps
  <2>4. CASE Abort(r)
    BY <2>4 DEF Abort, Go, TypeOK, RunSteps
  <2> QED BY <1>2, <2>1, <2>2, <2>3, <2>4 DEF RunnerStep
<1>3. CASE OperatorStep
  <2>1. PICK i \in Ids : \/ Confirm(i) \/ Reject(i) \/ ActivateRules(i)
                         \/ DeactivateRules(i) \/ ExtendExpiry(i) \/ DeleteRule(i)
    BY <1>3 DEF OperatorStep
  <2>2. row' \in [Ids -> Rows]
    <3> DEFINE q == row[i]
    <3>0. /\ [q EXCEPT !.source = "ADMIN", !.active = TRUE, !.review = "CONFIRMED",
                       !.expires = "never"] \in Rows
          /\ [q EXCEPT !.active = FALSE, !.review = "REJECTED"] \in Rows
          /\ [q EXCEPT !.active = TRUE] \in Rows /\ [q EXCEPT !.active = FALSE] \in Rows
      BY <1>0, ZenonT(60) DEF Rows, Reviews, Ages
    <3>1. CASE Confirm(i) \/ Reject(i)
      BY <3>0, <3>1, Zenon DEF Confirm, Reject, TypeOK
    <3>2. CASE ActivateRules(i) \/ DeactivateRules(i)
      BY <3>0, <3>2, Zenon DEF ActivateRules, DeactivateRules, TypeOK
    <3>3. CASE ExtendExpiry(i)
      BY <1>0, <3>3 DEF ExtendExpiry, TypeOK, Rows, Ages
    <3>4. CASE DeleteRule(i)
      BY <1>0, <3>4 DEF DeleteRule, TypeOK
    <3> QED BY <2>1, <3>1, <3>2, <3>3, <3>4
  <2> QED BY <2>1, <2>2 DEF Confirm, Reject, ActivateRules, DeactivateRules, ExtendExpiry,
                            DeleteRule, TypeOK
<1>4. CASE ExpireActive
  <2>1. \A i \in Ids : [row[i] EXCEPT !.active = FALSE] \in Rows
    BY <1>0, Zenon DEF Rows
  <2> QED BY <1>0, <1>4, <2>1 DEF ExpireActive, TypeOK
<1>5. CASE ExpireUnreviewed
  <2>1. \A i \in Ids : [row[i] EXCEPT !.review = "EXPIRED_UNREVIEWED"] \in Rows
    BY <1>0 DEF Rows, Reviews
  <2> QED BY <1>0, <1>5, <2>1 DEF ExpireUnreviewed, TypeOK
<1>6. CASE PruneSelect
  BY <1>6 DEF PruneSelect, TypeOK
<1>7. CASE PruneDelete
  BY <1>0, <1>7 DEF PruneDelete, TypeOK
<1>8. ASSUME NEW i \in Ids, Lapse(i) PROVE TypeOK'
  BY <1>0, <1>8, SMTT(60) DEF Lapse, TypeOK, Rows, Ages
<1> QED BY <1>1, <1>2, <1>3, <1>4, <1>5, <1>6, <1>7, <1>8 DEF Next

\* The initial state is well typed.
LEMMA InitType == Init => TypeOK
BY NoRowType DEF Init, TypeOK, RunSteps

\* Every variable keeps its type.
THEOREM TypeCorrect == Spec => []TypeOK
BY InitType, StepType, PTL DEF Spec

----------------------------------------------------------------------------
(* Approve before enforce *)

\* Every detector is quarantined.
AllQuarantined == \A d \in Detectors : ~Enforcing(d)

\* What the steps keep: an operator stands behind every active rule.
Sanctioned == \A i \in Ids : row[i].active => i \in approved

\* A quarantined detector switches no rule on.
LEMMA WrittenInactive ==
    ASSUME AllQuarantined, NEW q \in Rows, NEW seen \in Rows, NEW d \in Detectors
    PROVE  Written(q, seen, d).active => q.active
BY DEF Written, AllQuarantined, Rows

\* A detector's write leaves an operator behind every active rule.
LEMMA WriteRowSanctioned ==
    ASSUME AllQuarantined, row \in [Ids -> Rows], Sanctioned, approved' = approved,
           NEW i \in Ids, NEW seen \in Rows, NEW d \in Detectors, WriteRow(i, seen, d)
    PROVE  Sanctioned'
<1>1. Written(row[i], seen, d).active => row[i].active
  BY WrittenInactive
<1>2. row' = [row EXCEPT ![i] = Written(row[i], seen, d)]
  BY DEF WriteRow
<1> QED BY <1>1, <1>2 DEF Sanctioned

\* One step of any action keeps an operator behind every active rule.
LEMMA StepSanctioned ==
    ASSUME AllQuarantined, TypeOK, Sanctioned, [Next]_vars
    PROVE  Sanctioned'
<1>0. /\ row \in [Ids -> Rows]
      /\ \A i \in Ids : row[i] \in Rows
      /\ \A r \in Runners : det[r] \in Detectors
      /\ NoRow("unborn") \in Rows
  BY NoRowType DEF TypeOK
<1>1. CASE UNCHANGED vars
  BY <1>1 DEF Sanctioned, vars
<1>2. ASSUME NEW r \in Runners, RunnerStep(r) PROVE Sanctioned'
  <2>1. ASSUME NEW d \in Detectors, Detect(r, d) PROVE Sanctioned'
    <3>1. CASE UNCHANGED row
      BY <2>1, <3>1 DEF Detect, Sanctioned
    <3> QED BY <1>0, <2>1, <3>1, WriteRowSanctioned DEF Detect
  <2>2. CASE GetOrCreate(r) \/ Reget(r) \/ Retry(r)
    <3>1. CASE UNCHANGED row
      BY <2>2, <3>1 DEF GetOrCreate, Reget, Retry, Sanctioned
    <3> QED BY <1>0, <2>2, <3>1, WriteRowSanctioned DEF GetOrCreate, Reget, Retry
  <2>3. CASE Insert(r)
    <3>1. CASE UNCHANGED row
      BY <2>3, <3>1 DEF Insert, Sanctioned
    <3>2. ASSUME NEW i \in Ids,
                 row' = [row EXCEPT ![i] = Written([row[i] EXCEPT !.state = "stored"],
                                                   NoRow("unborn"), det[r])]
          PROVE  Sanctioned'
      <4>1. [row[i] EXCEPT !.state = "stored"] \in Rows
        BY <1>0 DEF Rows
      <4>2. Written([row[i] EXCEPT !.state = "stored"], NoRow("unborn"), det[r]).active
               => [row[i] EXCEPT !.state = "stored"].active
        BY <1>0, <4>1, WrittenInactive, Zenon
      <4>3. [row[i] EXCEPT !.state = "stored"].active = row[i].active
        BY <1>0 DEF Rows
      <4> QED BY <1>0, <2>3, <3>2, <4>2, <4>3 DEF Insert, Sanctioned
    <3> QED BY <2>3, <3>1, <3>2, Zenon DEF Insert
  <2>4. CASE Abort(r)
    BY <2>4 DEF Abort, Sanctioned
  <2> QED BY <1>2, <2>1, <2>2, <2>3, <2>4 DEF RunnerStep
<1>3. ASSUME NEW i \in Ids,
             \/ Confirm(i) \/ Reject(i) \/ ActivateRules(i)
             \/ DeactivateRules(i) \/ ExtendExpiry(i) \/ DeleteRule(i)
      PROVE  Sanctioned'
  <2>1. CASE Confirm(i) \/ ActivateRules(i)
    BY <1>0, <2>1 DEF Confirm, ActivateRules, Sanctioned, Rows
  <2>2. CASE Reject(i) \/ DeactivateRules(i)
    BY <1>0, <2>2 DEF Reject, DeactivateRules, Sanctioned, Rows
  <2>3. CASE ExtendExpiry(i)
    BY <1>0, <2>3 DEF ExtendExpiry, Sanctioned, Rows
  <2>4. CASE DeleteRule(i)
    BY <1>0, <2>4 DEF DeleteRule, Sanctioned, NoRow
  <2> QED BY <1>3, <2>1, <2>2, <2>3, <2>4
<1>4. CASE ExpireActive
  BY <1>0, <1>4 DEF ExpireActive, Sanctioned, Rows
<1>5. CASE ExpireUnreviewed
  BY <1>0, <1>5 DEF ExpireUnreviewed, Sanctioned, Rows
<1>6. CASE PruneSelect
  BY <1>6 DEF PruneSelect, Sanctioned
<1>7. CASE PruneDelete
  BY <1>0, <1>7 DEF PruneDelete, Sanctioned, NoRow
<1>8. ASSUME NEW i \in Ids, Lapse(i) PROVE Sanctioned'
  BY <1>0, <1>8 DEF Lapse, Sanctioned, Rows
<1> QED BY <1>1, <1>2, <1>3, <1>4, <1>5, <1>6, <1>7, <1>8 DEF Next, OperatorStep

\* Approve before enforce, for any number of detector runs that write at the
\* same time: while every detector is quarantined, a rule one of them had a part
\* in enforces only after an operator switched it on.
THEOREM QuarantineAlwaysHolds ==
    ASSUME AllQuarantined
    PROVE  Spec => []QuarantineHolds
<1>1. Init => Sanctioned
  BY DEF Init, Sanctioned, NoRow
<1>2. TypeOK /\ Sanctioned /\ [Next]_vars => Sanctioned'
  BY StepSanctioned
<1>3. Sanctioned => QuarantineHolds
  BY DEF Sanctioned, QuarantineHolds
<1> QED BY <1>1, <1>2, <1>3, TypeCorrect, PTL DEF Spec

----------------------------------------------------------------------------
(* One detector run at a time *)

OneRunner == \A r, s \in Runners : r = s

\* What the steps of a lone runner keep: a row that is not there carries no
\* decision and no detector, and between the read that found no row and the
\* INSERT nobody else has created one.
Alone ==
    /\ \A i \in Ids : ~Stored(i) => row[i].review = "NOT_APPLICABLE" /\ row[i].detectors = {}
    /\ \A r \in Runners : pc[r] # "idle" => pc[r] \in {"missed", "insert"} /\ NoAutoRow

\* What one row may turn into in a step nobody but an operator may widen.
Kept(q, p) == Respected(q, p) /\ Remembered(q, p)

\* A lone runner starts alone.
LEMMA InitAlone == Init => Alone
BY DEF Init, Alone, NoRow, Stored

\* Every step of a system with one runner keeps Alone, and keeps what must be
\* kept of every row unless it is an operator's.
LEMMA StepAlone ==
    ASSUME OneRunner, TypeOK, Alone, [Next]_vars
    PROVE  /\ Alone'
           /\ \A i \in Ids : Remembered(row[i], row'[i])
           /\ OperatorStep \/ \A i \in Ids : Kept(row[i], row'[i])
<1> DEFINE Goal == /\ Alone'
                   /\ \A i \in Ids : Kept(row[i], row'[i])
<1>0. /\ row \in [Ids -> Rows] /\ pc \in [Runners -> RunSteps]
      /\ \A i \in Ids : row[i] \in Rows
      /\ \A r \in Runners : det[r] \in Detectors
  BY DEF TypeOK
<1>k. (\A i \in Ids : Kept(row[i], row'[i])) =>
          \A i \in Ids : Remembered(row[i], row'[i])
  BY DEF Kept, Respected, Remembered
<1>1. CASE UNCHANGED vars
  BY <1>1, <1>k DEF Alone, Kept, Respected, Remembered, vars, Stored, NoAutoRow, AutoRow
<1>2. ASSUME NEW r \in Runners, RunnerStep(r) PROVE Goal
  <2>1. ASSUME NEW d \in Detectors, Detect(r, d) PROVE Goal
    <3>1. CASE NoAutoRow /\ Go(r, "missed") /\ UNCHANGED row
      <4>1. NoAutoRow'
        BY <3>1 DEF NoAutoRow, AutoRow, Stored
      <4> QED BY <1>0, <2>1, <3>1, <4>1 DEF OneRunner, Go, Alone, Kept, Respected, Remembered, Stored
    <3>2. ASSUME NEW i \in Ids, AutoRow(i), WriteRow(i, row[i], d), UNCHANGED pc PROVE Goal
      <4>1. row' = [row EXCEPT ![i] = Written(row[i], row[i], d)]
        BY <3>2 DEF WriteRow
      <4>2. /\ Written(row[i], row[i], d).state = row[i].state
            /\ Kept(row[i], Written(row[i], row[i], d))
        BY <1>0 DEF Written, Kept, Respected, Remembered, Rows
      <4>3. \A j \in Ids : Kept(row[j], row'[j])
        BY <1>0, <4>1, <4>2 DEF Kept, Respected, Remembered
      <4>4. \A s \in Runners : pc[s] = "idle"
        BY <3>2 DEF Alone, NoAutoRow
      <4>5. \A j \in Ids : ~Stored(j)' => row'[j] = row[j] /\ ~Stored(j)
        BY <1>0, <3>2, <4>1, <4>2 DEF Stored, AutoRow
      <4> QED BY <3>2, <4>3, <4>4, <4>5 DEF Alone
    <3> QED BY <2>1, <3>1, <3>2 DEF Detect
  <2>2. CASE GetOrCreate(r)
    <3>1. NoAutoRow /\ Go(r, "insert") /\ UNCHANGED row
      BY <2>2 DEF GetOrCreate, Alone, NoAutoRow
    <3>2. NoAutoRow'
      BY <3>1 DEF NoAutoRow, AutoRow, Stored
    <3> QED BY <1>0, <3>1, <3>2 DEF OneRunner, Go, Alone, Kept, Respected, Remembered, Stored
  <2>3. CASE Insert(r)
    <3>1. PICK i \in Ids :
             /\ row[i].state = "unborn"
             /\ row' = [row EXCEPT ![i] = Written([row[i] EXCEPT !.state = "stored"],
                                                  NoRow("unborn"), det[r])]
             /\ Go(r, "idle")
      BY <2>3 DEF Insert, Alone
    <3>2. ~Reviewed(row[i]) /\ row[i].detectors = {}
      BY <3>1 DEF Alone, Stored, Reviewed
    <3>3. row'[i].state = "stored"
      BY <1>0, <3>1 DEF Written, Rows
    <3>4. \A j \in Ids : Kept(row[j], row'[j])
      BY <1>0, <3>1, <3>2 DEF Kept, Respected, Remembered
    <3>5. \A s \in Runners : pc'[s] = "idle"
      BY <1>0, <3>1 DEF Go, OneRunner
    <3>6. \A j \in Ids : ~Stored(j)' => row'[j] = row[j] /\ ~Stored(j)
      BY <1>0, <3>1, <3>3 DEF Stored
    <3> QED BY <3>4, <3>5, <3>6 DEF Alone
  <2>4. CASE Abort(r)
    BY <1>0, <2>4 DEF Abort, Go, OneRunner, Alone, Kept, Respected, Remembered, Stored, NoAutoRow, AutoRow
  <2>5. ~Reget(r) /\ ~Retry(r)
    BY DEF Reget, Retry, Alone
  <2> QED BY <1>2, <2>1, <2>2, <2>3, <2>4, <2>5 DEF RunnerStep
<1>3. ASSUME NEW i \in Ids,
             \/ Confirm(i) \/ Reject(i) \/ ActivateRules(i)
             \/ DeactivateRules(i) \/ ExtendExpiry(i) \/ DeleteRule(i)
      PROVE  /\ Alone'
             /\ \A j \in Ids : Remembered(row[j], row'[j])
  <2>0. pc' = pc
    BY <1>3 DEF Confirm, Reject, ActivateRules, DeactivateRules, ExtendExpiry, DeleteRule
  <2>1. ASSUME row'[i].state = row[i].state, row'[i].detectors = row[i].detectors,
               row'[i].source \in {row[i].source, "ADMIN"}, Stored(i),
               \A j \in Ids : j # i => row'[j] = row[j]
        PROVE  /\ Alone'
               /\ \A j \in Ids : Remembered(row[j], row'[j])
    <3>1. NoAutoRow => NoAutoRow'
      BY <2>1 DEF NoAutoRow, AutoRow, Stored
    <3> QED BY <2>0, <2>1, <3>1 DEF Alone, Stored, Remembered
  <2>2. CASE Confirm(i) \/ Reject(i) \/ ActivateRules(i) \/ DeactivateRules(i) \/ ExtendExpiry(i)
    <3>1. /\ row'[i].state = row[i].state /\ row'[i].detectors = row[i].detectors
          /\ row'[i].source \in {row[i].source, "ADMIN"} /\ Stored(i)
          /\ \A j \in Ids : j # i => row'[j] = row[j]
      <4>1. CASE Confirm(i)
        BY <1>0, <4>1 DEF Confirm, Rows
      <4>2. CASE Reject(i)
        BY <1>0, <4>2 DEF Reject, Rows
      <4>3. CASE ActivateRules(i) \/ DeactivateRules(i)
        BY <1>0, <4>3 DEF ActivateRules, DeactivateRules, Rows
      <4>4. CASE ExtendExpiry(i)
        BY <1>0, <4>4 DEF ExtendExpiry, Rows
      <4> QED BY <2>2, <4>1, <4>2, <4>3, <4>4
    <3> QED BY <2>1, <3>1
  <2>3. CASE DeleteRule(i)
    <3>1. /\ row'[i] = NoRow("gone")
          /\ \A j \in Ids : j # i => row'[j] = row[j]
      BY <1>0, <2>3 DEF DeleteRule
    <3>2. NoAutoRow => NoAutoRow'
      BY <3>1 DEF NoAutoRow, AutoRow, Stored, NoRow
    <3> QED BY <2>0, <3>1, <3>2 DEF Alone, Stored, NoRow, Remembered
  <2> QED BY <1>3, <2>2, <2>3
<1>4. CASE ExpireActive
  <2>1. \A i \in Ids : /\ row'[i].state = row[i].state /\ row'[i].source = row[i].source
                       /\ row'[i].detectors = row[i].detectors /\ row'[i].review = row[i].review
                       /\ row'[i].active # row[i].active => ~row'[i].active /\ Overdue(row[i])
    BY <1>0, <1>4, Zenon DEF ExpireActive, Rows
  <2>2. NoAutoRow => NoAutoRow'
    BY <2>1 DEF NoAutoRow, AutoRow, Stored
  <2> QED BY <1>4, <2>1, <2>2, ZenonT(60) DEF ExpireActive, Alone, Kept, Respected, Remembered, Stored
<1>5. CASE ExpireUnreviewed
  <2>1. \A i \in Ids : /\ row'[i].state = row[i].state /\ row'[i].source = row[i].source
                       /\ row'[i].detectors = row[i].detectors /\ row'[i].active = row[i].active
                       /\ Reviewed(row[i]) => row'[i].review = row[i].review
                       /\ row'[i].state # "stored" => row'[i].review = row[i].review
    BY <1>0, <1>5 DEF ExpireUnreviewed, Rows, Reviewed, Overdue
  <2>2. NoAutoRow => NoAutoRow'
    BY <2>1 DEF NoAutoRow, AutoRow, Stored
  <2> QED BY <1>5, <2>1, <2>2 DEF ExpireUnreviewed, Alone, Kept, Respected, Remembered, Stored
<1>6. CASE PruneSelect
  BY <1>6 DEF PruneSelect, Alone, Kept, Respected, Remembered, Stored, NoAutoRow, AutoRow
<1>7. CASE PruneDelete
  <2>1. \A i \in Ids : row'[i] = row[i] \/ row'[i] = NoRow("gone")
    BY <1>7 DEF PruneDelete
  <2>2. NoAutoRow => NoAutoRow'
    BY <2>1 DEF NoAutoRow, AutoRow, Stored, NoRow
  <2> QED BY <1>7, <2>1, <2>2, Zenon DEF PruneDelete, Alone, Kept, Respected, Remembered, Stored, NoRow
<1>8. ASSUME NEW i \in Ids, Lapse(i) PROVE Goal
  <2>1. \A j \in Ids : /\ row'[j].state = row[j].state /\ row'[j].source = row[j].source
                       /\ row'[j].detectors = row[j].detectors /\ row'[j].review = row[j].review
                       /\ row'[j].active = row[j].active
    BY <1>0, <1>8 DEF Lapse, Rows
  <2>2. NoAutoRow => NoAutoRow'
    BY <2>1 DEF NoAutoRow, AutoRow, Stored
  <2> QED BY <1>8, <2>1, <2>2 DEF Lapse, Alone, Kept, Respected, Remembered, Stored
<1> QED
  <2>1. CASE OperatorStep
    BY <1>3, <2>1 DEF OperatorStep
  <2>2. CASE ~OperatorStep
    BY <1>1, <1>2, <1>4, <1>5, <1>6, <1>7, <1>8, <1>k, <2>2 DEF Next
  <2> QED BY <2>1, <2>2

\* A decision stands while detector runs and escalations do not overlap: no run
\* and no scheduled task undoes a confirmation or a rejection.  (Run AutoRuleRace
\* shows that the condition is needed, OverlapsOverwriteOnce what holds without it.)
THEOREM DecisionsAlwaysStand ==
    ASSUME OneRunner
    PROVE  Spec => DecisionsStand
<1>1. TypeOK /\ Alone /\ [Next]_vars => Alone'
  BY StepAlone
<1>2. TypeOK /\ Alone /\ [Next]_vars =>
         [OperatorStep \/ \A i \in Ids : Respected(row[i], row'[i])]_vars
  BY StepAlone DEF Kept
<1> QED BY <1>1, <1>2, InitAlone, TypeCorrect, PTL DEF Spec, DecisionsStand

----------------------------------------------------------------------------
(* Any number of detector runs at a time *)

\* A run that is under way may end; none starts that does not find the automatic row.
LEMMA NoNewRun ==
    ASSUME TypeOK, [Next]_vars, ~NoAutoRow
    PROVE  InFlight' \subseteq InFlight
<1>0. pc \in [Runners -> RunSteps]
  BY DEF TypeOK
<1>1. ASSUME NEW r \in Runners, RunnerStep(r) PROVE InFlight' \subseteq InFlight
  <2>1. ASSUME NEW d \in Detectors, Detect(r, d) PROVE pc' = pc
    BY <2>1 DEF Detect
  <2>2. CASE GetOrCreate(r) \/ Insert(r) \/ Reget(r) \/ Retry(r) \/ Abort(r)
    <3>1. pc[r] # "idle" /\ \A s \in Runners : s # r => pc'[s] = pc[s]
      BY <1>0, <2>2 DEF GetOrCreate, Insert, Reget, Retry, Abort, Go
    <3> QED BY <3>1 DEF InFlight
  <2> QED BY <1>1, <2>1, <2>2 DEF RunnerStep, InFlight
<1>2. CASE \A r \in Runners : ~RunnerStep(r)
  <2>1. pc' = pc
    BY <1>2 DEF Next, vars, OperatorStep, Confirm, Reject, ActivateRules, DeactivateRules, ExtendExpiry,
                DeleteRule, ExpireActive, ExpireUnreviewed, PruneSelect, PruneDelete, Lapse
  <2> QED BY <2>1 DEF InFlight
<1> QED BY <1>1, <1>2

\* A write whose defaults came from the row itself keeps its review and its detectors.
LEMMA WrittenKeeps ==
    ASSUME NEW q \in Rows, NEW d \in Detectors
    PROVE  Kept(q, Written(q, q, d))
BY DEF Written, Kept, Respected, Remembered, Rows

\* A run writes one automatic row.  It derived the defaults from that row, or the
\* write is its last step.
LEMMA RunnerKeeps ==
    ASSUME TypeOK, NEW r \in Runners, RunnerStep(r), NEW i \in Ids, Stored(i)
    PROVE  Kept(row[i], row'[i]) \/ (AutoRow(i) /\ InFlight' # InFlight)
<1>0. /\ row \in [Ids -> Rows] /\ pc \in [Runners -> RunSteps] /\ row[i] \in Rows
      /\ \A j \in Ids : row[j] \in Rows
      /\ det[r] \in Detectors
  BY DEF TypeOK
<1>1. ASSUME row'[i] = row[i] PROVE Kept(row[i], row'[i])
  BY <1>1 DEF Kept, Respected, Remembered
<1>2. ASSUME NEW j \in Ids, NEW d \in Detectors, WriteRow(j, row[j], d)
      PROVE  Kept(row[i], row'[i])
  <2>1. row' = [row EXCEPT ![j] = Written(row[j], row[j], d)]
    BY <1>2 DEF WriteRow
  <2>2. CASE i = j
    BY <1>0, <2>1, <2>2, WrittenKeeps
  <2>3. CASE i # j
    BY <1>0, <1>1, <2>1, <2>3
  <2> QED BY <2>2, <2>3
<1>3. ASSUME NEW j \in Ids, AutoRow(j), WriteRow(j, NoRow("unborn"), det[r]), Go(r, "idle"),
             pc[r] # "idle"
      PROVE  Kept(row[i], row'[i]) \/ (AutoRow(i) /\ InFlight' # InFlight)
  <2>1. r \in InFlight /\ r \notin InFlight'
    BY <1>0, <1>3 DEF Go, InFlight
  <2>2. i # j => row'[i] = row[i]
    BY <1>0, <1>3 DEF WriteRow
  <2> QED BY <1>1, <1>3, <2>1, <2>2
<1>4. ASSUME NEW d \in Detectors, Detect(r, d) PROVE Kept(row[i], row'[i])
  BY <1>1, <1>2, <1>4 DEF Detect
<1>5. CASE GetOrCreate(r) \/ Reget(r)
  BY <1>1, <1>3, <1>5 DEF GetOrCreate, Reget
<1>6. CASE Insert(r)
  <2>1. row'[i] = row[i]
    BY <1>0, <1>6 DEF Insert, Stored
  <2> QED BY <1>1, <2>1
<1>7. CASE Retry(r) \/ Abort(r)
  BY <1>0, <1>1, <1>2, <1>7 DEF Retry, Abort
<1> QED BY <1>4, <1>5, <1>6, <1>7 DEF RunnerStep

\* Operators, scheduled tasks and the clock forget no detector, and only an operator
\* goes against a review.
LEMMA OthersKeep ==
    ASSUME TypeOK, [Next]_vars, \A r \in Runners : ~RunnerStep(r), NEW i \in Ids, Stored(i)
    PROVE  (OperatorStep \/ Respected(row[i], row'[i])) /\ Remembered(row[i], row'[i])
<1>0. row \in [Ids -> Rows] /\ row[i] \in Rows
  BY DEF TypeOK
<1>1. CASE UNCHANGED vars
  BY <1>1 DEF vars, Respected, Remembered
<1>2. CASE OperatorStep
  <2>1. PICK j \in Ids : \/ Confirm(j) \/ Reject(j) \/ ActivateRules(j)
                         \/ DeactivateRules(j) \/ ExtendExpiry(j) \/ DeleteRule(j)
    BY <1>2 DEF OperatorStep
  <2>2. row'[i].detectors = row[i].detectors \/ row'[i] = NoRow("gone")
    <3>1. CASE Confirm(j)
      BY <1>0, <3>1 DEF Confirm, Rows
    <3>2. CASE Reject(j)
      BY <1>0, <3>2 DEF Reject, Rows
    <3>3. CASE ActivateRules(j) \/ DeactivateRules(j)
      BY <1>0, <3>3 DEF ActivateRules, DeactivateRules, Rows
    <3>4. CASE ExtendExpiry(j)
      BY <1>0, <3>4 DEF ExtendExpiry, Rows
    <3>5. CASE DeleteRule(j)
      BY <1>0, <3>5 DEF DeleteRule
    <3> QED BY <2>1, <3>1, <3>2, <3>3, <3>4, <3>5
  <2>3. NoRow("gone").state # "stored"
    BY DEF NoRow
  <2> QED BY <1>2, <2>2, <2>3, Zenon DEF Remembered
<1>3. CASE ExpireActive
  <2>1. /\ row'[i].detectors = row[i].detectors /\ row'[i].review = row[i].review
        /\ row'[i].active # row[i].active => ~row'[i].active /\ Overdue(row[i])
    BY <1>0, <1>3, Zenon DEF ExpireActive, Rows
  <2> QED BY <2>1 DEF Respected, Remembered
<1>4. CASE ExpireUnreviewed
  <2>1. /\ row'[i].detectors = row[i].detectors /\ row'[i].active = row[i].active
        /\ Reviewed(row[i]) => row'[i].review = row[i].review
    BY <1>0, <1>4 DEF ExpireUnreviewed, Rows, Reviewed
  <2> QED BY <2>1 DEF Respected, Remembered
<1>5. CASE PruneSelect
  BY <1>5 DEF PruneSelect, Respected, Remembered
<1>6. CASE PruneDelete
  <2>1. row'[i] = row[i] \/ row'[i] = NoRow("gone")
    BY <1>6 DEF PruneDelete
  <2> QED BY <2>1 DEF Respected, Remembered, NoRow
<1>7. ASSUME NEW j \in Ids, Lapse(j) PROVE Kept(row[i], row'[i])
  <2>1. /\ row'[i].detectors = row[i].detectors /\ row'[i].review = row[i].review
        /\ row'[i].active = row[i].active
    BY <1>0, <1>7 DEF Lapse, Rows
  <2> QED BY <2>1 DEF Kept, Respected, Remembered
<1> QED BY <1>1, <1>2, <1>3, <1>4, <1>5, <1>6, <1>7 DEF Next, Kept

\* What overlapping runs can lose is bounded: each of them overrules a decision or
\* forgets a detector at most once, and only if its locking read came before the row.
THEOREM OverlapsOverwriteOnce == Spec => OverwrittenOnce
<1>1. TypeOK /\ [Next]_vars =>
         [\A i \in Ids : Stored(i) =>
             /\ AutoRow(i) => InFlight' \subseteq InFlight
             /\ \/ /\ OperatorStep \/ Respected(row[i], row'[i])
                   /\ Remembered(row[i], row'[i])
                \/ AutoRow(i) /\ InFlight' # InFlight]_vars
  <2> SUFFICES ASSUME TypeOK, [Next]_vars, NEW i \in Ids, Stored(i)
               PROVE  /\ AutoRow(i) => InFlight' \subseteq InFlight
                      /\ \/ /\ OperatorStep \/ Respected(row[i], row'[i])
                            /\ Remembered(row[i], row'[i])
                         \/ AutoRow(i) /\ InFlight' # InFlight
    OBVIOUS
  <2>1. AutoRow(i) => InFlight' \subseteq InFlight
    BY NoNewRun DEF NoAutoRow
  <2>2. CASE \E r \in Runners : RunnerStep(r)
    BY <2>1, <2>2, RunnerKeeps DEF Kept
  <2>3. CASE \A r \in Runners : ~RunnerStep(r)
    BY <2>1, <2>3, OthersKeep
  <2> QED BY <2>2, <2>3
<1> QED BY <1>1, TypeCorrect, PTL DEF Spec, OverwrittenOnce

----------------------------------------------------------------------------
(* The access log: parse_access_log passes no line over *)

\* The lines that begin before a position are recorded, or were found cut.  A run that
\* resumes in the middle of a line does not see its first half again, so the line must
\* be accounted for as soon as the position is past its beginning.
Behind(position, recorded) ==
    \A i \in DOMAIN file :
        2 * i - 1 <= position /\ Recordable(file[i]) => file[i].id \in recorded \/ i \in cut

\* What a run will have recorded when it saves its offset.
Held(p) == IF step[p] = "read" THEN ingested \cup {r.id : r \in batch[p]} ELSE ingested

LogTypes ==
    /\ file \in Seq(Lines) /\ half \in BOOLEAN /\ (half => file # <<>>)
    /\ offset \in Int /\ offsetFresh \in BOOLEAN
    /\ start \in [Parsers -> Int] /\ startFresh \in [Parsers -> BOOLEAN]
    /\ DOMAIN step = Parsers /\ DOMAIN batch = Parsers

OffsetInv == offsetFresh => offset <= Size /\ Behind(offset, ingested)
RunInv(p) == step[p] # "idle" /\ startFresh[p] => start[p] <= Size /\ Behind(start[p], Held(p))

LogInv == LogTypes /\ OffsetInv /\ \A p \in Parsers : RunInv(p)

----------------------------------------------------------------------------
\* A file has a size that is not negative, and its lines end within it.
LEMMA SizeType ==
    ASSUME LogTypes
    PROVE  /\ Size \in Nat /\ DOMAIN file = 1..Len(file) /\ Len(file) \in Nat
           /\ \A i \in DOMAIN file : i \in Nat /\ 2 * i - 1 <= Size
BY SMT DEF LogTypes, Size

\* Nothing lies before the beginning of the file.
LEMMA BehindNothing ==
    ASSUME LogTypes, NEW recorded
    PROVE  Behind(0, recorded)
BY SizeType, SMT DEF Behind

\* The invariant holds when nothing has been read.
LEMMA LogStart == LogInit => LogInv
<1> SUFFICES ASSUME LogInit PROVE LogInv
  OBVIOUS
<1>1. LogTypes
  <2>1. <<>> \in Seq(Lines) /\ Evicted \in Int /\ 0 \in Int
    BY SMT DEF Evicted
  <2> QED
    BY <2>1, Zenon DEF LogInit, LogTypes
<1>2. OffsetInv /\ \A p \in Parsers : RunInv(p)
  BY Zenon DEF LogInit, OffsetInv, RunInv
<1> QED
  BY <1>1, <1>2, Zenon DEF LogInv

\* The types are kept.
LEMMA LogTypesStep == LogInv /\ [LogNext]_logVars => LogTypes'
<1> SUFFICES ASSUME LogInv, [LogNext]_logVars PROVE LogTypes'
  OBVIOUS
<1>0. LogTypes /\ Size \in Nat
  BY SizeType, Zenon DEF LogInv
<1>1. ASSUME NEW p \in Parsers, Stat(p) PROVE LogTypes'
  <2>1. Resume \in Int
    BY <1>0, SMT DEF Resume, LogTypes
  <2> QED
    BY <1>0, <1>1, <2>1, SMT DEF Stat, LogTypes, log
<1>2. ASSUME NEW p \in Parsers, Read(p) PROVE LogTypes'
  <2>1. DOMAIN batch' = Parsers
    BY <1>0, <1>2, Zenon DEF Read, LogTypes
  <2>2. /\ DOMAIN step' = Parsers /\ start' \in [Parsers -> Int] /\ startFresh' \in [Parsers -> BOOLEAN]
    BY <1>0, <1>2, SMT DEF Read, LogTypes
  <2> QED
    BY <1>0, <1>2, <2>1, <2>2, Zenon DEF Read, LogTypes, log
<1>3. ASSUME NEW p \in Parsers, Store(p) PROVE LogTypes'
  BY <1>0, <1>3, Zenon DEF Store, LogTypes, log
<1>4. ASSUME NEW p \in Parsers, SaveOffset(p) PROVE LogTypes'
  BY <1>0, <1>4, SMT DEF SaveOffset, new_offset, LogTypes, log
<1>5. ASSUME NEW p \in Parsers, Stop(p) PROVE LogTypes'
  BY <1>0, <1>5, SMT DEF Stop, LogTypes, log
<1>6. CASE prune_request_logs
  BY <1>0, <1>6, Zenon DEF prune_request_logs, LogTypes, log, run
<1>7. CASE LogLine
  <2>1. \A l \in Lines : Append(file, l) \in Seq(Lines) /\ Append(file, l) # <<>>
    BY <1>0, SMT DEF LogTypes
  <2> QED
    BY <1>0, <1>7, <2>1, Zenon DEF LogLine, LogTypes, run
<1>8. CASE Rotate
  <2>1. <<>> \in Seq(Lines)
    BY SMT
  <2> QED
    BY <1>0, <1>8, <2>1, Zenon DEF Rotate, LogTypes
<1>9. CASE Evict
  <2>1. Evicted \in Int
    BY SMT DEF Evicted
  <2> QED
    BY <1>0, <1>9, <2>1, Zenon DEF Evict, LogTypes, log, run
<1>10. CASE UNCHANGED logVars
  BY <1>0, <1>10, Zenon DEF LogTypes, logVars
<1> QED
  BY <1>1, <1>2, <1>3, <1>4, <1>5, <1>6, <1>7, <1>8, <1>9, <1>10, Zenon DEF LogNext

\* A line that is added begins behind every position in the file as it was.
LEMMA GrownFile ==
    ASSUME LogTypes, LogLine, NEW position \in Int, position <= Size, NEW recorded, Behind(position, recorded)
    PROVE  /\ position <= Size'
           /\ \A i \in DOMAIN file' : 2 * i - 1 <= position /\ Recordable(file'[i]) =>
                 file'[i].id \in recorded \/ i \in cut'
<1>0. cut' = cut
  BY Zenon DEF LogLine
<1>1. CASE half
  <2>1. file' = file /\ half' = FALSE
    BY <1>1, Zenon DEF LogLine
  <2>2. Size = 2 * Len(file) - 1 /\ Size' = 2 * Len(file) /\ Len(file) \in Nat
    <3>1. Size = 2 * Len(file) - 1 /\ Size' = 2 * Len(file) - 0
      BY <1>1, <2>1, Zenon DEF Size
    <3> QED
      BY <3>1, SizeType, SMT
  <2>3. position <= Size'
    BY <2>2, SMT
  <2> QED
    BY <1>0, <2>1, <2>3, Zenon DEF Behind
<1>2. CASE ~half
  <2>1. PICK l \in Lines : file' = Append(file, l) /\ half' = TRUE
    BY <1>2, Zenon DEF LogLine
  <2>2. Size = 2 * Len(file) - 0 /\ Size' = 2 * Len(file') - 1
    BY <1>2, <2>1, Zenon DEF Size
  <2>3. /\ Len(file) \in Nat /\ Len(file') = Len(file) + 1 /\ DOMAIN file' = 1..(Len(file) + 1)
        /\ DOMAIN file = 1..Len(file) /\ \A i \in 1..Len(file) : file'[i] = file[i]
    BY <2>1, SMT DEF LogTypes
  <2>4. position <= Size'
    BY <2>2, <2>3, SMT
  <2>5. \A i \in DOMAIN file' : 2 * i - 1 <= position => i \in DOMAIN file /\ file'[i] = file[i]
    BY <2>2, <2>3, SMT
  <2> QED
    BY <1>0, <2>4, <2>5, Zenon DEF Behind
<1> QED
  BY <1>1, <1>2

\* A saved offset was some run's, which had stored what it read.
LEMMA OffsetStep == LogInv /\ [LogNext]_logVars => OffsetInv'
<1> SUFFICES ASSUME LogInv, [LogNext]_logVars, offsetFresh' PROVE offset' <= Size' /\ Behind(offset, ingested)'
  BY Zenon DEF OffsetInv
<1>0. LogTypes /\ OffsetInv /\ LogTypes' /\ Size \in Nat
  BY SizeType, LogTypesStep, Zenon DEF LogInv
<1>1. ASSUME offset' = offset, offsetFresh, file' = file, half' = half, cut \subseteq cut', ingested \subseteq ingested'
      PROVE  offset' <= Size' /\ Behind(offset, ingested)'
  <2>1. Size' = Size
    BY <1>1, Zenon DEF Size
  <2>2. offset <= Size /\ Behind(offset, ingested)
    BY <1>0, <1>1, Zenon DEF OffsetInv
  <2> QED
    BY <1>1, <2>1, <2>2, Zenon DEF Behind, Recordable
<1>2. ASSUME NEW p \in Parsers, Stat(p) \/ Read(p) \/ Store(p) \/ Stop(p)
      PROVE  offset' <= Size' /\ Behind(offset, ingested)'
  BY <1>1, <1>2, Zenon DEF Stat, Read, Store, Stop, log
<1>3. ASSUME NEW p \in Parsers, SaveOffset(p) PROVE offset' <= Size' /\ Behind(offset, ingested)'
  <2>1. /\ step[p] = "stored" /\ offset' = start[p] /\ startFresh[p]
        /\ file' = file /\ half' = half /\ ingested' = ingested /\ cut' = cut
    BY <1>3, Zenon DEF SaveOffset, new_offset, log
  <2>2. start[p] <= Size /\ Behind(start[p], ingested)
    BY <2>1, Zenon DEF LogInv, RunInv, Held
  <2>3. Size' = Size
    BY <2>1, Zenon DEF Size
  <2> QED
    BY <2>1, <2>2, <2>3, Zenon DEF Behind, Recordable
<1>4. CASE LogLine
  <2>1. /\ offset' = offset /\ offsetFresh /\ ingested' = ingested /\ cut' = cut
    BY <1>4, Zenon DEF LogLine
  <2>2. offset <= Size /\ Behind(offset, ingested) /\ offset \in Int
    BY <1>0, <2>1, Zenon DEF OffsetInv, LogTypes
  <2> QED
    BY <1>0, <1>4, <2>1, <2>2, GrownFile, Zenon DEF Behind, Recordable
<1>5. CASE prune_request_logs \/ UNCHANGED logVars
  BY <1>1, <1>5, Zenon DEF prune_request_logs, logVars, log
<1>6. CASE Rotate \/ Evict
  BY <1>6, Zenon DEF Rotate, Evict
<1> QED
  BY <1>2, <1>3, <1>4, <1>5, <1>6, Zenon DEF LogNext

\* What a run has read is accounted for when it has stored it.
LEMMA RunStep == LogInv /\ [LogNext]_logVars => \A q \in Parsers : RunInv(q)'
<1> SUFFICES ASSUME LogInv, [LogNext]_logVars, NEW q \in Parsers, step'[q] # "idle", startFresh'[q]
             PROVE  start'[q] <= Size' /\ Behind(start[q], Held(q))'
  BY Zenon DEF RunInv
<1> DEFINE Goal == start'[q] <= Size' /\ Behind(start[q], Held(q))'
<1>0. LogTypes /\ RunInv(q) /\ LogTypes' /\ Size \in Nat /\ start[q] \in Int
  BY SizeType, LogTypesStep, Zenon DEF LogInv, LogTypes
\* A step that leaves the file and this run alone.
<1>1. ASSUME file' = file, half' = half, step'[q] = step[q], start'[q] = start[q], startFresh'[q] = startFresh[q],
             batch'[q] = batch[q], cut \subseteq cut', ingested \subseteq ingested'
      PROVE  Goal
  <2>1. Size' = Size
    BY <1>1, Zenon DEF Size
  <2>2. start[q] <= Size /\ Behind(start[q], Held(q))
    BY <1>0, <1>1, Zenon DEF RunInv
  <2>3. Held(q) \subseteq Held(q)'
    BY <1>1, Zenon DEF Held
  <2> QED
    BY <1>1, <2>1, <2>2, <2>3, Zenon DEF Behind, Recordable
<1>2. ASSUME NEW p \in Parsers, p # q, Stat(p) \/ Read(p) \/ Store(p) \/ SaveOffset(p) \/ Stop(p)
      PROVE  Goal
  <2>1. /\ file' = file /\ half' = half /\ cut \subseteq cut' /\ ingested \subseteq ingested'
        /\ step'[q] = step[q] /\ start'[q] = start[q] /\ startFresh'[q] = startFresh[q]
        /\ batch'[q] = batch[q]
    BY <1>0, <1>2, Zenon DEF Stat, Read, Store, SaveOffset, Stop, LogTypes, log
  <2> QED
    BY <1>1, <2>1, Zenon
<1>3. CASE Stat(q)
  <2>1. /\ step'[q] = "opened" /\ start'[q] = Resume /\ (Resume = 0 \/ offsetFresh)
        /\ file' = file /\ half' = half /\ cut' = cut /\ ingested' = ingested
    BY <1>0, <1>3, Zenon DEF Stat, LogTypes, log
  <2>2. Resume <= Size /\ Behind(Resume, ingested)
    <3>1. CASE Resume = 0
      <4>1. 0 <= Size
        BY <1>0, SMT
      <4> QED
        BY <1>0, <3>1, <4>1, BehindNothing, Zenon
    <3>2. CASE Resume # 0
      BY <2>1, <3>2, Zenon DEF Resume, LogInv, OffsetInv
    <3> QED
      BY <3>1, <3>2
  <2>3. Size' = Size /\ Held(q)' = ingested
    BY <2>1, Zenon DEF Size, Held
  <2> QED
    BY <2>1, <2>2, <2>3, Zenon DEF Behind, Recordable
<1>4. CASE Read(q)
  <2>1. PICK matched \in SUBSET HalfFrom(start[q]) :
            /\ batch'[q] = {Row(file[i], i \notin matched) :
                    i \in {j \in WholeFrom(start[q]) \cup matched : Recordable(file[j])}}
            /\ cut' = cut \cup (HalfFrom(start[q]) \ matched)
    BY <1>0, <1>4, Zenon DEF Read, LogTypes
  <2>2. /\ step[q] = "opened" /\ step'[q] = "read" /\ file' = file /\ half' = half /\ ingested' = ingested
        /\ start'[q] = IF Size > start[q] THEN Size ELSE start[q]
        /\ startFresh[q] \/ start[q] = 0
    BY <1>0, <1>4, Zenon DEF Read, LogTypes, log
  <2>3. start[q] <= Size /\ Behind(start[q], ingested)
    <3>1. CASE start[q] = 0
      <4>1. 0 <= Size
        BY <1>0, SMT
      <4> QED
        BY <1>0, <3>1, <4>1, BehindNothing, Zenon
    <3>2. CASE startFresh[q]
      BY <1>0, <2>2, <3>2, Zenon DEF RunInv, Held
    <3> QED
      BY <2>2, <3>1, <3>2
  <2>4. start'[q] = Size /\ Size' = Size
    <3>1. start'[q] = Size
      BY <1>0, <2>2, <2>3, SMT
    <3> QED
      BY <2>2, <3>1, Zenon DEF Size
  <2>5. ASSUME NEW i \in DOMAIN file, Recordable(file[i])
        PROVE  file[i].id \in ingested \cup {r.id : r \in batch'[q]} \/ i \in cut'
    <3>1. CASE 2 * i - 1 <= start[q]
      BY <2>1, <2>3, <2>5, <3>1, Zenon DEF Behind
    <3>2. CASE ~(2 * i - 1 <= start[q])
      <4>1. 2 * (i - 1) >= start[q] /\ (2 * i <= Size \/ 2 * i > Size)
        BY <1>0, <3>2, SizeType, SMT
      <4>2. i \in WholeFrom(start[q]) \cup HalfFrom(start[q])
        BY <4>1, Zenon DEF WholeFrom, HalfFrom
      <4>3. CASE i \in WholeFrom(start[q]) \cup matched
        <5>1. Row(file[i], i \notin matched) \in batch'[q]
          BY <2>1, <2>5, <4>3, Zenon
        <5>2. Row(file[i], i \notin matched).id = file[i].id
          BY Zenon DEF Row
        <5> QED
          BY <5>1, <5>2, Zenon
      <4> QED
        BY <2>1, <4>2, <4>3, Zenon
    <3> QED
      BY <3>1, <3>2
  <2>6. Held(q)' = ingested \cup {r.id : r \in batch'[q]}
    BY <2>2, Zenon DEF Held
  <2>7. Size <= Size
    BY <1>0, SMT
  <2> QED
    BY <2>2, <2>4, <2>5, <2>6, <2>7, Zenon DEF Behind, Recordable
<1>5. CASE Store(q)
  <2>1. /\ step[q] = "read" /\ step'[q] = "stored" /\ file' = file /\ half' = half /\ cut' = cut
        /\ start'[q] = start[q] /\ startFresh[q] /\ ingested' = ingested \cup {r.id : r \in batch[q]}
    BY <1>0, <1>5, Zenon DEF Store, LogTypes, log
  <2>2. start[q] <= Size /\ Behind(start[q], Held(q))
    BY <1>0, <2>1, Zenon DEF RunInv
  <2>3. Size' = Size /\ Held(q)' = Held(q)
    BY <2>1, Zenon DEF Size, Held
  <2> QED
    BY <2>1, <2>2, <2>3, Zenon DEF Behind, Recordable
<1>6. CASE SaveOffset(q) \/ Stop(q)
  BY <1>0, <1>6, Zenon DEF SaveOffset, Stop, LogTypes
<1>7. CASE LogLine
  <2>1. /\ step' = step /\ start' = start /\ startFresh' = startFresh /\ batch' = batch
        /\ ingested' = ingested /\ cut' = cut
    BY <1>7, Zenon DEF LogLine, run
  <2>2. start[q] <= Size /\ Behind(start[q], Held(q)) /\ Held(q)' = Held(q)
    BY <1>0, <2>1, Zenon DEF RunInv, Held
  <2>3. start[q] <= Size' /\ \A i \in DOMAIN file' : 2 * i - 1 <= start[q] /\ Recordable(file'[i]) =>
            file'[i].id \in Held(q) \/ i \in cut'
    BY <1>0, <1>7, <2>2, GrownFile, Zenon DEF Behind, Recordable
  <2> QED
    BY <2>1, <2>2, <2>3, Zenon DEF Behind, Recordable
<1>8. CASE prune_request_logs \/ Evict \/ UNCHANGED logVars
  <2>1. /\ file' = file /\ half' = half /\ cut' = cut /\ ingested' = ingested
        /\ step' = step /\ start' = start /\ startFresh' = startFresh /\ batch' = batch
    BY <1>8, Zenon DEF prune_request_logs, Evict, run, logVars, log
  <2> QED
    BY <1>1, <2>1, Zenon
<1>9. CASE Rotate
  BY <1>9, Zenon DEF Rotate
<1> QED
  BY <1>2, <1>3, <1>4, <1>5, <1>6, <1>7, <1>8, <1>9, Zenon DEF LogNext

----------------------------------------------------------------------------
\* An offset that parse_access_log saved for the log that is there has behind it only
\* lines that were recorded, cannot be, or were found cut: for every number of runs that
\* overlap or stop anywhere, and for logs of every length.
THEOREM LogReadThrough == LogSpec => []NoLinePassedOver
<1>1. LogInv /\ [LogNext]_logVars => LogInv'
  BY LogTypesStep, OffsetStep, RunStep, Zenon DEF LogInv
<1>2. LogInv => NoLinePassedOver
  <2> SUFFICES ASSUME LogInv, offsetFresh, NEW i \in DOMAIN file, 2 * i <= offset, Recordable(file[i])
               PROVE  file[i].id \in ingested \/ i \in cut
    BY Zenon DEF NoLinePassedOver
  <2>1. i \in Nat /\ offset \in Int
    BY SizeType, Zenon DEF LogInv, LogTypes
  <2>2. 2 * i - 1 <= offset
    BY <2>1, SMT
  <2> QED
    BY <2>2, Zenon DEF LogInv, OffsetInv, Behind
<1> QED
  BY LogStart, <1>1, <1>2, PTL DEF LogSpec
============================================================================
