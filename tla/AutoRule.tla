------------------------------ MODULE AutoRule ------------------------------
(***************************************************************************)
(* The life of the auto-generated BlockRule rows that share one key        *)
(* (rule_type, pattern, action): detector runs and challenge escalation    *)
(* that create or refresh them, operators who confirm, reject, switch and  *)
(* delete them, the expiry sweep and the retention sweep.                  *)
(*                                                                         *)
(* Every SQL statement that reads or changes the rows is a step.  A row    *)
(* read with select_for_update() stays locked until its transaction ends,  *)
(* so a read that finds the row and the write it leads to are one step; a  *)
(* read that finds nothing locks nothing.  Isolation is READ COMMITTED.    *)
(***************************************************************************)
CONSTANTS Ids,           \* primary keys, never used twice
          Detectors,     \* detector names, challenge_escalation among them
          QuarantineAll, \* DJANGO_WAF_ANOMALY_QUARANTINE_AUTO_RULES
          ObserveOnly,   \* DJANGO_WAF_ANOMALY_OBSERVE_ONLY_DETECTORS
          Runners        \* processes that write auto rules

ASSUME AutoRuleConstants ==
    /\ QuarantineAll \in BOOLEAN
    /\ ObserveOnly \subseteq Detectors

VARIABLES row,      \* the rows of the key
          pc, det,  \* control and detector of each _update_or_create_auto_rule
          epc,      \* control of expire_rules
          doomed,   \* the rows the retention sweep has selected
          approved  \* history: rows an operator switched on, and not off again

vars == <<row, pc, det, epc, doomed, approved>>

Reviews == {"NOT_APPLICABLE", "PENDING", "CONFIRMED", "REJECTED", "EXPIRED_UNREVIEWED"}
Ages    == {"never", "future", "past", "stale"}   \* expires_at against the clock
Rows    == [state : {"unborn", "stored", "gone"}, source : {"AUTO", "ADMIN"},
            active : BOOLEAN, review : Reviews, detectors : SUBSET Detectors, expires : Ages]

NoRow(state) == [state |-> state, source |-> "AUTO", active |-> FALSE,
                 review |-> "NOT_APPLICABLE", detectors |-> {}, expires |-> "never"]

Stored(i)   == row[i].state = "stored"
AutoRow(i)  == Stored(i) /\ row[i].source = "AUTO"
Reviewed(r) == r.review \in {"CONFIRMED", "REJECTED"}

RunSteps == {"idle", "missed", "insert", "reget", "retry"}

TypeOK ==
    /\ row \in [Ids -> Rows]
    /\ pc \in [Runners -> RunSteps]
    /\ det \in [Runners -> Detectors]
    /\ epc \in {"idle", "sweep"}
    /\ doomed \subseteq Ids
    /\ approved \subseteq Ids

Init ==
    /\ row = [i \in Ids |-> NoRow("unborn")]
    /\ pc = [r \in Runners |-> "idle"]
    /\ det \in [Runners -> Detectors]
    /\ epc = "idle"
    /\ doomed = {}
    /\ approved = {}

----------------------------------------------------------------------------
(* _get_or_create_auto_rule *)

\* Whether detector d creates rules that enforce at once.
Enforcing(d) == ~(QuarantineAll \/ d \in ObserveOnly)

\* Mutants: a detector overrules a review, forgets the names it found, or
\* switches on what it should quarantine.
WrittenRegardless(q, seen, d) ==
    [q EXCEPT !.active = Enforcing(d),
              !.review = IF Enforcing(d) THEN "NOT_APPLICABLE" ELSE "PENDING",
              !.detectors = seen.detectors \cup {d},
              !.expires = "future"]

WrittenAlone(q, seen, d) ==
    [q EXCEPT !.active = IF Reviewed(seen) THEN @ ELSE Enforcing(d),
              !.review = IF Reviewed(seen) THEN @
                         ELSE IF Enforcing(d) THEN "NOT_APPLICABLE" ELSE "PENDING",
              !.detectors = {d},
              !.expires = "future"]

WrittenActive(q, seen, d) ==
    [q EXCEPT !.active = IF Reviewed(seen) THEN @ ELSE TRUE,
              !.review = IF Reviewed(seen) THEN @
                         ELSE IF Enforcing(d) THEN "NOT_APPLICABLE" ELSE "PENDING",
              !.detectors = seen.detectors \cup {d},
              !.expires = "future"]

\* What is written to row q when the defaults were derived from the stored row
\* seen, or from NoRow("unborn") when the read found none: a reviewed row keeps
\* is_active and review_status, and the detector joins the names that were seen.
Written(q, seen, d) ==
    [q EXCEPT !.active = IF Reviewed(seen) THEN @ ELSE Enforcing(d),
              !.review = IF Reviewed(seen) THEN @
                         ELSE IF Enforcing(d) THEN "NOT_APPLICABLE" ELSE "PENDING",
              !.detectors = seen.detectors \cup {d},
              !.expires = "future"]

WriteRow(i, seen, d) == row' = [row EXCEPT ![i] = Written(@, seen, d)]
NoAutoRow == \A i \in Ids : ~AutoRow(i)
Go(r, step) == pc' = [pc EXCEPT ![r] = step]

\* _auto_rule_write_defaults: the locking read, and the write when it finds the row.
Detect(r, d) ==
    /\ pc[r] = "idle"
    /\ det' = [det EXCEPT ![r] = d]
    /\ \/ \E i \in Ids : AutoRow(i) /\ WriteRow(i, row[i], d) /\ UNCHANGED pc
       \/ NoAutoRow /\ Go(r, "missed") /\ UNCHANGED row
    /\ UNCHANGED <<epc, doomed, approved>>

\* update_or_create reads again: a row that appeared meanwhile gets the defaults
\* derived from finding none.
GetOrCreate(r) ==
    /\ pc[r] = "missed"
    /\ \/ \E i \in Ids : /\ AutoRow(i)
                         /\ WriteRow(i, NoRow("unborn"), det[r])
                         /\ Go(r, "idle")
       \/ NoAutoRow /\ Go(r, "insert") /\ UNCHANGED row
    /\ UNCHANGED <<det, epc, doomed, approved>>

\* The INSERT, or the IntegrityError of django_waf_br_auto_key_uniq.
Insert(r) ==
    /\ pc[r] = "insert"
    /\ \/ /\ NoAutoRow
          /\ \E i \in Ids :
                /\ row[i].state = "unborn"
                /\ row' = [row EXCEPT ![i] = Written([@ EXCEPT !.state = "stored"],
                                                     NoRow("unborn"), det[r])]
          /\ Go(r, "idle")
       \/ ~NoAutoRow /\ Go(r, "reget") /\ UNCHANGED row
    /\ UNCHANGED <<det, epc, doomed, approved>>

\* get_or_create catches that error itself and reads the winner, which is given
\* the same defaults; the error goes on only when the winner is gone again.
Reget(r) ==
    /\ pc[r] = "reget"
    /\ \/ \E i \in Ids : /\ AutoRow(i)
                         /\ WriteRow(i, NoRow("unborn"), det[r])
                         /\ Go(r, "idle")
       \/ NoAutoRow /\ Go(r, "retry") /\ UNCHANGED row
    /\ UNCHANGED <<det, epc, doomed, approved>>

\* The except branch: merge into the row found now, or raise DoesNotExist.
Retry(r) ==
    /\ pc[r] = "retry"
    /\ \/ \E i \in Ids : AutoRow(i) /\ WriteRow(i, row[i], det[r])
       \/ NoAutoRow /\ UNCHANGED row
    /\ Go(r, "idle")
    /\ UNCHANGED <<det, epc, doomed, approved>>

\* The process dies, or the database drops the transaction.
Abort(r) ==
    /\ pc[r] # "idle"
    /\ Go(r, "idle")
    /\ UNCHANGED <<row, det, epc, doomed, approved>>

RunnerStep(r) ==
    \/ \E d \in Detectors : Detect(r, d)
    \/ GetOrCreate(r) \/ Insert(r) \/ Reget(r) \/ Retry(r) \/ Abort(r)

----------------------------------------------------------------------------
(* Operators: one UPDATE or DELETE by primary key each *)

Confirm(i) ==
    /\ Stored(i)
    /\ row' = [row EXCEPT ![i].source = "ADMIN", ![i].active = TRUE,
                          ![i].review = "CONFIRMED", ![i].expires = "never"]
    /\ approved' = approved \cup {i}
    /\ UNCHANGED <<pc, det, epc, doomed>>

Reject(i) ==
    /\ Stored(i)
    /\ row' = [row EXCEPT ![i].active = FALSE, ![i].review = "REJECTED"]
    /\ approved' = approved \ {i}
    /\ UNCHANGED <<pc, det, epc, doomed>>

\* The admin's bulk actions, and django_waf_unblock.
ActivateRules(i) ==
    /\ Stored(i)
    /\ row' = [row EXCEPT ![i].active = TRUE]
    /\ approved' = approved \cup {i}
    /\ UNCHANGED <<pc, det, epc, doomed>>

DeactivateRules(i) ==
    /\ Stored(i)
    /\ row' = [row EXCEPT ![i].active = FALSE]
    /\ approved' = approved \ {i}
    /\ UNCHANGED <<pc, det, epc, doomed>>

\* A day more than before, or from now, when there was no expiry.
ExtendExpiry(i) ==
    /\ Stored(i)
    /\ \E e \in (IF row[i].expires = "never" THEN {"future"} ELSE {row[i].expires, "future"}) :
          row' = [row EXCEPT ![i].expires = e]
    /\ UNCHANGED <<pc, det, epc, doomed, approved>>

DeleteRule(i) ==
    /\ Stored(i)
    /\ row' = [row EXCEPT ![i] = NoRow("gone")]
    /\ approved' = approved \ {i}
    /\ UNCHANGED <<pc, det, epc, doomed>>

OperatorStep ==
    \E i \in Ids : \/ Confirm(i) \/ Reject(i) \/ ActivateRules(i)
                   \/ DeactivateRules(i) \/ ExtendExpiry(i) \/ DeleteRule(i)

----------------------------------------------------------------------------
(* Scheduled tasks and the clock *)

Overdue(q) == q.state = "stored" /\ q.expires \in {"past", "stale"}

\* expire_rules: BlockRuleManager.expired().update(is_active=False), ...
ExpireActive ==
    /\ epc = "idle"
    /\ row' = [i \in Ids |-> IF Overdue(row[i]) /\ row[i].active
                            THEN [row[i] EXCEPT !.active = FALSE] ELSE row[i]]
    /\ epc' = "sweep"
    /\ UNCHANGED <<pc, det, doomed, approved>>

\* Mutant: the sweep misses the inactive rows, which every quarantined row is.
ExpireActiveUnreviewed ==
    /\ epc = "sweep"
    /\ row' = [i \in Ids |->
          IF Overdue(row[i]) /\ row[i].source = "AUTO" /\ row[i].review = "PENDING" /\ row[i].active
          THEN [row[i] EXCEPT !.review = "EXPIRED_UNREVIEWED"] ELSE row[i]]
    /\ epc' = "idle"
    /\ UNCHANGED <<pc, det, doomed, approved>>

\* ... and its sweep of the rules nobody reviewed.
ExpireUnreviewed ==
    /\ epc = "sweep"
    /\ row' = [i \in Ids |->
          IF Overdue(row[i]) /\ row[i].source = "AUTO" /\ row[i].review = "PENDING"
          THEN [row[i] EXCEPT !.review = "EXPIRED_UNREVIEWED"] ELSE row[i]]
    /\ epc' = "idle"
    /\ UNCHANGED <<pc, det, doomed, approved>>

\* BlockRuleManager.stale
Prunable(q) ==
    /\ q.state = "stored" /\ q.source = "AUTO" /\ ~q.active /\ q.expires = "stale"
    /\ q.review \in {"NOT_APPLICABLE", "EXPIRED_UNREVIEWED"}

\* prune_stale_rules: post_delete has receivers, so QuerySet.delete() first
\* selects the rows and then deletes them by primary key.
PruneSelect ==
    /\ doomed = {}
    /\ doomed' = {i \in Ids : Prunable(row[i])}
    /\ UNCHANGED <<row, pc, det, epc, approved>>

PruneDelete ==
    /\ doomed # {}
    /\ row' = [i \in Ids |-> IF i \in doomed THEN NoRow("gone") ELSE row[i]]
    /\ approved' = approved \ doomed
    /\ doomed' = {}
    /\ UNCHANGED <<pc, det, epc>>

\* expires_at passes, and later the retention window after it.
Lapse(i) ==
    /\ Stored(i)
    /\ row[i].expires \in {"future", "past"}
    /\ row' = [row EXCEPT ![i].expires = IF @ = "future" THEN "past" ELSE "stale"]
    /\ UNCHANGED <<pc, det, epc, doomed, approved>>

Next ==
    \/ \E r \in Runners : RunnerStep(r)
    \/ OperatorStep
    \/ ExpireActive \/ ExpireUnreviewed
    \/ PruneSelect \/ PruneDelete
    \/ \E i \in Ids : Lapse(i)

Spec == Init /\ [][Next]_vars

\* Time passes and expire_rules runs on its schedule; nobody has to review.
FairSpec ==
    /\ Spec
    /\ \A i \in Ids : WF_vars(Lapse(i))
    /\ WF_vars(ExpireActive) /\ WF_vars(ExpireUnreviewed)

----------------------------------------------------------------------------
(* Properties *)

\* What a step that respects the review may make of row q: the review stays, and
\* the row is switched only off, and only once it is overdue.
Respected(q, p) ==
    Reviewed(q) /\ p.state = "stored" =>
        /\ p.review = q.review
        /\ p.active # q.active => ~p.active /\ Overdue(q)

\* The detectors of row q are not forgotten.
Remembered(q, p) == p.state = "stored" => q.detectors \subseteq p.detectors

\* The runs whose locking read in _auto_rule_write_defaults found no row.
InFlight == {r \in Runners : pc[r] # "idle"}

\* A decision stands: no detector run, escalation or scheduled task changes the
\* review_status of a confirmed or rejected rule, or switches such a rule on, or
\* switches it off before an expiry an operator gave it.
DecisionsStand == [][OperatorStep \/ \A i \in Ids : Respected(row[i], row'[i])]_vars

\* However many runs overlap, a run of _update_or_create_auto_rule overrules a decision
\* or forgets a detector at most once, and only if its locking read came before the
\* row did: while the row is there no run starts that does not find it, the write that
\* loses something ends its run, and a rule an operator has made their own is out of reach.
\* (CHANGELOG.md:80-81 says that the losing run's name joins the merged set; there it
\* replaces the set, and this bounds how often.)
OverwrittenOnce ==
    [][\A i \in Ids : Stored(i) =>
          /\ AutoRow(i) => InFlight' \subseteq InFlight
          /\ \/ /\ OperatorStep \/ Respected(row[i], row'[i])
                /\ Remembered(row[i], row'[i])
             \/ AutoRow(i) /\ InFlight' # InFlight]_vars

\* Approve before enforce: a rule that a quarantined detector had a part in is
\* active only if an operator switched it on.
QuarantineHolds ==
    \A i \in Ids :
        row[i].active /\ i \notin approved => \A d \in row[i].detectors : Enforcing(d)

\* A quarantined rule does not wait for ever: unless its expiry keeps being
\* pushed back, by detectors that find it again or by an operator, a rule that
\* is PENDING stops being so.
PendingResolved ==
    <>[][\A i \in Ids : row'[i].expires = "future" => row[i].expires = "future"]_vars
        => \A i \in Ids : row[i].review = "PENDING" ~> row[i].review # "PENDING"
============================================================================
