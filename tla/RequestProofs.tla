--------------------------- MODULE RequestProofs ---------------------------
(***************************************************************************)
(* Theorems about the services that a request goes through: the blocked-IP *)
(* fast path and the reverse-DNS cache (Evaluation), the sliding windows   *)
(* (RateLimiter), and the gates before the evaluation (Gates).             *)
(***************************************************************************)
EXTENDS Evaluation, RateLimiter, Gates, FiniteSetTheorems, TLAPS

(* The fast path and the reverse-DNS cache *)

Events == {"denial", "escalation", "vouched", "refused"}

EvaluationTypes ==
    /\ vouched \in BOOLEAN
    /\ blocked.left \in Nat
    /\ rdns.left \in Nat /\ rdns.verdict \in BOOLEAN
    /\ DOMAIN pc = Threads
    /\ lag \in [Threads -> Nat] /\ \A t \in Threads : lag[t] <= MaxLag
    /\ age \in [Events -> Nat] /\ \A e \in Events : age[e] <= Horizon[e]

\* An entry of the fast path has no longer to live than was left when it was written.
Chained ==
    blocked.left > 0 => \/ blocked.left + age["denial"] <= BlockTTL
                        \/ blocked.left + age["escalation"] <= EscalationTTL

\* The history of DNS is that of now, and a thread's answer is as old as its lag at most.
Answered ==
    /\ age[IF vouched THEN "vouched" ELSE "refused"] = 0
    /\ \A t \in Threads : /\ pc[t] = "store yes" => age["vouched"] <= lag[t]
                          /\ pc[t] = "store no" => age["refused"] <= lag[t]

\* A cached verdict has no longer to live than when it was stored.
Confirmed ==
    rdns.left > 0 =>
        IF rdns.verdict THEN rdns.left + age["vouched"] <= PositiveTTL + MaxLag
        ELSE rdns.left + age["refused"] <= FailureTTL + MaxLag

EvaluationInv == EvaluationTypes /\ Chained /\ Answered /\ Confirmed

----------------------------------------------------------------------------
\* The horizons, event by event.
LEMMA Horizons ==
    /\ DOMAIN Horizon = Events
    /\ Horizon["denial"] = BlockTTL /\ Horizon["escalation"] = EscalationTTL
    /\ Horizon["vouched"] = PositiveTTL + MaxLag /\ Horizon["refused"] = FailureTTL + MaxLag
    /\ BlockTTL \in Nat /\ EscalationTTL \in Nat /\ PositiveTTL \in Nat /\ FailureTTL \in Nat
    /\ MaxLag \in Nat /\ 0 <= MaxLag /\ \A e \in Events : Horizon[e] \in Nat
BY EvaluationConstants, SMT DEF Horizon, Events

\* The invariant holds before the first request.
LEMMA EvaluationStart == EvaluationInit => EvaluationInv
<1> SUFFICES ASSUME EvaluationInit PROVE EvaluationInv
  OBVIOUS
<1>1. /\ vouched \in BOOLEAN /\ blocked.left = 0 /\ rdns.left = 0 /\ rdns.verdict = FALSE
      /\ DOMAIN pc = Threads /\ lag = [t \in Threads |-> 0]
      /\ \A t \in Threads : pc[t] = "idle"
  BY Zenon DEF EvaluationInit
<1>2. age = [e \in Events |-> IF e = (IF vouched THEN "vouched" ELSE "refused") THEN 0 ELSE Horizon[e]]
  BY Horizons, Zenon DEF EvaluationInit
<1>3. /\ age \in [Events -> Nat] /\ \A e \in Events : age[e] <= Horizon[e]
      /\ age[IF vouched THEN "vouched" ELSE "refused"] = 0
  BY <1>2, Horizons, SMT DEF Events
<1>4. lag \in [Threads -> Nat] /\ \A t \in Threads : lag[t] <= MaxLag
  BY <1>1, Horizons, SMT
<1>5. blocked.left \in Nat /\ rdns.left \in Nat /\ ~(blocked.left > 0) /\ ~(rdns.left > 0)
  BY <1>1, SMT
<1> QED
  BY <1>1, <1>3, <1>4, <1>5, Zenon DEF EvaluationInv, EvaluationTypes, Chained, Answered, Confirmed

\* Steps that touch neither the entry, nor the verdict, nor the clock, and leave no thread
\* with an answer that it did not have.
LEMMA QuietEvaluation ==
    ASSUME EvaluationInv, vouched' = vouched, blocked' = blocked, rdns' = rdns, age' = age,
           DOMAIN pc' = Threads, NEW t \in Threads, \A u \in Threads \ {t} : pc'[u] = pc[u] /\ lag'[u] = lag[u],
           pc'[t] \notin {"store yes", "store no"}, lag'[t] \in {lag[t], 0}, lag' \in [Threads -> Nat]
    PROVE  EvaluationInv'
<1>1. \A u \in Threads : lag'[u] <= MaxLag
  BY Horizons, Zenon DEF EvaluationInv, EvaluationTypes
<1>2. EvaluationTypes' /\ Chained' /\ Confirmed'
  BY <1>1, Zenon DEF EvaluationInv, EvaluationTypes, Chained, Confirmed, Horizon
<1>3. Answered'
  BY Zenon DEF EvaluationInv, Answered
<1> QED
  BY <1>2, <1>3, Zenon DEF EvaluationInv

\* The steps of a request that write nothing but the thread's own.
LEMMA ReadingStep ==
    ASSUME EvaluationInv, NEW t \in Threads,
           Request(t) \/ FastPath(t) \/ MatchRules(t) \/ Score(t) \/ FailOpen(t)
    PROVE  EvaluationInv'
<1>0. /\ DOMAIN pc = Threads /\ lag \in [Threads -> Nat]
  BY Zenon DEF EvaluationInv, EvaluationTypes
<1>1. vouched' = vouched /\ blocked' = blocked /\ rdns' = rdns /\ age' = age
  BY Zenon DEF Request, FastPath, MatchRules, Score, FailOpen
<1>2. PICK s \in {"idle", "resolve", "fast", "match", "gate", "deny"} : Go(t, s)
  <2>1. CASE Request(t)
    BY <2>1, Zenon DEF Request
  <2>2. CASE FastPath(t)
    BY <2>2, Zenon DEF FastPath
  <2>3. CASE MatchRules(t)
    <3>1. PICK r : Go(t, _action_to_verdict(r).step)
      BY <2>3, Zenon DEF MatchRules
    <3>2. _action_to_verdict(r).step \in {"gate", "idle", "deny"}
      BY Zenon DEF _action_to_verdict
    <3> QED
      BY <3>1, <3>2, Zenon
  <2>4. CASE Score(t)
    BY <2>4, Zenon DEF Score, _score_to_verdict
  <2>5. CASE FailOpen(t)
    BY <2>5, Zenon DEF FailOpen
  <2> QED
    BY <2>1, <2>2, <2>3, <2>4, <2>5
<1>3. /\ DOMAIN pc' = Threads /\ pc'[t] = s /\ \A u \in Threads \ {t} : pc'[u] = pc[u]
  BY <1>0, <1>2, Zenon DEF Go
<1>4. lag' = lag \/ lag' = [lag EXCEPT ![t] = 0]
  BY Zenon DEF Request, FastPath, MatchRules, Score, FailOpen
<1>5. lag' \in [Threads -> Nat] /\ lag'[t] \in {lag[t], 0} /\ \A u \in Threads \ {t} : lag'[u] = lag[u]
  BY <1>0, <1>4, SMT
<1> QED
  BY <1>1, <1>2, <1>3, <1>5, QuietEvaluation, Zenon

\* DNS answers: the answer is of now.
LEMMA ResolveStep ==
    ASSUME EvaluationInv, NEW t \in Threads, _resolve_and_confirm_rdns(t)
    PROVE  EvaluationInv'
<1>1. /\ vouched' = vouched /\ blocked' = blocked /\ rdns' = rdns /\ age' = age /\ lag' = lag
      /\ DOMAIN pc' = Threads /\ \A u \in Threads \ {t} : pc'[u] = pc[u]
      /\ pc'[t] = (IF vouched THEN "store yes" ELSE "store no")
  BY Zenon DEF _resolve_and_confirm_rdns, Go, EvaluationInv, EvaluationTypes
<1>2. EvaluationTypes' /\ Chained' /\ Confirmed'
  BY <1>1, Zenon DEF EvaluationInv, EvaluationTypes, Chained, Confirmed, Horizon
<1>3. \A n \in Nat : 0 <= n
  BY SMT
<1>4. Answered'
  BY <1>1, <1>3, Zenon DEF EvaluationInv, EvaluationTypes, Answered
<1> QED
  BY <1>2, <1>4, Zenon DEF EvaluationInv

\* The SETEX of a verdict: it lives for its TTL from now, and its answer is at most MaxLag old.
LEMMA StoreVerdictStep ==
    ASSUME EvaluationInv, NEW t \in Threads, StoreVerdict(t)
    PROVE  EvaluationInv'
<1>1. /\ vouched' = vouched /\ blocked' = blocked /\ age' = age /\ lag' = [lag EXCEPT ![t] = 0]
      /\ DOMAIN pc' = Threads /\ \A u \in Threads \ {t} : pc'[u] = pc[u]
      /\ pc'[t] \in {"idle", "fast"}
  BY Zenon DEF StoreVerdict, Go, EvaluationInv, EvaluationTypes
<1>2. lag \in [Threads -> Nat] /\ age \in [Events -> Nat] /\ lag[t] <= MaxLag
  BY Zenon DEF EvaluationInv, EvaluationTypes
<1>3. lag' \in [Threads -> Nat] /\ \A u \in Threads : lag'[u] <= MaxLag
  BY <1>1, <1>2, Horizons, SMT DEF EvaluationInv, EvaluationTypes
<1>4. \A u \in Threads \ {t} : lag'[u] = lag[u]
  BY <1>1, <1>2, Zenon
<1>5. CASE pc[t] = "store yes"
  <2>1. rdns'.verdict = TRUE /\ rdns'.left = PositiveTTL
    BY <1>5, Zenon DEF StoreVerdict, At, VerdictTTL
  <2>2. age["vouched"] <= lag[t]
    BY <1>5, Zenon DEF EvaluationInv, Answered
  <2>3. rdns'.left \in Nat /\ rdns'.left + age["vouched"] <= PositiveTTL + MaxLag
    BY <1>2, <2>1, <2>2, Horizons, SMT DEF Events
  <2> QED
    BY <1>1, <1>3, <1>4, <2>1, <2>3, Zenon
    DEF EvaluationInv, EvaluationTypes, Chained, Answered, Confirmed, Horizon
<1>6. CASE pc[t] = "store no"
  <2>1. rdns'.verdict = FALSE /\ rdns'.left = FailureTTL
    BY <1>6, Zenon DEF StoreVerdict, At, VerdictTTL
  <2>2. age["refused"] <= lag[t]
    BY <1>6, Zenon DEF EvaluationInv, Answered
  <2>3. rdns'.left \in Nat /\ rdns'.left + age["refused"] <= FailureTTL + MaxLag
    BY <1>2, <2>1, <2>2, Horizons, SMT DEF Events
  <2> QED
    BY <1>1, <1>3, <1>4, <2>1, <2>3, Zenon
    DEF EvaluationInv, EvaluationTypes, Chained, Answered, Confirmed, Horizon
<1> QED
  BY <1>5, <1>6, Zenon DEF StoreVerdict

\* An escalation or a denial writes its entry and its history at once.
LEMMA DenialStep ==
    ASSUME EvaluationInv, NEW t \in Threads, Escalate(t) \/ Deny(t)
    PROVE  EvaluationInv'
<1>1. /\ vouched' = vouched /\ rdns' = rdns /\ lag' = lag
      /\ DOMAIN pc' = Threads /\ \A u \in Threads \ {t} : pc'[u] = pc[u]
      /\ pc'[t] \in {"idle", "deny"}
  BY Zenon DEF Escalate, Deny, Go, EvaluationInv, EvaluationTypes
<1>2. \/ blocked' = blocked /\ age' = age
      \/ blocked'.left = EscalationTTL /\ age' = [age EXCEPT !.escalation = 0]
      \/ blocked'.left = BlockTTL /\ age' = [age EXCEPT !.denial = 0]
  <2>1. \A id, ttl : record_block_verdict(id, ttl).left = ttl
    BY Zenon DEF record_block_verdict
  <2>2. CASE Escalate(t)
    <3>1. \/ blocked' = blocked /\ age' = age
          \/ /\ \E id \in {Escalation, "1"} : blocked' = record_block_verdict(id, EscalationTTL)
             /\ age' = [age EXCEPT !.escalation = 0]
      BY <2>2, Zenon DEF Escalate
    <3> QED
      BY <2>1, <3>1, Zenon
  <2>3. CASE Deny(t)
    <3>1. \/ blocked' = blocked /\ age' = age
          \/ /\ blocked' = record_block_verdict(rule[t], BlockTTL)
             /\ age' = [age EXCEPT !.denial = 0]
      BY <2>3, Zenon DEF Deny
    <3>2. record_block_verdict(rule[t], BlockTTL).left = BlockTTL
      BY <2>1, Zenon
    <3> QED
      BY <3>1, <3>2, SMT
  <2> QED
    BY <2>2, <2>3, Zenon
<1>3. age \in [Events -> Nat] /\ \A e \in Events : age[e] <= Horizon[e]
  BY Zenon DEF EvaluationInv, EvaluationTypes
<1>4. /\ blocked'.left \in Nat /\ age' \in [Events -> Nat] /\ \A e \in Events : age'[e] <= Horizon[e]
      /\ age'["vouched"] = age["vouched"] /\ age'["refused"] = age["refused"]
      /\ \/ blocked' = blocked /\ age' = age
         \/ blocked'.left + age'["escalation"] <= EscalationTTL
         \/ blocked'.left + age'["denial"] <= BlockTTL
  <2>1. CASE blocked' = blocked /\ age' = age
    BY <1>3, <2>1, Zenon DEF EvaluationInv, EvaluationTypes
  <2>2. CASE blocked'.left = EscalationTTL /\ age' = [age EXCEPT !.escalation = 0]
    BY <1>3, <2>2, Horizons, SMT DEF Events
  <2>3. CASE blocked'.left = BlockTTL /\ age' = [age EXCEPT !.denial = 0]
    BY <1>3, <2>3, Horizons, SMT DEF Events
  <2> QED
    BY <1>2, <2>1, <2>2, <2>3, Zenon
<1>5. EvaluationTypes'
  BY <1>1, <1>4, Zenon DEF EvaluationInv, EvaluationTypes, Horizon
<1>6. Chained' /\ Confirmed'
  BY <1>1, <1>4, Zenon DEF EvaluationInv, Chained, Confirmed
<1>7. Answered'
  BY <1>1, <1>4, Zenon DEF EvaluationInv, Answered
<1> QED
  BY <1>5, <1>6, <1>7, Zenon DEF EvaluationInv

\* A second goes by: what has time left to live loses as much as its history grows.
LEMMA ElapseStep ==
    ASSUME EvaluationInv, Elapse
    PROVE  EvaluationInv'
<1> DEFINE current == IF vouched THEN "vouched" ELSE "refused"
<1>0. /\ vouched \in BOOLEAN /\ blocked.left \in Nat /\ rdns.left \in Nat
      /\ lag \in [Threads -> Nat] /\ age \in [Events -> Nat] /\ \A e \in Events : age[e] <= Horizon[e]
      /\ \A t \in Threads : lag[t] <= MaxLag
  BY Zenon DEF EvaluationInv, EvaluationTypes
<1>1. /\ vouched' = vouched /\ pc' = pc /\ rdns'.verdict = rdns.verdict
      /\ blocked'.left = Less(blocked.left) /\ rdns'.left = Less(rdns.left)
      /\ lag' = [t \in Threads |-> IF Storing(t) THEN lag[t] + 1 ELSE 0]
      /\ \A t \in Threads : Storing(t) => lag[t] < MaxLag
  BY Zenon DEF Elapse
<1>2. age' = [e \in Events |-> IF e = current THEN 0
                               ELSE IF age[e] = Horizon[e] THEN age[e] ELSE age[e] + 1]
  BY <1>0, Zenon DEF Elapse
<1>3. /\ age' \in [Events -> Nat]
      /\ \A e \in Events : age'[e] <= Horizon[e] /\ age'[e] <= age[e] + 1
      /\ age'[current] = 0
  BY <1>0, <1>2, Horizons, SMT DEF Events
<1>4. /\ blocked'.left \in Nat /\ (blocked'.left > 0 => blocked.left > 0 /\ blocked'.left = blocked.left - 1)
      /\ rdns'.left \in Nat /\ (rdns'.left > 0 => rdns.left > 0 /\ rdns'.left = rdns.left - 1)
  BY <1>0, <1>1, SMT DEF Less
<1>5. lag' \in [Threads -> Nat] /\ \A t \in Threads : lag'[t] <= MaxLag
  BY <1>0, <1>1, Horizons, SMT
<1>6. EvaluationTypes'
  BY <1>1, <1>3, <1>4, <1>5, Zenon DEF EvaluationInv, EvaluationTypes, Horizon
<1>7. /\ age["denial"] \in Nat /\ age["escalation"] \in Nat /\ age["vouched"] \in Nat /\ age["refused"] \in Nat
      /\ age'["denial"] \in Nat /\ age'["escalation"] \in Nat /\ age'["vouched"] \in Nat /\ age'["refused"] \in Nat
      /\ age'["denial"] <= age["denial"] + 1 /\ age'["escalation"] <= age["escalation"] + 1
      /\ age'["vouched"] <= age["vouched"] + 1 /\ age'["refused"] <= age["refused"] + 1
  BY <1>0, <1>3, Zenon DEF Events
<1>8. Chained'
  <2> SUFFICES ASSUME blocked'.left > 0
               PROVE  \/ blocked'.left + age'["denial"] <= BlockTTL
                      \/ blocked'.left + age'["escalation"] <= EscalationTTL
    BY Zenon DEF Chained
  <2>1. \/ blocked.left + age["denial"] <= BlockTTL
        \/ blocked.left + age["escalation"] <= EscalationTTL
    BY <1>4, Zenon DEF EvaluationInv, Chained
  <2> QED
    BY <1>0, <1>4, <1>7, <2>1, Horizons, SMT
<1>9. Confirmed'
  <2> SUFFICES ASSUME rdns'.left > 0
               PROVE  IF rdns'.verdict THEN rdns'.left + age'["vouched"] <= PositiveTTL + MaxLag
                      ELSE rdns'.left + age'["refused"] <= FailureTTL + MaxLag
    BY Zenon DEF Confirmed
  <2>1. IF rdns.verdict THEN rdns.left + age["vouched"] <= PositiveTTL + MaxLag
        ELSE rdns.left + age["refused"] <= FailureTTL + MaxLag
    BY <1>4, Zenon DEF EvaluationInv, Confirmed
  <2>2. CASE rdns.verdict
    <3>1. rdns'.left + age'["vouched"] <= PositiveTTL + MaxLag
      BY <1>0, <1>4, <1>7, <2>1, <2>2, Horizons, SMT
    <3> QED
      BY <1>1, <2>2, <3>1, Zenon
  <2>3. CASE ~rdns.verdict
    <3>1. rdns'.left + age'["refused"] <= FailureTTL + MaxLag
      BY <1>0, <1>4, <1>7, <2>1, <2>3, Horizons, SMT
    <3> QED
      BY <1>1, <2>3, <3>1, Zenon
  <2> QED
    BY <2>2, <2>3
<1>10. Answered'
  <2>1. ASSUME NEW t \in Threads, Storing(t)
        PROVE  \A n \in {age["vouched"], age["refused"]} : n <= lag[t] => n + 1 <= lag'[t]
    BY <1>0, <1>1, <1>7, <2>1, SMT
  <2>2. ASSUME NEW t \in Threads, pc[t] = "store yes" PROVE age'["vouched"] <= lag'[t]
    <3>1. age["vouched"] + 1 <= lag'[t]
      BY <2>1, <2>2, Zenon DEF Storing, EvaluationInv, Answered
    <3> QED
      BY <1>5, <1>7, <3>1, SMT
  <2>3. ASSUME NEW t \in Threads, pc[t] = "store no" PROVE age'["refused"] <= lag'[t]
    <3>1. age["refused"] + 1 <= lag'[t]
      BY <2>1, <2>3, Zenon DEF Storing, EvaluationInv, Answered
    <3> QED
      BY <1>5, <1>7, <3>1, SMT
  <2> QED
    BY <1>1, <1>3, <2>2, <2>3, Zenon DEF Answered
<1> QED
  BY <1>6, <1>8, <1>9, <1>10, Zenon DEF EvaluationInv

\* The DNS of the address changes: both answers are as of now.
LEMMA ChangeDnsStep ==
    ASSUME EvaluationInv, ChangeDns
    PROVE  EvaluationInv'
<1>0. /\ rdns.left \in Nat /\ lag \in [Threads -> Nat]
      /\ age \in [Events -> Nat] /\ \A e \in Events : age[e] <= Horizon[e]
  BY Zenon DEF EvaluationInv, EvaluationTypes
<1>1. /\ vouched' = ~vouched /\ blocked' = blocked /\ rdns' = rdns /\ pc' = pc /\ lag' = lag
  BY Zenon DEF ChangeDns
<1>2. /\ age' \in [Events -> Nat] /\ \A e \in Events : age'[e] <= Horizon[e]
      /\ age'["denial"] = age["denial"] /\ age'["escalation"] = age["escalation"]
      /\ age'["vouched"] = 0 /\ age'["refused"] = 0
  <2>1. age' = [[age EXCEPT !["vouched"] = 0] EXCEPT !["refused"] = 0]
    BY Zenon DEF ChangeDns
  <2> QED
    BY <1>0, <2>1, Horizons, SMT DEF Events
<1>3. EvaluationTypes'
  BY <1>0, <1>1, <1>2, Zenon DEF EvaluationInv, EvaluationTypes, Horizon
<1>4. Chained'
  BY <1>1, <1>2, Zenon DEF EvaluationInv, Chained
<1>5. Confirmed'
  <2>1. /\ rdns.left + age["vouched"] <= PositiveTTL + MaxLag => rdns.left + 0 <= PositiveTTL + MaxLag
        /\ rdns.left + age["refused"] <= FailureTTL + MaxLag => rdns.left + 0 <= FailureTTL + MaxLag
    BY <1>0, Horizons, SMT DEF Events
  <2> QED
    BY <1>1, <1>2, <2>1, Zenon DEF EvaluationInv, Confirmed
<1>6. Answered'
  <2>1. \A n \in Nat : 0 <= n
    BY SMT
  <2> QED
    BY <1>0, <1>1, <1>2, <2>1, Zenon DEF Answered
<1> QED
  BY <1>3, <1>4, <1>5, <1>6, Zenon DEF EvaluationInv

\* The invariant is inductive.
LEMMA EvaluationStep == EvaluationInv /\ [EvaluationNext]_evaluationVars => EvaluationInv'
<1> SUFFICES ASSUME EvaluationInv, [EvaluationNext]_evaluationVars PROVE EvaluationInv'
  OBVIOUS
<1>1. CASE UNCHANGED evaluationVars
  BY <1>1, Zenon DEF evaluationVars, EvaluationInv, EvaluationTypes, Chained, Answered, Confirmed, Horizon
<1> QED
  BY <1>1, ReadingStep, ResolveStep, StoreVerdictStep, DenialStep, ElapseStep, ChangeDnsStep, Zenon
  DEF EvaluationNext

\* A client is denied through the fast path only while a denial less than BlockTTL old, or
\* an escalation less than EscalationTTL old, stands behind the entry: for every number
\* of threads, every set of rules and every TTL.
THEOREM BlockRenewedOnly == EvaluationSpec => []StaleBlockChained
<1>1. EvaluationInv => StaleBlockChained
  <2> SUFFICES ASSUME EvaluationInv, blocked.left > 0 PROVE Recent("denial") \/ Recent("escalation")
    BY Zenon DEF StaleBlockChained
  <2>1. \/ blocked.left + age["denial"] <= BlockTTL
        \/ blocked.left + age["escalation"] <= EscalationTTL
    BY Zenon DEF EvaluationInv, Chained
  <2>2. blocked.left \in Nat /\ age["denial"] \in Nat /\ age["escalation"] \in Nat
    BY Zenon DEF EvaluationInv, EvaluationTypes, Events
  <2>3. age["denial"] < BlockTTL \/ age["escalation"] < EscalationTTL
    BY <2>1, <2>2, Horizons, SMT
  <2> QED
    BY <2>3, Horizons, Zenon DEF Recent
<1> QED
  BY EvaluationStart, EvaluationStep, <1>1, PTL DEF EvaluationSpec

\* A cached reverse-DNS verdict is used only if DNS gave that answer within its TTL and
\* the time a worker takes to store it: for every number of threads and every TTL.
THEOREM RdnsAnswerRecent == EvaluationSpec => []RdnsHorizon
<1>1. EvaluationInv => RdnsHorizon
  <2> SUFFICES ASSUME EvaluationInv, rdns.left > 0
               PROVE  Recent(IF rdns.verdict THEN "vouched" ELSE "refused")
    BY Zenon DEF RdnsHorizon
  <2>1. IF rdns.verdict THEN rdns.left + age["vouched"] <= PositiveTTL + MaxLag
        ELSE rdns.left + age["refused"] <= FailureTTL + MaxLag
    BY Zenon DEF EvaluationInv, Confirmed
  <2>2. rdns.left \in Nat /\ age["vouched"] \in Nat /\ age["refused"] \in Nat
    BY Zenon DEF EvaluationInv, EvaluationTypes, Events
  <2>3. CASE rdns.verdict
    <3>1. age["vouched"] < PositiveTTL + MaxLag
      BY <2>1, <2>2, <2>3, Horizons, SMT
    <3> QED
      BY <2>3, <3>1, Horizons, Zenon DEF Recent
  <2>4. CASE ~rdns.verdict
    <3>1. age["refused"] < FailureTTL + MaxLag
      BY <2>1, <2>2, <2>4, Horizons, SMT
    <3> QED
      BY <2>4, <3>1, Horizons, Zenon DEF Recent
  <2> QED
    BY <2>3, <2>4
<1> QED
  BY EvaluationStart, EvaluationStep, <1>1, PTL DEF EvaluationSpec

----------------------------------------------------------------------------
(* The gates *)

\* The history of the password is that of its cookie, and a cookie is no younger than
\* the login that earned it.
GatesInv ==
    /\ settings \in Settings /\ where \in Clients
    /\ proved = verified
    /\ trusted.age \in Nat /\ earned \in [Clients -> Nat]
    /\ trusted.ip \in Clients => earned[trusted.ip] <= trusted.age

\* Nobody has a cookie at first.
LEMMA GatesStart == GatesInit => GatesInv
<1> SUFFICES ASSUME GatesInit PROVE GatesInv
  OBVIOUS
<1>1. /\ settings \in Settings /\ where \in Clients /\ proved = verified
      /\ trusted.ip = where /\ trusted.age = MaxAge /\ earned = [a \in Clients |-> MaxAge]
  BY Zenon DEF GatesInit
<1>2. MaxAge \in Nat /\ MaxAge <= MaxAge
  BY GatesConstants, SMT
<1> QED
  BY <1>1, <1>2, Zenon DEF GatesInv

\* Growing older keeps an order.
LEMMA OlderMonotone ==
    ASSUME NEW m \in Nat, NEW n \in Nat
    PROVE  Older(n) \in Nat /\ (m <= n => Older(m) <= Older(n))
BY GatesConstants, SMT DEF Older

\* Only the correct password is answered with the cookie.
LEMMA VerifiedByPassword ==
    ASSUME NEW r, NEW ip, "verified" \in __call__(r, ip)
    PROVE  r.password = settings.password
<1>1. "verified" \notin {"passed"} /\ "verified" \notin {"not allowed"}
      /\ "verified" \notin Countries(ip) /\ "verified" \notin Evaluate(ip)
  BY Zenon DEF Countries, Evaluate
<1>2. "verified" \in _check_site_password(r)
  BY <1>1, Zenon DEF __call__
<1> QED
  BY <1>2, Zenon DEF _check_site_password, check_password

\* A visit: a login that earns the cookie is a login from the address it is bound to.
LEMMA VisitKeeps ==
    ASSUME GatesInv, NEW r, NEW ip, Visit(r, ip)
    PROVE  GatesInv'
<1>0. /\ settings \in Settings /\ where \in Clients /\ proved = verified
      /\ trusted.age \in Nat /\ earned \in [Clients -> Nat]
      /\ trusted.ip \in Clients => earned[trusted.ip] <= trusted.age
  BY Zenon DEF GatesInv
<1>1. PICK answer \in __call__(r, ip) :
         /\ verified' = IF answer = "verified" THEN 0 ELSE verified
         /\ proved' = IF answer = "verified" /\ r.password = settings.password THEN 0 ELSE proved
         /\ Login(r, ip) \/ UNCHANGED <<user, trusted, earned>>
  BY Zenon DEF Visit
<1>2. proved' = verified'
  BY <1>0, <1>1, VerifiedByPassword, Zenon
<1>3. CASE trusted' = trusted /\ earned' = earned
  BY <1>0, <1>2, <1>3, Zenon DEF GatesInv, Visit
<1>4. CASE /\ trusted' = [ip |-> ip, age |-> 0]
           /\ earned' = IF ip \in Clients THEN [earned EXCEPT ![ip] = 0] ELSE earned
  <2>1. trusted'.ip = ip /\ trusted'.age = 0
    BY <1>4, Zenon
  <2>2. 0 \in Nat /\ 0 <= 0
    BY SMT
  <2>3. earned' \in [Clients -> Nat] /\ (ip \in Clients => earned'[ip] = 0)
    BY <1>0, <1>4, <2>2, Zenon
  <2> QED
    BY <1>0, <1>2, <2>1, <2>2, <2>3, Zenon DEF GatesInv, Visit
<1> QED
  BY <1>1, <1>3, <1>4, Zenon DEF Login

\* The invariant is inductive.
LEMMA GatesStep == GatesInv /\ [GatesNext]_gateVars => GatesInv'
<1> SUFFICES ASSUME GatesInv, [GatesNext]_gateVars PROVE GatesInv'
  OBVIOUS
<1>1. ASSUME NEW r, NEW ip, Visit(r, ip) PROVE GatesInv'
  BY <1>1, VisitKeeps, Zenon
<1>2. CASE Age
  <2>1. /\ settings' = settings /\ where' = where /\ proved' = verified'
        /\ trusted'.ip = trusted.ip /\ trusted'.age = Older(trusted.age)
        /\ earned' = [a \in Clients |-> Older(earned[a])]
    BY <1>2, Zenon DEF Age, GatesInv
  <2>2. trusted.age \in Nat /\ \A a \in Clients : earned[a] \in Nat
    BY Zenon DEF GatesInv
  <2>3. trusted'.age \in Nat /\ earned' \in [Clients -> Nat]
    BY <2>1, <2>2, OlderMonotone, Zenon
  <2> QED
    BY <2>1, <2>2, <2>3, OlderMonotone, Zenon DEF GatesInv
<1>3. CASE Move \/ Deploy \/ UNCHANGED gateVars
  BY <1>3, Zenon DEF Move, Deploy, gateVars, GatesInv
<1> QED
  BY <1>1, <1>2, <1>3, Zenon DEF GatesNext

\* Without the legacy setting, a request is judged under its client's address, however it
\* arrives and whatever its client has written to the header.
LEMMA ResolvedToClient ==
    ASSUME where \in Clients, ~settings.legacy, NEW h \in Headers, NEW a \in Arrivals(h)
    PROVE  \/ resolve_client_ip(a.remote, a.header) = where
           \/ ~settings.socket /\ resolve_client_ip(a.remote, a.header) = NoIp
<1> DEFINE Named(hop) == _is_valid_ip(hop) /\ ~_is_trusted_proxy(hop)
<1>0. /\ where \in STRING /\ h \in Seq(STRING) /\ where # NoIp /\ Named(where)
      /\ where \notin Proxies /\ \A p \in Proxies : ~Named(p) /\ p \in STRING
  BY GatesConstants, Zenon DEF _is_valid_ip, _is_trusted_proxy
\* The last hop that counts, where it is known.
<1>1. ASSUME NEW s \in Seq(STRING), NEW k \in 1..Len(s), s[k] = where, \A j \in 1..Len(s) : j > k => ~Named(s[j])
      PROVE  _resolve_from_forwarded_chain(s) = where
  <2> DEFINE I == {j \in 1..Len(s) : Named(s[j])}
  <2>1. k \in I
    BY <1>0, <1>1, Zenon
  <2>2. \A j \in I : k >= j
    BY <1>1, SMT
  <2>3. \A x \in I : (\A y \in I : x >= y) => x = k
    BY <1>1, <2>1, <2>2, SMT
  <2>4. Max(I) = k
    BY <2>1, <2>2, <2>3, Zenon DEF Max
  <2>5. SelectLastInSeq(s, LAMBDA hop : _is_valid_ip(hop) /\ ~_is_trusted_proxy(hop)) = k
    BY <2>1, <2>4, Zenon DEF SelectLastInSeq
  <2>6. k # 0
    BY <1>1, SMT
  <2> QED
    BY <1>1, <2>5, <2>6, Zenon DEF _resolve_from_forwarded_chain
<1>2. _resolve_from_forwarded_chain(Append(h, where)) = where
  <2>1. /\ Append(h, where) \in Seq(STRING) /\ Len(h) + 1 \in 1..Len(Append(h, where))
        /\ Append(h, where)[Len(h) + 1] = where
        /\ \A j \in 1..Len(Append(h, where)) : ~(j > Len(h) + 1)
    BY <1>0, SMT
  <2> QED
    BY <1>1, <2>1, Zenon
<1>3. ASSUME NEW q \in Proxies PROVE _resolve_from_forwarded_chain(h \o <<where, q>>) = where
  <2> DEFINE s == h \o <<where, q>>
  <2>1. q \in STRING /\ <<where, q>> \in Seq(STRING) /\ Len(<<where, q>>) = 2
    BY <1>0, <1>3, SMT
  <2>2. /\ s \in Seq(STRING) /\ Len(h) + 1 \in 1..Len(s) /\ s[Len(h) + 1] = where
        /\ \A j \in 1..Len(s) : j > Len(h) + 1 => s[j] = q
    BY <1>0, <2>1, SMT
  <2> QED
    BY <1>0, <1>1, <1>3, <2>2, Zenon
<1>4. CASE a.remote = where
  BY <1>0, <1>4, Zenon DEF resolve_client_ip, _is_trusted_proxy
<1>5. CASE a.remote # where
  <2>1. /\ a.remote = NoIp \/ a.remote \in Proxies
        /\ a.header = Append(h, where) \/ \E q \in Proxies : a.header = h \o <<where, q>>
    <3>1. CASE a \in {[remote |-> where, header |-> h], [remote |-> NoIp, header |-> Append(h, where)]}
      <4>1. CASE a = [remote |-> where, header |-> h]
        BY <1>5, <4>1, Zenon
      <4>2. CASE a = [remote |-> NoIp, header |-> Append(h, where)]
        BY <4>2, Zenon
      <4> QED
        BY <3>1, <4>1, <4>2, Zenon
    <3>2. CASE a \in [remote : Proxies, header : {Append(h, where)} \cup {h \o <<where, q>> : q \in Proxies}]
      <4>1. a.remote \in Proxies /\ a.header \in {Append(h, where)} \cup {h \o <<where, q>> : q \in Proxies}
        BY <3>2, Zenon
      <4> QED
        BY <4>1, Zenon
    <3> QED
      BY <3>1, <3>2, Zenon DEF Arrivals
  <2>2. _resolve_from_forwarded_chain(a.header) = where
    BY <1>2, <1>3, <2>1, Zenon
  <2>3. CASE a.remote \in Proxies \/ settings.socket
    BY <1>0, <2>1, <2>2, <2>3, Zenon DEF resolve_client_ip, _is_trusted_proxy
  <2>4. CASE a.remote = NoIp /\ ~settings.socket
    BY <2>4, GatesConstants, Zenon DEF resolve_client_ip, _is_trusted_proxy
  <2> QED
    BY <2>1, <2>3, <2>4, Zenon
<1> QED
  BY <1>4, <1>5

\* Answers that go beyond the password gate.
LEMMA BeyondTheGate ==
    ASSUME NEW r, NEW ip, NEW answer \in __call__(r, ip), r.path \notin {"exempt", "open"},
           answer \notin {"prompt", "verified", "throttled"}
    PROVE  ~settings.gate \/ (settings.password # "" /\ has_valid_cookie)
<1>1. _check_site_password(r) = {"on"}
  <2>1. _check_site_password(r) \in {{"on"}, {"prompt"}, {"verified"}, {"throttled", "prompt"}}
    BY Zenon DEF _check_site_password
  <2> QED
    BY <2>1, Zenon DEF __call__
<1>2. /\ {"on"} # {"prompt"} /\ {"on"} # {"verified"} /\ {"on"} # {"throttled", "prompt"}
  BY Zenon
<1> QED
  BY <1>1, <1>2, Zenon DEF _check_site_password, is_misconfigured

\* Answers that skip the evaluation.
LEMMA BypassedByTrust ==
    ASSUME NEW r, NEW ip, "bypassed" \in __call__(r, ip)
    PROVE  _is_staff_user(ip)
<1>1. "bypassed" \notin _check_site_password(r) /\ "bypassed" \notin Countries(ip)
  BY Zenon DEF _check_site_password, Countries
<1>2. "bypassed" \in Evaluate(ip)
  BY <1>1, Zenon DEF __call__
<1> QED
  BY <1>2, Zenon DEF Evaluate

\* What other steps than visits leave behind.
LEMMA QuietAnswer == Quiet.path = "exempt" /\ Quiet.answer = "passed"
BY Zenon DEF Quiet

\* What a step that is a visit does, and that no other step is seen as one.
LEMMA SeenVisit ==
    ASSUME GatesInv, [GatesNext]_gateVars, last' # last, last' # Quiet
    PROVE  \E h \in Headers : \E a, r, ip, answer :
              /\ a \in Arrivals(h) /\ ip = resolve_client_ip(a.remote, a.header)
              /\ answer \in __call__(r, ip) /\ last' = [path |-> r.path, answer |-> answer, ip |-> ip]
<1>1. PICK ip \in {resolve_client_ip(a.remote, a.header) : a \in UNION {Arrivals(h) : h \in Headers}} :
         \E r \in Requests : Visit(r, ip)
  BY Zenon DEF GatesNext, Age, Move, Deploy, gateVars
<1>2. PICK a \in UNION {Arrivals(h) : h \in Headers} : ip = resolve_client_ip(a.remote, a.header)
  BY Zenon
<1>3. PICK h \in Headers : a \in Arrivals(h)
  BY Zenon
<1>4. PICK r \in Requests : Visit(r, ip)
  BY <1>1, Zenon
<1>5. \E answer \in __call__(r, ip) : last' = [path |-> r.path, answer |-> answer, ip |-> ip]
  BY <1>4, Zenon DEF Visit
<1> QED
  BY <1>2, <1>3, <1>5, Zenon

\* The password gate answers a request beyond it only if it is off, or the browser gave
\* a password within the current TTL: whatever the settings a deployment goes through.
THEOREM GateKept == GatesSpec => GateHolds
<1> DEFINE Holds ==
        last'.path \in {"verify", "page"} /\ last' # last
          /\ last'.answer \in {"passed", "not allowed", "forbidden", "bypassed", "evaluated"} =>
             ~settings.gate \/ (settings.password # "" /\ proved <= settings.gateTTL)
<1>1. GatesInv /\ [GatesNext]_gateVars => Holds
  <2> SUFFICES ASSUME GatesInv, [GatesNext]_gateVars, last' # last, last'.path \in {"verify", "page"},
                      last'.answer \in {"passed", "not allowed", "forbidden", "bypassed", "evaluated"}
               PROVE  ~settings.gate \/ (settings.password # "" /\ proved <= settings.gateTTL)
    OBVIOUS
  <2>1. last' # Quiet
    BY QuietAnswer, Zenon
  <2>2. PICK r, ip, answer : answer \in __call__(r, ip) /\ last' = [path |-> r.path, answer |-> answer, ip |-> ip]
    BY <2>1, SeenVisit, Zenon
  <2>3. last'.path = r.path /\ last'.answer = answer
    BY <2>2, Zenon
  <2>4. ~settings.gate \/ (settings.password # "" /\ has_valid_cookie)
    BY <2>2, <2>3, BeyondTheGate, Zenon
  <2> QED
    BY <2>4, Zenon DEF has_valid_cookie, GatesInv
<1> QED
  BY GatesStart, GatesStep, <1>1, PTL DEF GatesSpec, GateHolds

\* A trusted-user cookie lets a request skip the evaluation only where, and only for as
\* long as, a login that was to be trusted earned it.
THEOREM TrustKept == GatesSpec => TrustEarned
<1> DEFINE Holds ==
        last'.answer = "bypassed" /\ last' # last /\ last'.ip \in Clients =>
          (settings.userFirst /\ user = "staff") \/ (settings.trust /\ earned[last'.ip] <= settings.trustTTL)
<1>1. GatesInv /\ [GatesNext]_gateVars => Holds
  <2> SUFFICES ASSUME GatesInv, [GatesNext]_gateVars, last' # last, last'.answer = "bypassed", last'.ip \in Clients
               PROVE  (settings.userFirst /\ user = "staff") \/ (settings.trust /\ earned[last'.ip] <= settings.trustTTL)
    OBVIOUS
  <2>1. last' # Quiet
    BY QuietAnswer, Zenon
  <2>2. PICK r, ip, answer : answer \in __call__(r, ip) /\ last' = [path |-> r.path, answer |-> answer, ip |-> ip]
    BY <2>1, SeenVisit, Zenon
  <2>3. last'.ip = ip /\ last'.answer = answer
    BY <2>2, Zenon
  <2>4. _is_staff_user(ip)
    BY <2>2, <2>3, BypassedByTrust, Zenon
  <2>5. CASE settings.userFirst /\ user = "staff"
    BY <2>5
  <2>6. CASE has_valid_trusted_cookie(ip)
    <3>1. settings.trust /\ trusted.age <= settings.trustTTL /\ trusted.ip = ip
      BY <2>6, Zenon DEF has_valid_trusted_cookie
    <3>2. earned[ip] \in Nat /\ trusted.age \in Nat /\ settings.trustTTL \in Int /\ earned[ip] <= trusted.age
      BY <2>3, <3>1, GatesConstants, Zenon DEF GatesInv
    <3>3. earned[ip] <= settings.trustTTL
      BY <3>1, <3>2, SMT
    <3> QED
      BY <2>3, <3>1, <3>3, Zenon
  <2> QED
    BY <2>4, <2>5, <2>6, Zenon DEF _is_staff_user
<1> QED
  BY GatesStart, GatesStep, <1>1, PTL DEF GatesSpec, TrustEarned

\* A request is judged under the address of its client, whatever header the client sends
\* and however many proxies lie between, the legacy setting apart; or under none, where a
\* local socket is not trusted.
THEOREM AddressKept == GatesSpec => AddressTrue
<1> DEFINE Holds ==
        last' \notin {last, Quiet} =>
          settings.legacy \/ last'.ip = where \/ (~settings.socket /\ last'.ip = NoIp)
<1>1. GatesInv /\ [GatesNext]_gateVars => Holds
  <2> SUFFICES ASSUME GatesInv, [GatesNext]_gateVars, last' # last, last' # Quiet, ~settings.legacy
               PROVE  last'.ip = where \/ (~settings.socket /\ last'.ip = NoIp)
    BY Zenon
  <2>1. PICK h \in Headers : \E a, r, ip, answer :
            /\ a \in Arrivals(h) /\ ip = resolve_client_ip(a.remote, a.header)
            /\ last' = [path |-> r.path, answer |-> answer, ip |-> ip]
    BY SeenVisit, Zenon
  <2>2. PICK a, r, ip, answer :
            /\ a \in Arrivals(h) /\ ip = resolve_client_ip(a.remote, a.header)
            /\ last' = [path |-> r.path, answer |-> answer, ip |-> ip]
    BY <2>1, Zenon
  <2>3. \/ resolve_client_ip(a.remote, a.header) = where
        \/ ~settings.socket /\ resolve_client_ip(a.remote, a.header) = NoIp
    BY <2>2, ResolvedToClient, Zenon DEF GatesInv
  <2> QED
    BY <2>2, <2>3, Zenon
<1> QED
  BY GatesStart, GatesStep, <1>1, PTL DEF GatesSpec, AddressTrue

----------------------------------------------------------------------------
(* The sliding windows *)

LimiterTypes ==
    /\ time \in Nat /\ time <= MaxTime
    /\ stamps \in [Keys -> SUBSET Nat] /\ checked \in [Keys -> SUBSET Nat]
    /\ touched \in [Keys -> Nat] /\ promised \in [Keys -> Int]
    /\ now \in [Workers -> Nat] /\ \A t \in Workers : now[t] <= time
    /\ todo \in [Workers -> Seq(Limits)]

\* A sorted set holds stamps that were checked, none later than its last EXPIRE.
StampsInv(k) ==
    /\ stamps[k] \subseteq checked[k]
    /\ \A s \in stamps[k] : s <= touched[k]
    /\ touched[k] <= time /\ \A s \in checked[k] : s <= time

\* A stamp that a sorted set has lost had left the window of a request that was checked,
\* or had been there for longer than a key outlives its window.
Gone(l, s) ==
    (\E c \in checked[l.key] : s <= c - l.window) \/ s <= time - l.window - l.extra
LossesInv(l) == \A s \in checked[l.key] \ stamps[l.key] : Gone(l, s)

\* Until a second before the announced time, the stamps that the refusal counted are in
\* the window.
PromiseInv(l) ==
    promised[l.key] = 0 \/ \E K \in SUBSET checked[l.key] :
                             /\ Cardinality(K) > l.max
                             /\ \A s \in K : s + l.window + Second > promised[l.key]

LimiterInv ==
    /\ LimiterTypes /\ \A k \in Keys : StampsInv(k)
    /\ \A l \in Limits : LossesInv(l) /\ PromiseInv(l)

----------------------------------------------------------------------------
\* A set of natural numbers that is not empty has a least element.
LEMMA MinOfNats ==
    ASSUME NEW S \in SUBSET Nat, S # {}
    PROVE  Min(S) \in S /\ \A x \in S : Min(S) <= x
<1> DEFINE R == OpToRel(<, Nat)
<1>1. PICK m \in S : \A y \in S : <<y, m>> \notin R
  BY NatLessThanWellFounded, WFMin
<1>2. \A y \in S : m <= y
  <2>1. \A x, y \in Nat : x < y => <<x, y>> \in R
    BY Zenon DEF OpToRel
  <2>2. \A y \in S : ~(y < m)
    BY <1>1, <2>1, Zenon
  <2> QED
    BY <2>2, SMT
<1> QED
  BY <1>2, Zenon DEF Min

\* A subset of the times up to a bound is finite, and larger ones have no fewer members.
LEMMA FewerTimes ==
    ASSUME NEW S \in SUBSET Nat, NEW n \in Nat, \A s \in S : s <= n, NEW T \in SUBSET S
    PROVE  /\ Cardinality(S) \in Nat /\ Cardinality(T) \in Nat
           /\ Cardinality(T) <= Cardinality(S)
<1>1. S \subseteq 0..n
  BY SMT
<1>2. IsFiniteSet(0..n)
  BY FS_Interval, SMT
<1>3. IsFiniteSet(S)
  BY <1>1, <1>2, FS_Subset, Zenon
<1>4. IsFiniteSet(T) /\ Cardinality(T) <= Cardinality(S)
  BY <1>3, FS_Subset, Zenon
<1> QED
  BY <1>3, <1>4, FS_CardinalityType, Zenon

\* Every limit has a key, and figures.
LEMMA LimitFigures ==
    ASSUME NEW l \in Limits
    PROVE  l.key \in Keys /\ l.max \in Nat /\ l.window \in Nat /\ l.extra \in Nat
BY LimiterConstants, Zenon DEF Keys

\* The limit that governs a request is one of those that are configured.
LEMMA PathLimitType ==
    ASSUME NEW r \in Routes, NEW method
    PROVE  PathLimit(r.limits, method) \in Seq(Limits)
<1> DEFINE I == {i \in 1..Len(r.limits) : _entry_applies_to_method(r.limits[i], method)}
           i == SelectInSeq(r.limits, LAMBDA limit : _entry_applies_to_method(limit, method))
<1>1. r.limits \in Seq(Limits) /\ <<>> \in Seq(Limits)
  BY LimiterConstants, SMT
<1>2. CASE I = {}
  <2>1. i = 0
    BY <1>2, Zenon DEF SelectInSeq
  <2> QED
    BY <1>1, <2>1, Zenon DEF PathLimit
<1>3. CASE I # {}
  <2>1. i = Min(I)
    BY <1>3, Zenon DEF SelectInSeq
  <2>2. I \in SUBSET Nat
    BY SMT
  <2>3. i \in I
    BY <1>3, <2>1, <2>2, MinOfNats, Zenon
  <2> HIDE DEF i
  <2>4. r.limits[i] \in Limits /\ i # 0
    BY <1>1, <2>3, SMT
  <2>5. <<r.limits[i]>> \in Seq(Limits)
    BY <2>4, SMT
  <2> QED
    BY <2>4, <2>5, Zenon DEF PathLimit, i
<1> QED
  BY <1>2, <1>3

\* The limits that a thread has still to check.
LEMMA NextLimit ==
    ASSUME LimiterTypes, NEW t \in Workers, todo[t] # <<>>
    PROVE  Head(todo[t]) \in Limits /\ Tail(todo[t]) \in Seq(Limits)
<1>1. todo[t] \in Seq(Limits)
  BY Zenon DEF LimiterTypes
<1> QED
  BY <1>1, SMT

\* What a pipeline keeps of a window, and what it may lose.
LEMMA KeptStamps ==
    ASSUME LimiterInv, NEW t \in Workers, NEW l \in Limits
    PROVE  /\ now[t] \in Nat /\ now[t] <= time /\ time \in Nat
           /\ Kept(t, l) \in SUBSET Nat /\ Kept(t, l) \subseteq checked[l.key] \cup {now[t]}
           /\ \A s \in Kept(t, l) : s <= time /\ s > now[t] - l.window
           /\ \A s \in (checked[l.key] \cup {now[t]}) \ Kept(t, l) :
                 s \in Nat /\ (s <= now[t] - l.window \/ (s \in checked[l.key] /\ Gone(l, s)))
<1>1. /\ now[t] \in Nat /\ now[t] <= time /\ time \in Nat
      /\ l.key \in Keys /\ l.window \in Nat /\ l.extra \in Nat
      /\ stamps[l.key] \in SUBSET Nat /\ checked[l.key] \in SUBSET Nat /\ touched[l.key] \in Nat
  BY LimitFigures, Zenon DEF LimiterInv, LimiterTypes
<1>2. /\ stamps[l.key] \subseteq checked[l.key] /\ \A s \in stamps[l.key] : s <= touched[l.key]
      /\ touched[l.key] <= time /\ \A s \in checked[l.key] : s <= time
  BY <1>1, Zenon DEF LimiterInv, StampsInv
<1>3. Present(l) \subseteq stamps[l.key]
  BY Zenon DEF Present
<1>4. /\ Kept(t, l) \subseteq checked[l.key] \cup {now[t]}
      /\ \A s \in Kept(t, l) : s > now[t] - l.window
  BY <1>2, <1>3, Zenon DEF Kept
<1>5. ASSUME NEW s \in (checked[l.key] \cup {now[t]}) \ Kept(t, l)
      PROVE  s <= now[t] - l.window \/ (s \in checked[l.key] /\ Gone(l, s))
  <2>1. CASE s \in Present(l) \cup {now[t]}
    <3>1. s \in Nat /\ ~(s > now[t] - l.window)
      BY <1>1, <1>3, <2>1, <1>5, Zenon DEF Kept
    <3> QED
      BY <1>1, <3>1, SMT
  <2>2. CASE s \in stamps[l.key] /\ s \notin Present(l)
    <3>1. ~(time < touched[l.key] + l.window + l.extra)
      BY <2>2, Zenon DEF Present
    <3>2. s \in Nat /\ s <= touched[l.key]
      BY <1>1, <1>2, <2>2, Zenon
    <3>3. s <= time - l.window - l.extra
      BY <1>1, <3>1, <3>2, SMT
    <3> QED
      BY <1>2, <2>2, <3>3, Zenon DEF Gone
  <2>3. CASE s \in checked[l.key] \ stamps[l.key]
    BY <2>3, Zenon DEF LimiterInv, LossesInv
  <2> QED
    BY <1>5, <2>1, <2>2, <2>3, Zenon
<1>6. \A s \in checked[l.key] \cup {now[t]} : s \in Nat /\ s <= time
  BY <1>1, <1>2, Zenon
<1> QED
  BY <1>1, <1>4, <1>5, <1>6, Zenon

\* A pipeline keeps what its key's sorted set stands for.
LEMMA PipelineKeeps ==
    ASSUME LimiterInv, NEW t \in Workers, NEW l \in Limits, Pipeline(t, l)
    PROVE  /\ stamps' \in [Keys -> SUBSET Nat] /\ checked' \in [Keys -> SUBSET Nat]
           /\ touched' \in [Keys -> Nat] /\ time' = time
           /\ checked'[l.key] = checked[l.key] \cup {now[t]}
           /\ \A k \in Keys : checked[k] \subseteq checked'[k] /\ StampsInv(k)'
           /\ \A m \in Limits : LossesInv(m)'
<1> DEFINE key == l.key
<1>1. /\ key \in Keys /\ l.window \in Nat /\ l.extra \in Nat
      /\ now[t] \in Nat /\ now[t] <= time /\ time \in Nat
      /\ Kept(t, l) \in SUBSET Nat /\ Kept(t, l) \subseteq checked[key] \cup {now[t]}
      /\ \A s \in Kept(t, l) : s <= time
      /\ \A s \in (checked[key] \cup {now[t]}) \ Kept(t, l) :
            s \in Nat /\ (s <= now[t] - l.window \/ (s \in checked[key] /\ Gone(l, s)))
  BY KeptStamps, LimitFigures, Zenon
<1>2. /\ stamps \in [Keys -> SUBSET Nat] /\ checked \in [Keys -> SUBSET Nat] /\ touched \in [Keys -> Nat]
  BY Zenon DEF LimiterInv, LimiterTypes
<1>3. /\ stamps' = [stamps EXCEPT ![key] = Kept(t, l)] /\ touched' = [touched EXCEPT ![key] = time]
      /\ checked' = [checked EXCEPT ![key] = checked[key] \cup {now[t]}] /\ time' = time
  BY Zenon DEF Pipeline
<1> HIDE DEF key
<1>4. /\ stamps' \in [Keys -> SUBSET Nat] /\ checked' \in [Keys -> SUBSET Nat] /\ touched' \in [Keys -> Nat]
      /\ stamps'[key] = Kept(t, l) /\ checked'[key] = checked[key] \cup {now[t]} /\ touched'[key] = time
      /\ \A k \in Keys \ {key} : stamps'[k] = stamps[k] /\ checked'[k] = checked[k] /\ touched'[k] = touched[k]
  BY <1>1, <1>2, <1>3, Zenon
<1>5. time <= time
  BY <1>1, SMT
<1>6. ASSUME NEW k \in Keys PROVE checked[k] \subseteq checked'[k] /\ StampsInv(k)'
  <2>1. StampsInv(k)
    BY Zenon DEF LimiterInv
  <2>2. CASE k = key
    BY <1>1, <1>3, <1>4, <1>5, <2>1, <2>2, Zenon DEF StampsInv
  <2>3. CASE k # key
    BY <1>3, <1>4, <2>1, <2>3, Zenon DEF StampsInv
  <2> QED
    BY <2>2, <2>3
<1>7. ASSUME NEW m \in Limits PROVE LossesInv(m)'
  <2>0. m.key \in Keys /\ LossesInv(m)
    BY LimitFigures, Zenon DEF LimiterInv
  <2>1. CASE m.key # key
    BY <1>3, <1>4, <2>0, <2>1, Zenon DEF LossesInv, Gone
  <2>2. CASE m.key = key
    <3>1. m.window = l.window /\ m.extra = l.extra
      BY <2>2, LimiterConstants, Zenon DEF key
    <3> SUFFICES ASSUME NEW s \in checked'[key] \ stamps'[key]
                 PROVE  (\E c \in checked'[key] : s <= c - l.window) \/ s <= time - l.window - l.extra
      BY <1>3, <2>2, <3>1, Zenon DEF LossesInv, Gone
    <3>2. s <= now[t] - l.window \/ Gone(l, s)
      BY <1>1, <1>4, Zenon
    <3> QED
      BY <1>4, <3>2, Zenon DEF Gone, key
  <2> QED
    BY <2>1, <2>2
<1> QED
  BY <1>3, <1>4, <1>6, <1>7, Zenon DEF key

\* What remains of a thread's checks is well typed.
LEMMA ContinueType ==
    ASSUME LimiterInv, NEW t \in Workers, NEW rest \in Seq(Limits), Continue(t, rest), time' = time
    PROVE  /\ todo' \in [Workers -> Seq(Limits)] /\ now' \in [Workers -> Nat]
           /\ \A u \in Workers : now'[u] <= time'
<1>1. /\ todo \in [Workers -> Seq(Limits)] /\ now \in [Workers -> Nat] /\ time \in Nat
      /\ \A u \in Workers : now[u] <= time
  BY Zenon DEF LimiterInv, LimiterTypes
<1>2. todo' = [todo EXCEPT ![t] = rest] /\ \E n \in {0, now[t]} : now' = [now EXCEPT ![t] = n]
  BY Zenon DEF Continue
<1>3. 0 \in Nat /\ 0 <= time
  BY <1>1, SMT
<1>4. PICK n \in {0, now[t]} : now' = [now EXCEPT ![t] = n]
  BY <1>2, Zenon
<1>5. n \in Nat /\ n <= time
  BY <1>1, <1>3, Zenon
<1> QED
  BY <1>1, <1>2, <1>4, <1>5, Zenon

\* A request that passes keeps what was announced before.
LEMMA PassStep ==
    ASSUME LimiterInv, NEW t \in Workers, Pass(t)
    PROVE  LimiterInv'
<1> DEFINE l == Head(todo[t])
<1>1. l \in Limits /\ Tail(todo[t]) \in Seq(Limits)
  BY NextLimit, Zenon DEF LimiterInv, Pass
<1>2. Pipeline(t, l) /\ Continue(t, Tail(todo[t])) /\ promised' = promised
  BY Zenon DEF Pass
<1> HIDE DEF l
<1>3. /\ stamps' \in [Keys -> SUBSET Nat] /\ checked' \in [Keys -> SUBSET Nat]
      /\ touched' \in [Keys -> Nat] /\ time' = time
      /\ \A k \in Keys : checked[k] \subseteq checked'[k] /\ StampsInv(k)'
      /\ \A m \in Limits : LossesInv(m)'
  BY <1>1, <1>2, PipelineKeeps, Zenon
<1>4. LimiterTypes'
  BY <1>1, <1>2, <1>3, ContinueType, Zenon DEF LimiterInv, LimiterTypes
<1>5. \A m \in Limits : PromiseInv(m)'
  BY <1>2, <1>3, LimitFigures, Zenon DEF LimiterInv, PromiseInv
<1> QED
  BY <1>3, <1>4, <1>5, Zenon DEF LimiterInv

\* Retry-After announces no time that is a second after the oldest stamp that was counted
\* leaves the window: it is rounded down, and is one second only where less is left.
LEMMA RetryAfterClose ==
    ASSUME LimiterInv, NEW t \in Workers, NEW l \in Limits, Exceeded(t, l)
    PROVE  LET until == now[t] + _retry_after_from_oldest(Min(Kept(t, l)), l.window, now[t])
           IN  until \in Int /\ \A s \in Kept(t, l) : s + l.window + Second > until
<1> DEFINE oldest == Min(Kept(t, l))
           left == oldest + l.window - now[t]
           whole == left - (left % Second)
<1>1. /\ now[t] \in Nat /\ time \in Nat /\ l.window \in Nat /\ l.max \in Nat
      /\ Kept(t, l) \in SUBSET Nat /\ \A s \in Kept(t, l) : s > now[t] - l.window
  BY KeptStamps, LimitFigures, Zenon
<1>2. Kept(t, l) # {}
  <2>1. ~(0 > l.max)
    BY <1>1, SMT
  <2> QED
    BY <2>1, FS_EmptySet, Zenon DEF Exceeded
<1>3. oldest \in Kept(t, l) /\ \A s \in Kept(t, l) : oldest <= s
  BY <1>1, <1>2, MinOfNats, Zenon
<1>4. oldest \in Nat /\ oldest > now[t] - l.window
  BY <1>1, <1>3, Zenon
<1> HIDE DEF oldest
<1>5. left \in Nat /\ left >= 1 /\ now[t] + left = oldest + l.window
  BY <1>1, <1>4, SMT
<1>6. Second \in Nat /\ Second >= 1
  BY LimiterConstants, SMT
<1> HIDE DEF left
<1>7. whole \in Int /\ whole <= left
  BY <1>5, <1>6, SMT
<1> HIDE DEF whole
<1>8. Max({Second, whole}) \in {Second, whole}
  <2>1. CASE whole >= Second
    <3>1. \A y \in {Second, whole} : whole >= y
      BY <1>6, <1>7, <2>1, SMT
    <3> QED
      BY <3>1, Zenon DEF Max
  <2>2. CASE Second >= whole
    <3>1. \A y \in {Second, whole} : Second >= y
      BY <1>6, <1>7, <2>2, SMT
    <3> QED
      BY <3>1, Zenon DEF Max
  <2> QED
    BY <1>6, <1>7, <2>1, <2>2, SMT
<1>9. ASSUME NEW d \in {Second, whole}
      PROVE  now[t] + d \in Int /\ \A s \in Kept(t, l) : s + l.window + Second > now[t] + d
  <2>1. d \in Int /\ d < left + Second
    BY <1>5, <1>6, <1>7, <1>9, SMT
  <2> QED
    BY <1>1, <1>3, <1>4, <1>5, <1>6, <2>1, SMT
<1> QED
  BY <1>8, <1>9, Zenon DEF _retry_after_from_oldest, oldest, left, whole

\* A refusal announces a time until a second before which the stamps it counted are in
\* the window.
LEMMA RefuseStep ==
    ASSUME LimiterInv, NEW t \in Workers, Refuse(t)
    PROVE  LimiterInv'
<1> DEFINE l == Head(todo[t])
           until == now[t] + _retry_after_from_oldest(Min(Kept(t, l)), l.window, now[t])
<1>1. l \in Limits /\ l.key \in Keys /\ <<>> \in Seq(Limits)
  <2>1. <<>> \in Seq(Limits)
    BY SMT
  <2> QED
    BY <2>1, NextLimit, LimitFigures, Zenon DEF LimiterInv, Refuse
<1>2. /\ Exceeded(t, l) /\ Pipeline(t, l) /\ Continue(t, <<>>)
      /\ promised' = [promised EXCEPT ![l.key] = until]
  BY Zenon DEF Refuse
<1>3. until \in Int /\ \A s \in Kept(t, l) : s + l.window + Second > until
  BY <1>1, <1>2, RetryAfterClose, Zenon
<1> HIDE DEF until, l
<1>4. /\ stamps' \in [Keys -> SUBSET Nat] /\ checked' \in [Keys -> SUBSET Nat]
      /\ touched' \in [Keys -> Nat] /\ time' = time
      /\ checked'[l.key] = checked[l.key] \cup {now[t]}
      /\ \A k \in Keys : checked[k] \subseteq checked'[k] /\ StampsInv(k)'
      /\ \A m \in Limits : LossesInv(m)'
  BY <1>1, <1>2, PipelineKeeps, Zenon
<1>5. promised \in [Keys -> Int]
  BY Zenon DEF LimiterInv, LimiterTypes
<1>6. /\ promised' \in [Keys -> Int] /\ promised'[l.key] = until
      /\ \A k \in Keys \ {l.key} : promised'[k] = promised[k]
  BY <1>1, <1>2, <1>3, <1>5, Zenon
<1>7. LimiterTypes'
  BY <1>1, <1>2, <1>4, <1>6, ContinueType, Zenon DEF LimiterInv, LimiterTypes
<1>8. ASSUME NEW m \in Limits PROVE PromiseInv(m)'
  <2>0. m.key \in Keys /\ PromiseInv(m)
    BY LimitFigures, Zenon DEF LimiterInv
  <2>1. CASE m.key # l.key
    BY <1>4, <1>6, <2>0, <2>1, Zenon DEF PromiseInv
  <2>2. CASE m.key = l.key
    <3>1. m.max = l.max /\ m.window = l.window
      BY <1>1, <2>2, LimiterConstants, Zenon
    <3>2. Kept(t, l) \in SUBSET (checked'[l.key]) /\ Cardinality(Kept(t, l)) > l.max
      BY <1>1, <1>2, <1>4, KeptStamps, Zenon DEF Exceeded
    <3> QED
      BY <1>3, <1>6, <2>2, <3>1, <3>2, Zenon DEF PromiseInv
  <2> QED
    BY <2>1, <2>2
<1> QED
  BY <1>4, <1>7, <1>8, Zenon DEF LimiterInv

\* Steps that count nothing.
LEMMA UncountedStep ==
    ASSUME LimiterInv, stamps' = stamps, touched' = touched, checked' = checked, promised' = promised,
           time' \in Nat, time <= time', time' <= MaxTime,
           now' \in [Workers -> Nat], \A t \in Workers : now'[t] <= time', todo' \in [Workers -> Seq(Limits)]
    PROVE  LimiterInv'
<1>1. LimiterTypes'
  BY Zenon DEF LimiterInv, LimiterTypes
<1>2. time \in Nat /\ \A k \in Keys : touched[k] \in Nat /\ checked[k] \in SUBSET Nat
  BY Zenon DEF LimiterInv, LimiterTypes
<1>3. \A n \in Nat : n <= time => n <= time'
  BY <1>2, SMT
<1>4. ASSUME NEW k \in Keys PROVE StampsInv(k)'
  BY <1>2, <1>3, Zenon DEF LimiterInv, StampsInv
<1>5. ASSUME NEW l \in Limits PROVE LossesInv(l)' /\ PromiseInv(l)'
  <2>1. l.key \in Keys /\ l.window \in Nat /\ l.extra \in Nat /\ LossesInv(l) /\ PromiseInv(l)
    BY LimitFigures, Zenon DEF LimiterInv
  <2>2. \A n \in Nat : n <= time - l.window - l.extra => n <= time' - l.window - l.extra
    BY <1>2, <2>1, SMT
  <2> QED
    BY <1>2, <2>1, <2>2, Zenon DEF LossesInv, Gone, PromiseInv
<1> QED
  BY <1>1, <1>4, <1>5, Zenon DEF LimiterInv

\* Nothing has been counted at first.
LEMMA LimiterStart == LimiterInit => LimiterInv
<1> SUFFICES ASSUME LimiterInit PROVE LimiterInv
  OBVIOUS
<1>1. 0 \in Nat /\ 0 \in Int /\ 0 <= 0 /\ 0 <= MaxTime /\ <<>> \in Seq(Limits)
  BY LimiterConstants, SMT
<1>2. LimiterTypes
  BY <1>1, Zenon DEF LimiterInit, LimiterTypes
<1>3. \A k \in Keys : StampsInv(k)
  BY <1>1, Zenon DEF LimiterInit, StampsInv
<1>4. \A l \in Limits : LossesInv(l) /\ PromiseInv(l)
  BY LimitFigures, Zenon DEF LimiterInit, LossesInv, PromiseInv
<1> QED
  BY <1>2, <1>3, <1>4, Zenon DEF LimiterInv

\* The invariant is inductive.
LEMMA LimiterStep == LimiterInv /\ [LimiterNext]_limiterVars => LimiterInv'
<1> SUFFICES ASSUME LimiterInv, [LimiterNext]_limiterVars PROVE LimiterInv'
  OBVIOUS
<1>0. /\ time \in Nat /\ time <= MaxTime /\ time <= time /\ <<>> \in Seq(Limits)
      /\ now \in [Workers -> Nat] /\ \A t \in Workers : now[t] <= time
      /\ todo \in [Workers -> Seq(Limits)]
  <2>1. /\ time \in Nat /\ time <= MaxTime /\ now \in [Workers -> Nat]
        /\ \A t \in Workers : now[t] <= time /\ todo \in [Workers -> Seq(Limits)]
        /\ todo \in [Workers -> Seq(Limits)]
    BY Zenon DEF LimiterInv, LimiterTypes
  <2>2. time <= time /\ <<>> \in Seq(Limits)
    BY <2>1, SMT
  <2> QED
    BY <2>1, <2>2, Zenon
<1>1. ASSUME NEW t \in Workers, NEW limits \in Seq(Limits), Start(t, limits) PROVE LimiterInv'
  <2>1. /\ stamps' = stamps /\ touched' = touched /\ checked' = checked /\ promised' = promised /\ time' = time
        /\ now' = [now EXCEPT ![t] = time] /\ todo' = [todo EXCEPT ![t] = limits]
    BY <1>1, Zenon DEF Start
  <2>2. /\ now' \in [Workers -> Nat] /\ \A u \in Workers : now'[u] <= time
        /\ todo' \in [Workers -> Seq(Limits)]
    BY <1>0, <1>1, <2>1, Zenon
  <2> QED
    BY <1>0, <2>1, <2>2, UncountedStep, Zenon
<1>2. ASSUME NEW t \in Workers, NEW r \in Routes, check_rate_limit(t, r) PROVE LimiterInv'
  <2>1. PathLimit(r.limits, r.method) \in Seq(Limits) /\ Windows \in Seq(Limits)
    BY PathLimitType, LimiterConstants, Zenon
  <2>2. PathLimit(r.limits, r.method) \o Windows \in Seq(Limits)
    BY <2>1, SMT
  <2> QED
    BY <1>1, <1>2, <2>2, Zenon DEF check_rate_limit
<1>3. ASSUME NEW t \in Workers, check_verify_rate_limit(t) PROVE LimiterInv'
  <2>1. Verify \in Limits
    BY Zenon DEF Limits
  <2>2. <<Verify>> \in Seq(Limits)
    BY <2>1, SMT
  <2> QED
    BY <1>1, <1>3, <2>2, Zenon DEF check_verify_rate_limit
<1>4. ASSUME NEW t \in Workers, Fail(t) PROVE LimiterInv'
  <2>1. /\ stamps' = stamps /\ touched' = touched /\ checked' = checked /\ promised' = promised /\ time' = time
        /\ Continue(t, <<>>)
    BY <1>4, Zenon DEF Fail
  <2>2. /\ now' \in [Workers -> Nat] /\ \A u \in Workers : now'[u] <= time'
        /\ todo' \in [Workers -> Seq(Limits)]
    BY <1>0, <2>1, ContinueType, Zenon
  <2> QED
    BY <1>0, <2>1, <2>2, UncountedStep, Zenon
<1>5. CASE Tick
  <2>1. /\ stamps' = stamps /\ touched' = touched /\ checked' = checked /\ promised' = promised
        /\ now' = now /\ todo' = todo /\ time' = time + 1 /\ time < MaxTime
    BY <1>5, Zenon DEF Tick
  <2>2. /\ time' \in Nat /\ time <= time' /\ time' <= MaxTime /\ \A u \in Workers : now'[u] <= time'
    BY <1>0, <2>1, LimiterConstants, SMT
  <2> QED
    BY <1>0, <2>1, <2>2, UncountedStep, Zenon
<1>6. CASE UNCHANGED limiterVars
  BY <1>0, <1>6, UncountedStep, Zenon DEF limiterVars
<1> QED
  BY <1>2, <1>3, <1>4, <1>5, <1>6, PassStep, RefuseStep, Zenon DEF LimiterNext

\* A refusal counts more instants than its window allows.
LEMMA RefusedRightly ==
    ASSUME LimiterInv, NEW t \in Workers, Refuse(t)
    PROVE  LET l == Head(todo[t])
           IN  Cardinality(Within(l.key, now[t] - l.window, time)) > l.max
<1> DEFINE l == Head(todo[t])
           W == Within(l.key, now[t] - l.window, time)
<1>1. l \in Limits /\ Exceeded(t, l) /\ Pipeline(t, l)
  BY NextLimit, Zenon DEF LimiterInv, Refuse
<1> HIDE DEF l
<1>2. /\ checked'[l.key] = checked[l.key] \cup {now[t]} /\ checked' \in [Keys -> SUBSET Nat]
      /\ Kept(t, l) \subseteq checked[l.key] \cup {now[t]}
      /\ \A s \in Kept(t, l) : s <= time /\ s > now[t] - l.window
      /\ Kept(t, l) \in SUBSET Nat /\ now[t] \in Nat /\ time \in Nat /\ l.key \in Keys /\ l.max \in Nat
      /\ l.window \in Nat
  BY <1>1, PipelineKeeps, KeptStamps, LimitFigures, Zenon
<1>3. Kept(t, l) \in SUBSET W
  <2>1. \A s \in Kept(t, l) : now[t] - l.window < s /\ s <= time /\ s \in checked'[l.key]
    BY <1>2, SMT
  <2> QED
    BY <2>1, Zenon DEF Within
<1>4. W \in SUBSET Nat /\ \A s \in W : s <= time
  BY <1>2, Zenon DEF Within
<1>5. Cardinality(W) \in Nat /\ Cardinality(Kept(t, l)) \in Nat /\ Cardinality(Kept(t, l)) <= Cardinality(W)
  BY <1>2, <1>3, <1>4, FewerTimes, Zenon
<1>6. Cardinality(Kept(t, l)) > l.max
  BY <1>1, Zenon DEF Exceeded
<1>7. Cardinality(W) > l.max
  BY <1>2, <1>5, <1>6, SMT
<1> QED
  BY <1>7, Zenon DEF l

\* A request in turn that passes is within its limit, and less than a second early.
LEMMA PassedRightly ==
    ASSUME LimiterInv, NEW t \in Workers, Pass(t), Prompt(t, Head(todo[t]))
    PROVE  LET l == Head(todo[t])
           IN  /\ Cardinality(Within(l.key, now[t] - l.window, now[t])) <= l.max
               /\ now[t] + Second > promised[l.key]
<1> DEFINE l == Head(todo[t])
           W == Within(l.key, now[t] - l.window, now[t])
<1>1. l \in Limits /\ ~Exceeded(t, l) /\ Pipeline(t, l) /\ Prompt(t, l)
  BY NextLimit, Zenon DEF LimiterInv, Pass
<1> HIDE DEF l
<1>2. /\ checked'[l.key] = checked[l.key] \cup {now[t]} /\ checked' \in [Keys -> SUBSET Nat]
      /\ Kept(t, l) \in SUBSET Nat /\ now[t] \in Nat /\ time \in Nat /\ l.key \in Keys /\ l.max \in Nat
      /\ l.window \in Nat /\ l.extra \in Nat
      /\ \A s \in Kept(t, l) : s <= time
      /\ \A s \in (checked[l.key] \cup {now[t]}) \ Kept(t, l) :
            s \in Nat /\ (s <= now[t] - l.window \/ (s \in checked[l.key] /\ Gone(l, s)))
  BY <1>1, PipelineKeeps, KeptStamps, LimitFigures, Zenon
<1>3. time < now[t] + l.extra /\ \A s \in checked[l.key] : s <= now[t]
  BY <1>1, Zenon DEF Prompt
<1>4. checked[l.key] \in SUBSET Nat /\ promised[l.key] \in Int
  BY <1>2, Zenon DEF LimiterInv, LimiterTypes
<1>5. W \in SUBSET Kept(t, l)
  <2> SUFFICES ASSUME NEW s \in checked[l.key] \cup {now[t]}, now[t] - l.window < s, s \notin Kept(t, l)
               PROVE  FALSE
    BY <1>2, Zenon DEF Within
  <2>1. s \in Nat /\ (s <= now[t] - l.window \/ Gone(l, s))
    BY <1>2, Zenon
  <2>2. CASE s <= now[t] - l.window
    BY <1>2, <2>1, <2>2, SMT
  <2>3. ASSUME NEW c \in checked[l.key], s <= c - l.window PROVE FALSE
    BY <1>2, <1>3, <1>4, <2>1, <2>3, SMT
  <2>4. CASE s <= time - l.window - l.extra
    BY <1>2, <1>3, <2>1, <2>4, SMT
  <2> QED
    BY <2>1, <2>2, <2>3, <2>4, Zenon DEF Gone
<1>6. Cardinality(W) \in Nat /\ Cardinality(Kept(t, l)) \in Nat /\ Cardinality(W) <= Cardinality(Kept(t, l))
  BY <1>2, <1>5, FewerTimes, Zenon
<1>7. Cardinality(W) <= l.max
  <2>1. ~(Cardinality(Kept(t, l)) > l.max)
    BY <1>1, Zenon DEF Exceeded
  <2> QED
    BY <1>2, <1>6, <2>1, SMT
<1>8. Second \in Nat /\ Second >= 1
  BY LimiterConstants, SMT
<1>9. now[t] + Second > promised[l.key]
  <2> SUFFICES ASSUME promised[l.key] # 0, now[t] + Second <= promised[l.key] PROVE FALSE
    BY <1>2, <1>4, <1>8, SMT
  <2>1. PICK K \in SUBSET checked[l.key] :
            Cardinality(K) > l.max /\ \A s \in K : s + l.window + Second > promised[l.key]
    BY <1>1, Zenon DEF LimiterInv, PromiseInv
  <2>2. \A s \in K : now[t] - l.window < s /\ s <= now[t]
    BY <1>2, <1>3, <1>4, <1>8, <2>1, SMTT(60)
  <2>3. K \in SUBSET W
    BY <1>2, <2>2, Zenon DEF Within
  <2>4. W \in SUBSET Nat /\ \A s \in W : s <= now[t]
    BY <1>2, Zenon DEF Within
  <2>5. Cardinality(K) \in Nat /\ Cardinality(K) <= Cardinality(W)
    BY <1>2, <2>3, <2>4, FewerTimes, Zenon
  <2> QED
    BY <1>2, <1>6, <1>7, <2>1, <2>5, SMTT(60)
<1> QED
  BY <1>7, <1>9, Zenon DEF l

\* The sliding windows count exactly what they should, and a request in turn that passes
\* is less than a second earlier than Retry-After announced: for every set of limits, every
\* resolution of the clock, every number of threads and however they are held up between
\* the clock and the pipeline.
THEOREM LimiterCountsExactly == LimiterSpec => LimiterExact
<1> DEFINE Exact ==
        \A t \in Workers :
          LET l == Head(todo[t])
              since == now[t] - l.window
          IN /\ Refuse(t) => Cardinality(Within(l.key, since, time)) > l.max
             /\ Pass(t) /\ Prompt(t, l) =>
                   /\ Cardinality(Within(l.key, since, now[t])) <= l.max
                   /\ now[t] + Second > promised[l.key]
<1>1. LimiterInv /\ [LimiterNext]_limiterVars => Exact
  BY RefusedRightly, PassedRightly, Zenon
<1> QED
  BY LimiterStart, LimiterStep, <1>1, PTL DEF LimiterSpec, LimiterExact
============================================================================
