----------------------------- MODULE Evaluation -----------------------------
(***************************************************************************)
(* evaluate_request and the handling of its verdict, for the requests of   *)
(* one client address: allow rules with reverse DNS, the blocked-IP fast   *)
(* path, block rules, scores, and the fast-path entry that a denial leaves *)
(* behind.                                                                 *)
(*                                                                         *)
(* What other modules model is an input here: which rules the cached set   *)
(* holds (RuleCache), whether a limit is exceeded (RateLimiter), and       *)
(* whether a challenge escalates (Traffic) and what becomes of its rule    *)
(* (AutoRule).  Keys keep the time they have left to live.                 *)
(***************************************************************************)
EXTENDS Integers, Sequences, SequencesExt

CONSTANTS
    Threads,
    BlockRules,    \* by priority: id, action
    Escalation,    \* the one that an escalation creates
    BlockTTL, EscalationTTL,  \* of record_block_verdict, DJANGO_WAF_ESCALATION_BLOCK_TTL
    PositiveTTL, FailureTTL,  \* _FCRDNS_POSITIVE_CACHE_TTL, DJANGO_WAF_RDNS_FAILURE_CACHE_TTL
    Scores, UaScores,         \* what path and headers score, and the User-Agent
    ChallengeScore, BlockScore,  \* DJANGO_WAF_SCORE_THRESHOLD_*
    MaxLag,        \* bound: how long a worker takes from DNS's answer to its SETEX
    Faults         \* {"redis"} when Redis commands may fail

\* Times to live, and how long a worker takes, are whole seconds.
ASSUME EvaluationConstants ==
    {BlockTTL, EscalationTTL, PositiveTTL, FailureTTL, MaxLag} \subseteq Nat

VARIABLES
    vouched,  \* what _resolve_and_confirm_rdns finds out now
    blocked,  \* waf:blocked:{ip}: the rule it names ("1" for none) and its time to live
    rdns,     \* the FCrDNS verdict cached for the address and its time to live
    pc, rule, \* of each thread: its step and the rule its denial names
    lag,      \* of each thread: for how long it has had DNS's answer
    age       \* history: how long ago things last happened, up to Horizon

evaluationVars == <<vouched, blocked, rdns, pc, rule, lag, age>>

Horizon ==
    [denial |-> BlockTTL, escalation |-> EscalationTTL,
     vouched |-> PositiveTTL + MaxLag, refused |-> FailureTTL + MaxLag]
RuleNames == {BlockRules[i].id : i \in DOMAIN BlockRules} \cup {"1"}
Steps == {"idle", "resolve", "store yes", "store no", "fast", "match", "gate", "deny"}

EvaluationTypeOK ==
    /\ vouched \in BOOLEAN
    /\ blocked \in [rule : RuleNames, left : 0..EscalationTTL]
    /\ rdns \in [verdict : BOOLEAN, left : 0..PositiveTTL]
    /\ pc \in [Threads -> Steps] /\ rule \in [Threads -> RuleNames] /\ lag \in [Threads -> 0..MaxLag]
    /\ \A t \in Threads : rule[t] # "1" => pc[t] = "deny"
    /\ DOMAIN age = DOMAIN Horizon /\ \A e \in DOMAIN age : age[e] \in 0..Horizon[e]

EvaluationInit ==
    /\ vouched \in BOOLEAN
    /\ blocked = [rule |-> "1", left |-> 0] /\ rdns = [verdict |-> FALSE, left |-> 0]
    /\ pc = [t \in Threads |-> "idle"] /\ rule = [t \in Threads |-> "1"]
    /\ lag = [t \in Threads |-> 0]
    /\ age = [e \in DOMAIN Horizon |->
                 IF e = (IF vouched THEN "vouched" ELSE "refused") THEN 0 ELSE Horizon[e]]

At(t, step) == pc[t] = step
Go(t, step) == pc' = [pc EXCEPT ![t] = step]
RedisFails == "redis" \in Faults

----------------------------------------------------------------------------
(* evaluate_request *)

\* _check_allow_rules, where an allow rule that wants reverse DNS may fit the request,
\* and the GET of _verify_rdns.
Request(t) ==
    /\ At(t, "idle")
    /\ \/ Go(t, "fast")
       \/ Go(t, IF rdns.left = 0 THEN "resolve" ELSE IF rdns.verdict THEN "idle" ELSE "fast")
    /\ UNCHANGED <<vouched, blocked, rdns, rule, lag, age>>

_resolve_and_confirm_rdns(t) ==
    /\ At(t, "resolve")
    /\ Go(t, IF vouched THEN "store yes" ELSE "store no")
    /\ UNCHANGED <<vouched, blocked, rdns, rule, lag, age>>

\* Mutant: both verdicts are kept as long as a positive one.
OneTTL(verdict) == PositiveTTL

VerdictTTL(verdict) == IF verdict THEN PositiveTTL ELSE FailureTTL

\* The SETEX of _verify_rdns.
StoreVerdict(t) ==
    /\ pc[t] \in {"store yes", "store no"}
    /\ LET verdict == At(t, "store yes")
       IN /\ rdns' = [verdict |-> verdict, left |-> VerdictTTL(verdict)]
          /\ Go(t, IF verdict THEN "idle" ELSE "fast")
    /\ lag' = [lag EXCEPT ![t] = 0]
    /\ UNCHANGED <<vouched, blocked, rule, age>>

\* GET waf:blocked:{ip}
FastPath(t) ==
    /\ At(t, "fast")
    /\ IF blocked.left > 0
       THEN Go(t, "deny") /\ rule' = [rule EXCEPT ![t] = blocked.rule]
       ELSE Go(t, "match") /\ UNCHANGED rule
    /\ UNCHANGED <<vouched, blocked, rdns, lag, age>>

\* What a matched rule leads to; an action that is not known denies.
_action_to_verdict(r) ==
    CASE r.action = "challenge" -> [step |-> "gate", rule |-> "1"]
      [] r.action \in {"throttle", "log_only"} -> [step |-> "idle", rule |-> "1"]
      [] OTHER -> [step |-> "deny", rule |-> r.id]

_score_to_verdict(score) ==
    IF score >= BlockScore THEN "deny" ELSE IF score >= ChallengeScore THEN "gate" ELSE "idle"

\* Of the rules that fit the request and have not expired, the first decides.
MatchRules(t) ==
    /\ At(t, "match")
    /\ \E fitting \in SUBSET RuleNames :
          LET i == SelectInSeq(BlockRules, LAMBDA r : r.id \in fitting)
              verdict == _action_to_verdict(BlockRules[i])
          IN /\ i # 0
             /\ Go(t, verdict.step) /\ rule' = [rule EXCEPT ![t] = verdict.rule]
    /\ UNCHANGED <<vouched, blocked, rdns, lag, age>>

\* No rule fits: a rate limit is exceeded, the request is challenged for its missing
\* Referer, or it is scored, the User-Agent of a busy address included.
Score(t) ==
    /\ At(t, "match")
    /\ \/ Go(t, "idle")
       \/ Go(t, "gate")
       \/ \E score \in Scores, ua \in UaScores \cup {0} : Go(t, _score_to_verdict(score + ua))
    /\ UNCHANGED <<vouched, blocked, rdns, rule, lag, age>>

----------------------------------------------------------------------------
(* _gate_challenge_or_escalate, _handle_verdict and record_block_verdict *)

\* Mutant: an entry lasts as long as an escalation, whatever it is for.
BlockForLong(id, ttl) == [rule |-> id, left |-> EscalationTTL]

record_block_verdict(id, ttl) == [rule |-> id, left |-> ttl]

\* The entry names the rule of the escalation, the denial does not.
Escalate(t) ==
    /\ At(t, "gate")
    /\ \/ Go(t, "idle") /\ UNCHANGED <<blocked, age>>
       \/ /\ Go(t, "deny")
          /\ \E id \in {Escalation, "1"} : blocked' = record_block_verdict(id, EscalationTTL)
          /\ age' = [age EXCEPT !.escalation = 0]
    /\ UNCHANGED <<vouched, rdns, rule, lag>>

\* _handle_verdict records every denial, those of the fast path included.
Deny(t) ==
    /\ At(t, "deny") /\ Go(t, "idle")
    /\ \/ /\ blocked' = record_block_verdict(rule[t], BlockTTL)
          /\ age' = [age EXCEPT !.denial = 0]
       \/ RedisFails /\ UNCHANGED <<blocked, age>>
    /\ rule' = [rule EXCEPT ![t] = "1"]
    /\ UNCHANGED <<vouched, rdns, lag>>

\* A Redis command that raises fails the evaluation open.
FailOpen(t) ==
    /\ RedisFails /\ pc[t] \notin {"idle", "deny"} /\ Go(t, "idle")
    /\ lag' = [lag EXCEPT ![t] = 0]
    /\ UNCHANGED <<vouched, blocked, rdns, rule, age>>

----------------------------------------------------------------------------
Storing(t) == pc[t] \in {"store yes", "store no"}
Less(n) == IF n = 0 THEN 0 ELSE n - 1

Elapse ==
    /\ \A t \in Threads : Storing(t) => lag[t] < MaxLag
    /\ lag' = [t \in Threads |-> IF Storing(t) THEN lag[t] + 1 ELSE 0]
    /\ blocked' = [rule |-> blocked.rule, left |-> Less(blocked.left)]
    /\ rdns' = [verdict |-> rdns.verdict, left |-> Less(rdns.left)]
    /\ age' = [e \in DOMAIN age |->
                  IF e = (IF vouched THEN "vouched" ELSE "refused") THEN 0
                  ELSE IF age[e] = Horizon[e] THEN age[e] ELSE age[e] + 1]
    /\ UNCHANGED <<vouched, pc, rule>>

\* The DNS of the address changes, or its resolver fails or recovers.
ChangeDns ==
    /\ vouched' = ~vouched
    /\ age' = [age EXCEPT !.vouched = 0, !.refused = 0]
    /\ UNCHANGED <<blocked, rdns, pc, rule, lag>>

EvaluationNext ==
    \/ \E t \in Threads :
          \/ Request(t) \/ _resolve_and_confirm_rdns(t) \/ StoreVerdict(t) \/ FastPath(t)
          \/ MatchRules(t) \/ Score(t) \/ Escalate(t) \/ Deny(t) \/ FailOpen(t)
    \/ Elapse \/ ChangeDns

EvaluationSpec == EvaluationInit /\ [][EvaluationNext]_evaluationVars

----------------------------------------------------------------------------
(* Properties *)

\* What happened less than the horizon ago.
Recent(e) == age[e] < Horizon[e]

\* A live entry of the fast path goes back to a denial that was recorded less than
\* BlockTTL ago, or to an escalation less than EscalationTTL ago: a client whose rule
\* is gone is judged by the current rules after a pause of that length.  It must
\* pause, for every denial renews the entry.
StaleBlockChained == blocked.left > 0 => Recent("denial") \/ Recent("escalation")

\* A crawler is let through only if DNS vouched for its address within the time
\* positive verdicts are kept, and refused only if DNS failed to within the much
\* shorter time negative ones are, give or take the time an answer takes to be stored:
\* a resolver outage costs a crawler no more than that.
RdnsHorizon == rdns.left > 0 => Recent(IF rdns.verdict THEN "vouched" ELSE "refused")
=============================================================================
