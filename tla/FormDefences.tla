---------------------------- MODULE FormDefences ----------------------------
(***************************************************************************)
(* The defences of a protected form, each a function of one submission,    *)
(* and how FormProtection turns their outcomes into a verdict.             *)
(*                                                                         *)
(* Scores are in half points.  Times are in ticks of a clock coarse enough *)
(* to tell the thresholds of the code apart.  A hidden field holds the     *)
(* nonce its value was derived from; "" is a missing or empty field.       *)
(***************************************************************************)
EXTENDS Integers, Sequences, SequencesExt

CONSTANTS
    TooFast,         \* _TOO_FAST_THRESHOLD_SECONDS
    MinFill,         \* DJANGO_WAF_FORM_TIME_TRAP_MIN_SECONDS
    MaxFill,         \* DJANGO_WAF_FORM_TIME_TRAP_MAX_SECONDS
    Grace,           \* _MARKER_GRACE_SECONDS
    TokenTTL,        \* DJANGO_WAF_FORM_TOKEN_TTL
    IpLimit,         \* DJANGO_WAF_FORM_CREDENTIAL_IP_LIMIT
    SignupLimit,     \* DJANGO_WAF_FORM_SIGNUP_VELOCITY_LIMIT
    FlagThreshold,   \* DJANGO_WAF_FORM_FLAG_THRESHOLD
    BlockThreshold,  \* DJANGO_WAF_FORM_BLOCK_THRESHOLD
    Weights          \* DJANGO_WAF_FORM_DEFENCE_WEIGHTS, a function on some of the names

ASSUME DefenceConstants ==
    /\ {TooFast, MinFill, MaxFill, Grace, TokenTTL, IpLimit, SignupLimit} \subseteq Nat
    /\ {FlagThreshold, BlockThreshold} \subseteq Nat
    /\ \A name \in DOMAIN Weights : Weights[name] \in Nat

\* Outcome and its shorthands.  A reason is a defence and a detail.
passed == [verdict |-> "pass", score |-> 0, reason |-> <<>>]
flagged(score, name, detail) == [verdict |-> "flag", score |-> score, reason |-> <<name, detail>>]
blocked(name, detail) == [verdict |-> "block", score |-> 10, reason |-> <<name, detail>>]

\* The token verifies: it is there and carries the server's signature.
Verified(token) == token \notin {"", "forged"}

\* Mutant: the marker is not looked at.
TokenAlone(token, age, present, sameIp) ==
    IF token = "" THEN blocked("render_token", "missing")
    ELSE IF ~Verified(token) THEN blocked("render_token", "invalid")
    ELSE IF age > TokenTTL THEN blocked("render_token", "expired")
    ELSE IF ~sameIp THEN flagged(6, "render_token", "ip_changed")
    ELSE passed

\* RenderTokenDefence.evaluate
render_token(token, age, present, sameIp) ==
    IF token = "" THEN blocked("render_token", "missing")
    ELSE IF ~Verified(token) THEN blocked("render_token", "invalid")
    ELSE IF age > TokenTTL THEN blocked("render_token", "expired")
    ELSE IF ~present /\ age > Grace THEN blocked("render_token", "replayed")
    ELSE IF ~sameIp THEN flagged(6, "render_token", "ip_changed")
    ELSE passed

honeypot(filled) == IF filled THEN blocked("honeypot", "field") ELSE passed

\* The defences that lean on the token say nothing without its payload.
time_trap(payload, age) ==
    IF payload = "" THEN passed
    ELSE IF age < TooFast THEN blocked("time_trap", "too_fast")
    ELSE IF age < MinFill THEN flagged(4, "time_trap", "fast")
    ELSE IF age > MaxFill THEN flagged(4, "time_trap", "expired")
    ELSE passed

ua_consistency(payload, sameUa) ==
    IF payload # "" /\ ~sameUa THEN flagged(4, "ua_consistency", "changed") ELSE passed

\* The nonce that a field must be derived from: the verified token's, else a fallback.
BoundNonce(payload, fallback) == IF payload # "" THEN payload ELSE fallback

js_touch(touch, payload) ==
    IF touch = "unset" THEN flagged(3, "js_touch", "not_set")
    ELSE IF touch = "" THEN flagged(3, "js_touch", "missing")
    ELSE IF touch # BoundNonce(payload, "form_id") THEN flagged(3, "js_touch", "invalid")
    ELSE passed

credential_throttle(count) ==
    IF count >= IpLimit THEN flagged(10, "credential_throttle", "ip") ELSE passed

signup_velocity(count) ==
    IF count >= SignupLimit THEN flagged(10, "signup_velocity", "ip") ELSE passed

pow_gate(pow, payload, bind) ==
    IF pow = "" THEN blocked("pow_gate", "missing")
    ELSE IF pow # BoundNonce(payload, IF bind = "" THEN "form_id" ELSE bind)
         THEN blocked("pow_gate", "invalid")
    ELSE passed

----------------------------------------------------------------------------
CanonicalOrder == <<"render_token", "honeypot", "time_trap", "ua_consistency", "js_touch",
                    "credential_throttle", "signup_velocity", "pow_gate">>

DefenceNames == ToSet(CanonicalOrder)

\* The names that are configured, in canonical order.
_order_defences(names) ==
    LET Nth(i) == IF CanonicalOrder[i] \in names THEN <<CanonicalOrder[i]>> ELSE <<>>
    IN Nth(1) \o Nth(2) \o Nth(3) \o Nth(4) \o Nth(5) \o Nth(6) \o Nth(7) \o Nth(8)

\* What a defence returns in context c.
Outcome(name, c) ==
    CASE name = "render_token"        -> c.first
      [] name = "honeypot"            -> honeypot(c.sub.filled)
      [] name = "time_trap"           -> time_trap(c.payload, c.age)
      [] name = "ua_consistency"      -> ua_consistency(c.payload, c.sameUa)
      [] name = "js_touch"            -> js_touch(c.sub.touch, c.payload)
      [] name = "credential_throttle" -> credential_throttle(c.failures)
      [] name = "signup_velocity"     -> signup_velocity(c.signups)
      [] name = "pow_gate"            -> pow_gate(c.sub.pow, c.payload, c.sub.bind)

IsBlock(outcome) == outcome.verdict = "block"

\* The outcomes of the chain, up to the first block.  A defence that raises passes.
Outcomes(names, c, raised) ==
    LET all == [i \in DOMAIN names |-> IF names[i] \in raised THEN passed ELSE Outcome(names[i], c)]
        stop == SelectInSeq(all, IsBlock)
    IN IF stop = 0 THEN all ELSE SubSeq(all, 1, stop)

\* What an outcome adds to the total: the operator's weight for the defence, if any,
\* in the place of the defence's own score.
Points(outcome, name) ==
    IF outcome.verdict = "pass" THEN 0
    ELSE IF name \in DOMAIN Weights THEN Weights[name] ELSE outcome.score

\* The sum of what up to eight defences add.
Total(points) ==
    LET Nth(i) == IF i \in DOMAIN points THEN points[i] ELSE 0
    IN Nth(1) + Nth(2) + Nth(3) + Nth(4) + Nth(5) + Nth(6) + Nth(7) + Nth(8)

\* Mutant: the outcomes are paired with the names of all defences.
PairedWithAll(outcomes, names) == Total([i \in DOMAIN outcomes |-> Points(outcomes[i], CanonicalOrder[i])])

\* The outcomes are paired with the configured names by position.
_aggregate_score(outcomes, names) == Total([i \in DOMAIN outcomes |-> Points(outcomes[i], names[i])])

\* Mutant: the words of an outcome instead of those of FormVerdict.
ResolveAsOutcome(total) ==
    IF total >= BlockThreshold THEN "block" ELSE IF total >= FlagThreshold THEN "flag" ELSE "pass"

_resolve_verdict(total) ==
    IF total >= BlockThreshold THEN "blocked"
    ELSE IF total >= FlagThreshold THEN "flagged" ELSE "passed"

Verdict(outcomes, names) ==
    IF SelectInSeq(outcomes, IsBlock) # 0 THEN "blocked"
    ELSE _resolve_verdict(_aggregate_score(outcomes, names))

\* The reason that form_submission_blocked carries: the block, else the highest score.
BlockedReason(outcomes) ==
    LET stop == SelectInSeq(outcomes, IsBlock)
        worst == SelectInSeq(outcomes, LAMBDA o : \A p \in ToSet(outcomes) : p.score <= o.score)
    IN outcomes[IF stop # 0 THEN stop ELSE worst].reason

=============================================================================
