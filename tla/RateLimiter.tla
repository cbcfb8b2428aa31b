---------------------------- MODULE RateLimiter ----------------------------
(***************************************************************************)
(* services/rate_limiter.py: the sliding windows of one client address.    *)
(*                                                                         *)
(* A key's sorted set holds time stamps, of which two requests of the same *)
(* instant share one.  The clock is finer than a second, Retry-After is    *)
(* not: time is counted in ticks, of which a second has several.  A limit  *)
(* is a record of its key, its maximum, its window and the extra time its  *)
(* key lives, in ticks, and the methods it is scoped to ({} for a limit on *)
(* all).  Each pipeline is one step, and a thread may be held up between   *)
(* reading the clock and any of them.                                      *)
(***************************************************************************)
EXTENDS Integers, Sequences, SequencesExt, FiniteSetsExt

CONSTANTS
    Workers,
    Routes,    \* of a path and method: the method, the limits whose prefix fits, longest first
    Windows,   \* _WINDOWS with their thresholds
    Verify,    \* the limit of check_verify_rate_limit
    Second,    \* the ticks of a second
    MaxTime    \* bound: how long a behaviour lasts

VARIABLES
    time,
    stamps,    \* the sorted sets waf:rate:*
    touched,   \* when each was last given its EXPIRE
    now,       \* of each thread: its time stamp
    todo,      \* of each thread: the limits it has still to check
    checked,   \* history: the stamps that were ever checked, per key
    promised   \* history: the time before which the last refusal said not to retry, per key

limiterVars == <<time, stamps, touched, now, todo, checked, promised>>

Limits == {Windows[i] : i \in DOMAIN Windows} \cup {Verify}
              \cup UNION {{r.limits[i] : i \in DOMAIN r.limits} : r \in Routes}
Keys == {l.key : l \in Limits}

\* A limit's figures are whole numbers of ticks, and a key is that of one limit: each window and
\* each configured prefix has its own.
ASSUME LimiterConstants ==
    /\ MaxTime \in Nat /\ Second \in Nat \ {0}
    /\ Windows \in Seq(Limits) /\ \A r \in Routes : r.limits \in Seq(Limits)
    /\ \A l \in Limits : l.max \in Nat /\ l.window \in Nat /\ l.extra \in Nat
    /\ \A l, m \in Limits : l.key = m.key => l.max = m.max /\ l.window = m.window /\ l.extra = m.extra

LimiterTypeOK ==
    /\ time \in 0..MaxTime
    /\ stamps \in [Keys -> SUBSET (0..MaxTime)] /\ checked \in [Keys -> SUBSET (0..MaxTime)]
    /\ touched \in [Keys -> 0..MaxTime] /\ promised \in [Keys -> Nat]
    /\ now \in [Workers -> 0..MaxTime]
    /\ todo \in [Workers -> Seq(Limits)]

LimiterInit ==
    /\ time = 0
    /\ stamps = [k \in Keys |-> {}] /\ touched = [k \in Keys |-> 0]
    /\ now = [t \in Workers |-> 0] /\ todo = [t \in Workers |-> <<>>]
    /\ checked = [k \in Keys |-> {}] /\ promised = [k \in Keys |-> 0]

----------------------------------------------------------------------------
_entry_applies_to_method(limit, method) == limit.methods = {} \/ method \in limit.methods

\* The limit that governs a request: of those whose prefix fits its path, longest
\* prefix first, the first whose scope covers its method.
PathLimit(limits, method) ==
    LET i == SelectInSeq(limits, LAMBDA limit : _entry_applies_to_method(limit, method))
    IN IF i = 0 THEN <<>> ELSE <<limits[i]>>

Start(t, limits) ==
    /\ todo[t] = <<>>
    /\ now' = [now EXCEPT ![t] = time]
    /\ todo' = [todo EXCEPT ![t] = limits]
    /\ UNCHANGED <<time, stamps, touched, checked, promised>>

check_rate_limit(t, r) == Start(t, PathLimit(r.limits, r.method) \o Windows)

check_verify_rate_limit(t) == Start(t, <<Verify>>)

----------------------------------------------------------------------------
(* One pipeline: ZADD, ZREMRANGEBYSCORE, ZCARD, ZRANGE, EXPIRE *)

Present(l) == IF time < touched[l.key] + l.window + l.extra THEN stamps[l.key] ELSE {}

\* Mutant: entries that have left the window stay.
NeverTrimmed(t, l) == Present(l) \cup {now[t]}

\* ZREMRANGEBYSCORE removes 0..now - seconds, whose ends are inclusive.
Kept(t, l) == {s \in Present(l) \cup {now[t]} : s > now[t] - l.window}

\* int() rounds down to whole seconds, of which there is at least one.
_retry_after_from_oldest(oldest, window, at) ==
    LET left == oldest + window - at
    IN Max({Second, left - (left % Second)})

\* ZCARD counts the request that is being checked.
Exceeded(t, l) == Cardinality(Kept(t, l)) > l.max

Pipeline(t, l) ==
    /\ stamps' = [stamps EXCEPT ![l.key] = Kept(t, l)]
    /\ touched' = [touched EXCEPT ![l.key] = time]
    /\ checked' = [checked EXCEPT ![l.key] = @ \cup {now[t]}]
    /\ UNCHANGED time

\* What remains of the checks; an idle thread has no time stamp.
Continue(t, rest) ==
    /\ todo' = [todo EXCEPT ![t] = rest]
    /\ now' = [now EXCEPT ![t] = IF rest = <<>> THEN 0 ELSE @]

Pass(t) ==
    /\ todo[t] # <<>>
    /\ LET l == Head(todo[t]) IN ~Exceeded(t, l) /\ Pipeline(t, l)
    /\ Continue(t, Tail(todo[t]))
    /\ UNCHANGED promised

\* A breach ends the checks: the limits that follow do not count the request.
Refuse(t) ==
    /\ todo[t] # <<>>
    /\ LET l == Head(todo[t]) IN
          /\ Exceeded(t, l) /\ Pipeline(t, l)
          /\ promised' = [promised EXCEPT ![l.key] =
                             now[t] + _retry_after_from_oldest(Min(Kept(t, l)), l.window, now[t])]
    /\ Continue(t, <<>>)

\* A pipeline that raises: the exception leaves the function.
Fail(t) ==
    /\ todo[t] # <<>> /\ Continue(t, <<>>)
    /\ UNCHANGED <<time, stamps, touched, checked, promised>>

Tick ==
    /\ time < MaxTime
    /\ time' = time + 1
    /\ UNCHANGED <<stamps, touched, now, todo, checked, promised>>

LimiterNext ==
    \/ \E t \in Workers :
          \/ \E r \in Routes : check_rate_limit(t, r)
          \/ check_verify_rate_limit(t) \/ Pass(t) \/ Refuse(t) \/ Fail(t)
    \/ Tick

LimiterSpec == LimiterInit /\ [][LimiterNext]_limiterVars

----------------------------------------------------------------------------
(* Properties *)

Within(k, low, high) == {s \in checked'[k] : low < s /\ s <= high}

\* No later stamp was checked before this one, and the thread was not held up for
\* longer than a key outlives its window.
Prompt(t, l) == time < now[t] + l.extra /\ \A s \in checked[l.key] : s <= now[t]

\* The windows count what they should: a request is refused only if more instants
\* than the maximum were checked since its window began, and passed, unless it is
\* overtaken or held up, only if no more than the maximum were.  Neither the
\* trimming nor the expiry of a sorted set loses a stamp that still counts.  And a
\* client that waits as Retry-After says waits less than a second longer than it has
\* to: a request in turn that passes is less than a second early.  (At least a second
\* is announced, which may be more than remains.)
LimiterExact ==
    [][\A t \in Workers :
          LET l == Head(todo[t])
              since == now[t] - l.window
          IN /\ Refuse(t) => Cardinality(Within(l.key, since, time)) > l.max
             /\ Pass(t) /\ Prompt(t, l) =>
                   /\ Cardinality(Within(l.key, since, now[t])) <= l.max
                   /\ now[t] + Second > promised[l.key]]_limiterVars
=============================================================================
