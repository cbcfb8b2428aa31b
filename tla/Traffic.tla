------------------------------ MODULE Traffic ------------------------------
(***************************************************************************)
(* The requests of one client address: the middleware's verdict on each,   *)
(* the challenges it hands out and counts, the escalation from a challenge *)
(* to a block, and the views that issue and verify proof-of-work tokens.   *)
(*                                                                         *)
(* Threads serve requests concurrently.  Every Redis command and every SQL *)
(* statement is a step.  What the address's headers, path and rate make of *)
(* a request (rules, rate limit, anomaly score) is an input: Outcomes.     *)
(* Keys with a time to live may lapse at any moment.                       *)
(***************************************************************************)
EXTENDS Integers, FiniteSets

CONSTANTS Threads,    \* threads of the web workers
          Tokens,     \* bound: challenge tokens that exist at a time
          NoToken,    \* none of them
          Threshold,  \* DJANGO_WAF_CHALLENGE_ESCALATION_THRESHOLD
          MaxCount,   \* bound: from this count on, reading it does not fail
          Faults      \* the faults exercised, a subset of AllFaults

AllFaults == {"redis"}

ASSUME TrafficConstants ==
    /\ IsFiniteSet(Threads)
    /\ Threshold \in Nat \ {0} /\ MaxCount \in Nat
    /\ NoToken \notin Tokens
    /\ Faults \subseteq AllFaults

VARIABLES
    challenged, solved, blocked,  \* Redis waf:challenged:, waf:solved:, waf:blocked:{ip}
    status, age,  \* ChallengeToken rows: status, and how expires_at lies to the clock
    cached,       \* the tokens with a Redis waf:challenge:{token}
    thread,       \* the request that each thread serves
    blind         \* history: a count could not be read

redisVars == <<challenged, solved, blocked>>
tokenVars == <<status, age, cached>>
vars == <<redisVars, tokenVars, thread, blind>>

Outcomes == {"allowed", "blocked", "throttled", "challenged"}
Statuses == {"absent", "pending", "solved", "failed", "expired"}
Spent    == {"solved", "failed", "expired"}
Steps    == {"idle", "evaluate", "count", "flag", "reset", "challenge", "escalate", "deny",
             "view", "issue", "store", "row", "save", "consume", "clear", "uncount"}

Requests == [pc : Steps,
             page : BOOLEAN,     \* not one of the challenge's own routes
             bot : BOOLEAN,      \* fingerprint_verdict = "bot"
             reached : BOOLEAN,  \* challenged_count was at the threshold
             token : Tokens \cup {NoToken},
             hit : BOOLEAN,      \* the token was found in Redis
             verdict : Spent,    \* the status about to be saved
             cleared : BOOLEAN,  \* history: solved stood when the request came, and does yet
             fresh : BOOLEAN]    \* history: the token was pending when the verification began

Idle == [pc |-> "idle", page |-> TRUE, bot |-> FALSE, reached |-> FALSE, token |-> NoToken,
         hit |-> FALSE, verdict |-> "expired", cleared |-> FALSE, fresh |-> FALSE]

\* Between the save that grants a pass and the response that carries it.
Granted == {"consume", "clear", "uncount"}

\* The steps at work on a token.
Handling == {"store", "row", "save"} \cup Granted

TypeOK ==
    /\ challenged \in Nat
    /\ solved \in BOOLEAN /\ blocked \in BOOLEAN
    /\ status \in [Tokens -> Statuses]
    /\ age \in [Tokens -> {"live", "expired", "old"}]
    /\ cached \subseteq Tokens
    /\ thread \in [Threads -> Requests]
    /\ \A t \in Threads : thread[t].pc \in Handling => thread[t].token \in Tokens
    /\ blind \in BOOLEAN

Init ==
    /\ challenged = 0 /\ solved = FALSE /\ blocked = FALSE
    /\ status = [k \in Tokens |-> "absent"]
    /\ age = [k \in Tokens |-> "live"]
    /\ cached = {}
    /\ thread = [t \in Threads |-> Idle]
    /\ blind = FALSE

At(t, step) == thread[t].pc = step
Become(t, r) == thread' = [thread EXCEPT ![t] = r]
Go(t, step) == Become(t, [thread[t] EXCEPT !.pc = step])
Done(t) == Become(t, Idle)
RedisFails == "redis" \in Faults

----------------------------------------------------------------------------
(* WafMiddleware.__call__ and evaluate_request *)

\* _get_response: the view of the route.  The site's own pages are outside.
Pass(t) ==
    Become(t, IF thread[t].page THEN Idle
              ELSE [Idle EXCEPT !.pc = "view", !.page = FALSE, !.bot = thread[t].bot])

\* A request comes in.  An exempt path, staff, a valid waf_pass cookie, a Redis
\* that cannot be reached and the like send it straight to the view.
Request(t, page, bot) ==
    /\ At(t, "idle")
    /\ \/ Become(t, [Idle EXCEPT !.pc = "evaluate", !.page = page, !.bot = bot, !.cleared = solved])
       \/ ~page /\ Become(t, [Idle EXCEPT !.pc = "view", !.page = FALSE, !.bot = bot])
    /\ UNCHANGED <<redisVars, tokenVars, blind>>

\* Allow rules, then the blocked-IP fast path, then rules, rate limit and score.
\* An exception fails open.
Evaluate(t) ==
    /\ At(t, "evaluate")
    /\ \/ Pass(t)
       \/ blocked /\ Go(t, "deny")
       \/ /\ ~blocked
          /\ \E o \in Outcomes :
                \/ o = "allowed" /\ Pass(t)
                \/ o = "throttled" /\ Done(t)
                \/ o = "blocked" /\ Go(t, "deny")
                \/ o = "challenged" /\ Go(t, "count")
    /\ UNCHANGED <<redisVars, tokenVars, blind>>

----------------------------------------------------------------------------
(* _gate_challenge_or_escalate *)

Verdict(high) == IF high THEN "escalate" ELSE "challenge"

\* Mutant: the threshold is off by one.
GetCountTooFar(t) ==
    /\ At(t, "count")
    /\ LET high == challenged > Threshold IN
         Become(t, [thread[t] EXCEPT !.reached = high,
                       !.pc = IF challenged = 0 THEN "challenge"
                              ELSE IF thread[t].bot THEN Verdict(high) ELSE "flag"])
    /\ UNCHANGED <<redisVars, tokenVars, blind>>

\* GET waf:challenged:{ip}
GetCount(t) ==
    /\ At(t, "count")
    /\ LET high == challenged >= Threshold IN
         Become(t, [thread[t] EXCEPT !.reached = high,
                       !.pc = IF challenged = 0 THEN "challenge"
                              ELSE IF thread[t].bot THEN Verdict(high) ELSE "flag"])
    /\ UNCHANGED <<redisVars, tokenVars, blind>>

\* Mutant: the solved flag is not consulted.
GetSolvedIgnored(t) ==
    /\ At(t, "flag")
    /\ Go(t, Verdict(thread[t].reached))
    /\ UNCHANGED <<redisVars, tokenVars, blind>>

\* GET waf:solved:{ip}
GetSolved(t) ==
    /\ At(t, "flag")
    /\ Go(t, IF solved THEN "reset" ELSE Verdict(thread[t].reached))
    /\ UNCHANGED <<redisVars, tokenVars, blind>>

\* DEL waf:challenged:{ip}
DeleteCount(t) ==
    /\ At(t, "reset")
    /\ challenged' = 0
    /\ Go(t, "challenge")
    /\ UNCHANGED <<solved, blocked, tokenVars, blind>>

\* A count that cannot be read is no count.
CountFails(t) ==
    /\ RedisFails /\ challenged < MaxCount
    /\ thread[t].pc \in {"count", "flag", "reset"}
    /\ blind' = TRUE
    /\ Go(t, "challenge")
    /\ UNCHANGED <<redisVars, tokenVars>>

\* _create_escalation_rule (module AutoRule) and record_block_verdict.  A failed
\* SETEX, or a failed HINCRBY after it, makes the evaluation fail open.
Escalate(t) ==
    /\ At(t, "escalate")
    /\ \/ blocked' = TRUE /\ Go(t, "deny")
       \/ RedisFails /\ blocked' \in {blocked, TRUE} /\ Pass(t)
    /\ UNCHANGED <<challenged, solved, tokenVars, blind>>

----------------------------------------------------------------------------
(* _handle_verdict *)

\* record_block_verdict again; a failure of it is swallowed.
Deny(t) ==
    /\ At(t, "deny")
    /\ blocked' = TRUE \/ (RedisFails /\ UNCHANGED blocked)
    /\ Done(t)
    /\ UNCHANGED <<challenged, solved, tokenVars, blind>>

\* INCR waf:challenged:{ip} and a redirect.  On the challenge's own routes the
\* redirect is suppressed and nothing is counted.  A failed INCR is swallowed.
Challenge(t) ==
    /\ At(t, "challenge")
    /\ \/ thread[t].page /\ challenged' = challenged + 1
       \/ (~thread[t].page \/ RedisFails) /\ UNCHANGED challenged
    /\ Pass(t)
    /\ UNCHANGED <<solved, blocked, tokenVars, blind>>

----------------------------------------------------------------------------
(* ChallengeView.get, VerifyView.post and challenge_service *)

\* Thread t is at work on token k.
Holds(t, k) == thread[t].token = k

\* issue_challenge: the ChallengeToken row.  A failure ends the request.
CreateToken(t) ==
    /\ thread[t].pc \in {"view", "issue"}
    /\ \/ \E k \in Tokens :
             /\ status[k] = "absent" /\ \A u \in Threads : ~Holds(u, k)
             /\ status' = [status EXCEPT ![k] = "pending"]
             /\ age' = [age EXCEPT ![k] = "live"]
             /\ Become(t, [Idle EXCEPT !.pc = "store", !.token = k])
       \/ Done(t) /\ UNCHANGED <<status, age>>
    /\ UNCHANGED <<redisVars, cached, blind>>

\* issue_challenge: SETEX waf:challenge:{token}
StoreToken(t) ==
    /\ At(t, "store")
    /\ cached' = cached \cup {thread[t].token} \/ (RedisFails /\ UNCHANGED cached)
    /\ Done(t)
    /\ UNCHANGED <<redisVars, status, age, blind>>

\* VerifyView.post with token k: GET waf:challenge:{token}.  A malformed body, the
\* solve-rate limit and a failing Redis end the request here.
BeginVerify(t, k) ==
    /\ At(t, "view")
    /\ \/ Become(t, [thread[t] EXCEPT !.pc = "row", !.token = k, !.hit = k \in cached,
                                      !.fresh = status[k] = "pending"])
       \/ Done(t)
    /\ UNCHANGED <<redisVars, tokenVars, blind>>

\* Mutant: a token found in Redis is taken to be unspent.
ReadRowTrustingRedis(t, own, good) ==
    /\ At(t, "row")
    /\ LET r == thread[t] IN
       \/ /\ status[r.token] # "pending" /\ ~r.hit
          /\ Become(t, [Idle EXCEPT !.pc = "issue"])
       \/ /\ status[r.token] = "pending" \/ r.hit
          /\ Become(t, [r EXCEPT !.pc = "save", !.verdict = IF good THEN "solved" ELSE "failed"])
    /\ UNCHANGED <<redisVars, tokenVars, blind>>

\* The row, and the checks in their order: spent, expired, issued to this address
\* (own), proof of work (good).  A cached token without a row is an error page,
\* any other token without one is invalid; a rejection issues a replacement.
ReadRow(t, own, good) ==
    /\ At(t, "row")
    /\ LET r == thread[t]
           late == age[r.token] # "live"
       IN \/ status[r.token] = "absent" /\ r.hit /\ Done(t)
          \/ /\ \/ status[r.token] = "absent" /\ ~r.hit
                \/ status[r.token] \in Spent
                \/ status[r.token] = "pending" /\ ~late /\ ~own
             /\ Become(t, [Idle EXCEPT !.pc = "issue"])
          \/ /\ status[r.token] = "pending" /\ (late \/ own)
             /\ Become(t, [r EXCEPT !.pc = "save",
                              !.verdict = IF late THEN "expired"
                                          ELSE IF good THEN "solved" ELSE "failed"])
    /\ UNCHANGED <<redisVars, tokenVars, blind>>

\* UPDATE of the row's status.  A row deleted meanwhile is an error page.
SaveStatus(t) ==
    /\ At(t, "save")
    /\ LET r == thread[t] IN
       \/ status[r.token] = "absent" /\ Done(t) /\ UNCHANGED status
       \/ /\ status[r.token] # "absent"
          /\ status' = [status EXCEPT ![r.token] = r.verdict]
          /\ IF r.verdict = "solved" THEN Go(t, "consume") ELSE Become(t, [Idle EXCEPT !.pc = "issue"])
    /\ UNCHANGED <<redisVars, age, cached, blind>>

\* DEL waf:challenge:{token}.  Its failure is an error page.
ConsumeToken(t) ==
    /\ At(t, "consume")
    /\ \/ cached' = cached \ {thread[t].token} /\ Go(t, "clear")
       \/ RedisFails /\ Done(t) /\ UNCHANGED cached
    /\ UNCHANGED <<redisVars, status, age, blind>>

\* SETEX waf:solved:{ip}.  A failure skips the DEL and still passes the client.
SetSolved(t) ==
    /\ At(t, "clear")
    /\ \/ solved' = TRUE /\ Go(t, "uncount")
       \/ RedisFails /\ Done(t) /\ UNCHANGED solved
    /\ UNCHANGED <<challenged, blocked, tokenVars, blind>>

\* Mutant: the count is decremented, whether or not the key is still there.
UncountOne(t) ==
    /\ At(t, "uncount")
    /\ challenged' = challenged - 1 \/ (RedisFails /\ UNCHANGED challenged)
    /\ Done(t)
    /\ UNCHANGED <<solved, blocked, tokenVars, blind>>

\* DEL waf:challenged:{ip}, and the response with the waf_pass cookie.
Uncount(t) ==
    /\ At(t, "uncount")
    /\ challenged' = 0 \/ (RedisFails /\ UNCHANGED challenged)
    /\ Done(t)
    /\ UNCHANGED <<solved, blocked, tokenVars, blind>>

----------------------------------------------------------------------------
(* Time, and prune_challenge_tokens *)

\* A key of the address reaches the end of its time to live.
Lapse ==
    /\ \/ challenged' = 0 /\ UNCHANGED <<solved, blocked, thread>>
       \/ /\ solved' = FALSE /\ UNCHANGED <<challenged, blocked>>
          /\ thread' = [t \in Threads |-> [thread[t] EXCEPT !.cleared = FALSE]]
       \/ blocked' = FALSE /\ UNCHANGED <<challenged, solved, thread>>
    /\ UNCHANGED <<tokenVars, blind>>

\* expires_at passes, and the Redis entry lapses about then.
ExpireToken(k) ==
    /\ \/ status[k] # "absent" /\ age[k] = "live" /\ age' = [age EXCEPT ![k] = "expired"] /\ UNCHANGED cached
       \/ k \in cached /\ age[k] = "expired" /\ cached' = cached \ {k} /\ UNCHANGED age
    /\ UNCHANGED <<redisVars, status, thread, blind>>

\* 24 hours later, which no Redis entry and no request in flight has lasted.
AgeToken(k) ==
    /\ age[k] = "expired" /\ k \notin cached
    /\ \A t \in Threads : ~Holds(t, k)
    /\ age' = [age EXCEPT ![k] = "old"]
    /\ UNCHANGED <<redisVars, status, cached, thread, blind>>

\* Mutant: the age of the tokens is not looked at.
PruneAnyAge(k) ==
    /\ status[k] \in {"pending", "failed"}
    /\ status' = [status EXCEPT ![k] = "absent"]
    /\ UNCHANGED <<redisVars, age, cached, thread, blind>>

Prune(k) ==
    /\ status[k] \in {"pending", "failed"} /\ age[k] = "old"
    /\ status' = [status EXCEPT ![k] = "absent"]
    /\ UNCHANGED <<redisVars, age, cached, thread, blind>>

----------------------------------------------------------------------------
Serve(t) ==
    \/ \E page, bot \in BOOLEAN : Request(t, page, bot)
    \/ Evaluate(t) \/ GetCount(t) \/ GetSolved(t) \/ DeleteCount(t) \/ CountFails(t)
    \/ Escalate(t) \/ Deny(t) \/ Challenge(t)
    \/ CreateToken(t) \/ StoreToken(t)
    \/ \E k \in Tokens : BeginVerify(t, k)
    \/ \E own, good \in BOOLEAN : ReadRow(t, own, good)
    \/ SaveStatus(t) \/ ConsumeToken(t) \/ SetSolved(t) \/ Uncount(t)

Next ==
    \/ \E t \in Threads : Serve(t)
    \/ Lapse
    \/ \E k \in Tokens : ExpireToken(k) \/ AgeToken(k) \/ Prune(k)

Spec == Init /\ [][Next]_vars

----------------------------------------------------------------------------
(* Properties *)

\* However the threads interleave the read of the count in the gate with the
\* increments in _handle_verdict, an address is challenged past the threshold at
\* most once per other thread before it is blocked, unless the count is unreadable.
ChallengesBounded == ~blind => challenged <= Threshold - 1 + Cardinality(Threads)

\* A client that solved a challenge before its request came is not escalated for
\* the challenges counted before or since, unless its fingerprint is a bot's.
SolvedNotEscalated == \A t \in Threads : At(t, "escalate") /\ thread[t].cleared => thread[t].bot

\* A pass is granted only by a verification that began while the token was
\* pending, and leaves the token spent: no later verification grants another.
SpentNeverPasses ==
    \A t \in Threads :
       thread[t].pc \in Granted => thread[t].fresh /\ status[thread[t].token] \in Spent

\* A token found in Redis has its row in the database, now and when the
\* verification that found it comes to read the row: the pruning of tokens
\* never turns a verification into an uncaught DoesNotExist.
CachedHasRow ==
    /\ \A k \in cached : status[k] # "absent"
    /\ \A t \in Threads : At(t, "row") /\ thread[t].hit => status[thread[t].token] # "absent"

=============================================================================
