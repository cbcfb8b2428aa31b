--------------------------- MODULE TrafficProofs ---------------------------
(***************************************************************************)
(* Theorems about Traffic for any number of threads and tokens and any     *)
(* threshold.                                                              *)
(***************************************************************************)
EXTENDS Traffic, FiniteSetTheorems, TLAPS

\* The request of an idle thread.
LEMMA IdleType == Idle \in Requests
BY Zenon DEF Idle, Requests, Steps, Spent

\* A request that moves on to another step.
LEMMA PcType ==
    ASSUME NEW r \in Requests, NEW s \in Steps
    PROVE  /\ [r EXCEPT !.pc = s] \in Requests
           /\ [r EXCEPT !.pc = s].pc = s
           /\ \A f \in {"page", "bot", "reached", "token", "hit", "verdict", "cleared", "fresh"} :
                 [r EXCEPT !.pc = s][f] = r[f]
BY Zenon DEF Requests

\* What a step of thread t does to the threads.
LEMMA BecomeType ==
    ASSUME thread \in [Threads -> Requests], NEW t \in Threads, NEW r \in Requests, Become(t, r)
    PROVE  /\ thread' \in [Threads -> Requests]
           /\ thread'[t] = r
           /\ \A u \in Threads : u # t => thread'[u] = thread[u]
BY Zenon DEF Become

\* A request that handles a token holds one.
WellHeld(r) == r.pc \in Handling => r.token \in Tokens

\* The request that passes the middleware.
LEMMA PassType ==
    ASSUME TypeOK, NEW t \in Threads, Pass(t)
    PROVE  \E r \in Requests : /\ Become(t, r)
                               /\ r.pc \in {"idle", "view"} /\ r.cleared = FALSE
                               /\ WellHeld(r)
<1>1. thread[t].bot \in BOOLEAN
  BY Zenon DEF TypeOK, Requests
<1>2. [Idle EXCEPT !.pc = "view", !.page = FALSE, !.bot = thread[t].bot] \in Requests
  BY <1>1, Zenon DEF Idle, Requests, Steps, Spent
<1> QED BY <1>2, IdleType, Zenon DEF Pass, Idle, WellHeld, Handling, Granted

\* What ReadRow writes into its request.
LEMMA VerdictType ==
    ASSUME NEW r \in Requests, NEW v \in Spent
    PROVE  /\ [r EXCEPT !.pc = "save", !.verdict = v] \in Requests
           /\ [r EXCEPT !.pc = "save", !.verdict = v].pc = "save"
           /\ [r EXCEPT !.pc = "save", !.verdict = v].verdict = v
           /\ \A f \in {"page", "bot", "reached", "token", "hit", "cleared", "fresh"} :
                 [r EXCEPT !.pc = "save", !.verdict = v][f] = r[f]
BY Zenon DEF Requests, Steps

\* Moving on, stopping and issuing a replacement.
LEMMA GoType ==
    ASSUME TypeOK, NEW t \in Threads, NEW s \in Steps, s \in Handling => thread[t].pc \in Handling,
           Go(t, s) \/ Done(t) \/ Become(t, [Idle EXCEPT !.pc = "issue"])
    PROVE  \E r \in Requests : Become(t, r) /\ WellHeld(r)
<1>1. thread[t] \in Requests
  BY Zenon DEF TypeOK
<1>2. [thread[t] EXCEPT !.pc = s] \in Requests /\ WellHeld([thread[t] EXCEPT !.pc = s])
  BY <1>1, PcType DEF TypeOK, WellHeld
<1>3. [Idle EXCEPT !.pc = "issue"] \in Requests /\ WellHeld([Idle EXCEPT !.pc = "issue"])
  BY Zenon DEF Idle, Requests, Steps, Spent, WellHeld, Handling, Granted
<1>4. WellHeld(Idle)
  BY Zenon DEF Idle, WellHeld, Handling, Granted
<1> QED BY <1>2, <1>3, <1>4, IdleType, Zenon DEF Go, Done

\* A thread's step replaces its request by another.
LEMMA ServeRequest ==
    ASSUME TypeOK, NEW t \in Threads, Serve(t)
    PROVE  \E r \in Requests : Become(t, r) /\ WellHeld(r)
<1>0. thread[t] \in Requests
  BY Zenon DEF TypeOK
<1>s. /\ {"idle", "deny", "count", "consume", "clear", "uncount"} \subseteq Steps
      /\ {"idle", "deny", "count"} \cap Handling = {}
  BY Zenon DEF Steps, Handling, Granted
<1>1. ASSUME NEW page \in BOOLEAN, NEW bot \in BOOLEAN, Request(t, page, bot)
      PROVE  \E r \in Requests : Become(t, r) /\ WellHeld(r)
  <2> DEFINE r == [Idle EXCEPT !.pc = "evaluate", !.page = page, !.bot = bot, !.cleared = solved]
             q == [Idle EXCEPT !.pc = "view", !.page = FALSE, !.bot = bot]
  <2>1. r \in Requests /\ r.pc = "evaluate" /\ q \in Requests /\ q.pc = "view"
    BY Zenon DEF TypeOK, Idle, Requests, Steps, Spent
  <2>2. Become(t, r) \/ Become(t, q)
    BY <1>1, Zenon DEF Request
  <2> QED BY <2>1, <2>2, Zenon DEF WellHeld, Handling, Granted
<1>2. CASE Evaluate(t)
  <2>1. Pass(t) \/ Done(t) \/ Go(t, "deny") \/ Go(t, "count")
    BY <1>2, Zenon DEF Evaluate
  <2> QED BY <1>s, <2>1, PassType, GoType, Zenon
<1>3. CASE GetCount(t)
  <2> DEFINE high == challenged >= Threshold
             s == IF challenged = 0 THEN "challenge" ELSE IF thread[t].bot THEN Verdict(high) ELSE "flag"
  <2>1. high \in BOOLEAN /\ s \in Steps \ Handling
    BY DEF Verdict, Steps, Handling, Granted
  <2> DEFINE r == [thread[t] EXCEPT !.reached = high, !.pc = s]
  <2>2. Become(t, r)
    BY <1>3, Zenon DEF GetCount
  <2> HIDE DEF high, s
  <2>3. r \in Requests /\ r.pc = s
    BY <1>0, <2>1, Zenon DEF Requests
  <2> HIDE DEF r
  <2> QED BY <2>1, <2>2, <2>3, Zenon DEF WellHeld
<1>4. CASE GetSolved(t) \/ DeleteCount(t) \/ CountFails(t)
  <2>1. \E s \in Steps \ Handling : Go(t, s)
    BY <1>4, Zenon DEF GetSolved, DeleteCount, CountFails, Verdict, Steps, Handling, Granted
  <2> QED BY <2>1, GoType, Zenon
<1>5. CASE Escalate(t) \/ Deny(t) \/ Challenge(t)
  <2>1. Go(t, "deny") \/ Pass(t) \/ Done(t)
    BY <1>5, Zenon DEF Escalate, Deny, Challenge
  <2> QED BY <1>s, <2>1, PassType, GoType, Zenon
<1>6. CASE CreateToken(t)
  <2>1. ASSUME NEW k \in Tokens, Become(t, [Idle EXCEPT !.pc = "store", !.token = k])
        PROVE  \E r \in Requests : Become(t, r) /\ WellHeld(r)
    <3> DEFINE r == [Idle EXCEPT !.pc = "store", !.token = k]
    <3>1. r \in Requests /\ r.token = k
      BY Zenon DEF Idle, Requests, Steps, Spent
    <3>2. Become(t, r)
      BY <2>1, Zenon
    <3> HIDE DEF r
    <3> QED BY <3>1, <3>2, Zenon DEF WellHeld
  <2>2. (\E k \in Tokens : Become(t, [Idle EXCEPT !.pc = "store", !.token = k])) \/ Done(t)
    BY <1>6, Zenon DEF CreateToken
  <2>3. CASE Done(t)
    BY <1>s, <2>3, GoType, Zenon
  <2> QED BY <2>1, <2>2, <2>3, Zenon
<1>7. ASSUME NEW k \in Tokens, BeginVerify(t, k)
      PROVE  \E r \in Requests : Become(t, r) /\ WellHeld(r)
  <2> DEFINE hit == k \in cached
             fresh == status[k] = "pending"
  <2>1. hit \in BOOLEAN /\ fresh \in BOOLEAN
    OBVIOUS
  <2> DEFINE r == [thread[t] EXCEPT !.pc = "row", !.token = k, !.hit = hit, !.fresh = fresh]
  <2>2. Become(t, r) \/ Done(t)
    BY <1>7, Zenon DEF BeginVerify
  <2> HIDE DEF hit, fresh
  <2>3. r \in Requests /\ r.token = k
    BY <1>0, <2>1, Zenon DEF Requests, Steps
  <2> HIDE DEF r
  <2>4. CASE Done(t)
    BY <1>s, <2>4, GoType, Zenon
  <2> QED BY <2>2, <2>3, <2>4, Zenon DEF WellHeld
<1>8. ASSUME NEW own \in BOOLEAN, NEW good \in BOOLEAN, ReadRow(t, own, good)
      PROVE  \E r \in Requests : Become(t, r) /\ WellHeld(r)
  <2>1. \/ Done(t) \/ Become(t, [Idle EXCEPT !.pc = "issue"])
        \/ \E v \in Spent : Become(t, [thread[t] EXCEPT !.pc = "save", !.verdict = v])
    BY <1>8, Zenon DEF ReadRow, Spent
  <2>2. thread[t].token \in Tokens
    BY <1>8, Zenon DEF ReadRow, At, TypeOK, Handling
  <2>3. ASSUME NEW v \in Spent, Become(t, [thread[t] EXCEPT !.pc = "save", !.verdict = v])
        PROVE  \E r \in Requests : Become(t, r) /\ WellHeld(r)
    <3> DEFINE r == [thread[t] EXCEPT !.pc = "save", !.verdict = v]
    <3>1. r \in Requests /\ r.token = thread[t].token
      BY <1>0, VerdictType, Zenon
    <3>2. Become(t, r)
      BY <2>3, Zenon
    <3> HIDE DEF r
    <3> QED BY <2>2, <3>1, <3>2, Zenon DEF WellHeld
  <2>4. CASE Done(t) \/ Become(t, [Idle EXCEPT !.pc = "issue"])
    BY <1>s, <2>4, GoType, Zenon
  <2> QED BY <2>1, <2>3, <2>4, Zenon
<1>9. CASE StoreToken(t) \/ SaveStatus(t) \/ ConsumeToken(t) \/ SetSolved(t) \/ Uncount(t)
  <2>1. \/ Done(t) \/ Become(t, [Idle EXCEPT !.pc = "issue"])
        \/ Go(t, "consume") \/ Go(t, "clear") \/ Go(t, "uncount")
    BY <1>9, Zenon DEF StoreToken, SaveStatus, ConsumeToken, SetSolved, Uncount
  <2>2. thread[t].pc \in Handling
    BY <1>9, Zenon DEF StoreToken, SaveStatus, ConsumeToken, SetSolved, Uncount, At, Handling, Granted
  <2> QED BY <1>s, <2>1, <2>2, GoType, Zenon
<1> QED BY <1>1, <1>2, <1>3, <1>4, <1>5, <1>6, <1>7, <1>8, <1>9, Zenon DEF Serve

\* A key that lapses changes no request but for the history in it.
LEMMA LapseThreads ==
    ASSUME TypeOK, Lapse
    PROVE  /\ thread' \in [Threads -> Requests]
           /\ \A t \in Threads :
                 \A f \in {"pc", "page", "bot", "reached", "token", "hit", "verdict", "fresh"} :
                    thread'[t][f] = thread[t][f]
           /\ \A t \in Threads : thread'[t].cleared => thread[t].cleared /\ solved' = solved
<1>1. CASE UNCHANGED <<solved, thread>>
  BY <1>1, Zenon DEF TypeOK
<1>2. CASE thread' = [t \in Threads |-> [thread[t] EXCEPT !.cleared = FALSE]]
  <2>1. ASSUME NEW t \in Threads
        PROVE  /\ thread'[t] \in Requests /\ thread'[t].cleared = FALSE
               /\ \A f \in {"pc", "page", "bot", "reached", "token", "hit", "verdict", "fresh"} :
                     thread'[t][f] = thread[t][f]
    <3>1. thread[t] \in Requests /\ thread'[t] = [thread[t] EXCEPT !.cleared = FALSE]
      BY <1>2, Zenon DEF TypeOK
    <3> QED BY <3>1, Zenon DEF Requests
  <2> QED BY <1>2, <2>1, Zenon
<1> QED BY <1>1, <1>2, Zenon DEF Lapse

\* One step of any action keeps the types.
LEMMA StepType == TypeOK /\ [Next]_vars => TypeOK'
<1> SUFFICES ASSUME TypeOK, [Next]_vars PROVE TypeOK'
  BY Zenon
<1>1. CASE UNCHANGED vars
  BY <1>1, Zenon DEF TypeOK, vars, redisVars, tokenVars
<1>2. ASSUME NEW t \in Threads, Serve(t) PROVE TypeOK'
  <2>0. thread[t] \in Requests /\ thread[t].verdict \in Spent
    BY Zenon DEF TypeOK, Requests
  <2>1. /\ thread' \in [Threads -> Requests]
        /\ \A u \in Threads : thread'[u].pc \in Handling => thread'[u].token \in Tokens
    BY <1>2, ServeRequest, BecomeType, Zenon DEF TypeOK, WellHeld
  <2>2. CASE \/ \E page, bot \in BOOLEAN : Request(t, page, bot)
             \/ Evaluate(t) \/ GetCount(t) \/ GetSolved(t) \/ CountFails(t)
             \/ \E k \in Tokens : BeginVerify(t, k)
             \/ \E own, good \in BOOLEAN : ReadRow(t, own, good)
    <3>1. UNCHANGED <<redisVars, tokenVars>> /\ (UNCHANGED blind \/ blind' = TRUE)
      BY <2>2, Zenon DEF Request, Evaluate, GetCount, GetSolved, CountFails, BeginVerify, ReadRow
    <3> QED BY <2>1, <3>1, Zenon DEF TypeOK, redisVars, tokenVars
  <2>3. CASE DeleteCount(t) \/ Escalate(t) \/ Deny(t) \/ Challenge(t) \/ SetSolved(t) \/ Uncount(t)
    <3>1. UNCHANGED <<tokenVars, blind>>
      BY <2>3, Zenon DEF DeleteCount, Escalate, Deny, Challenge, SetSolved, Uncount
    <3>2. challenged' \in {challenged, challenged + 1, 0}
      BY <2>3, Zenon DEF DeleteCount, Escalate, Deny, Challenge, SetSolved, Uncount
    <3>3. solved' \in {solved, TRUE} /\ blocked' \in {blocked, TRUE}
      BY <2>3, ZenonT(60) DEF DeleteCount, Escalate, Deny, Challenge, SetSolved, Uncount
    <3>4. challenged' \in Nat
      BY <3>2 DEF TypeOK
    <3>5. solved' \in BOOLEAN /\ blocked' \in BOOLEAN
      BY <3>3, Zenon DEF TypeOK
    <3> QED BY <2>1, <3>1, <3>4, <3>5, Zenon DEF TypeOK, tokenVars
  <2>4. CASE CreateToken(t) \/ StoreToken(t) \/ SaveStatus(t) \/ ConsumeToken(t)
    <3>1. UNCHANGED <<redisVars, blind>>
      BY <2>4, Zenon DEF CreateToken, StoreToken, SaveStatus, ConsumeToken
    <3>2. status' \in [Tokens -> Statuses] /\ age' \in [Tokens -> {"live", "expired", "old"}]
      BY <2>0, <2>4, ZenonT(60) DEF CreateToken, StoreToken, SaveStatus, ConsumeToken, TypeOK, Statuses, Spent
    <3>3. CASE StoreToken(t)
      <4>1. thread[t].token \in Tokens
        BY <3>3, Zenon DEF StoreToken, At, TypeOK, Handling
      <4>2. cached' \subseteq Tokens
        BY <3>3, <4>1, Zenon DEF StoreToken, TypeOK
      <4> QED BY <2>1, <3>1, <3>2, <4>2, Zenon DEF TypeOK, redisVars
    <3>4. CASE ~StoreToken(t)
      <4>1. cached' \subseteq cached
        BY <2>4, <3>4, Zenon DEF CreateToken, SaveStatus, ConsumeToken
      <4> QED BY <2>1, <3>1, <3>2, <4>1, Zenon DEF TypeOK, redisVars
    <3> QED BY <3>3, <3>4, Zenon
  <2> QED BY <1>2, <2>2, <2>3, <2>4, Zenon DEF Serve
<1>3. CASE Lapse
  <2>1. thread' \in [Threads -> Requests]
    BY <1>3, LapseThreads, Zenon
  <2>2. \A t \in Threads : thread'[t].pc \in Handling => thread'[t].token \in Tokens
    BY <1>3, LapseThreads, Zenon DEF TypeOK
  <2>3. challenged' \in Nat
    BY <1>3 DEF Lapse, TypeOK
  <2>4. solved' \in BOOLEAN /\ blocked' \in BOOLEAN
    BY <1>3, Zenon DEF Lapse, TypeOK
  <2> QED BY <1>3, <2>1, <2>2, <2>3, <2>4, Zenon DEF Lapse, TypeOK, tokenVars
<1>4. ASSUME NEW k \in Tokens, ExpireToken(k) \/ AgeToken(k) \/ Prune(k) PROVE TypeOK'
  BY <1>4, Zenon DEF ExpireToken, AgeToken, Prune, TypeOK, redisVars, Statuses
<1> QED BY <1>1, <1>2, <1>3, <1>4, Zenon DEF Next

\* Nothing has happened yet.
LEMMA InitType == Init => TypeOK
<1>1. Init => thread \in [Threads -> Requests]
  BY IdleType, Zenon DEF Init
<1>2. Init => \A t \in Threads : thread[t].pc \notin Handling
  BY DEF Init, Idle, Handling, Granted
<1>3. Init => solved \in BOOLEAN /\ blocked \in BOOLEAN /\ blind \in BOOLEAN
  BY Zenon DEF Init
<1> QED BY <1>1, <1>2, <1>3 DEF Init, TypeOK, Statuses

\* Every variable keeps its type.
THEOREM TypeCorrect == Spec => []TypeOK
BY InitType, StepType, PTL DEF Spec

----------------------------------------------------------------------------
(* Tokens, rows and passes *)

\* What moving on, stopping and passing do to the threads.
LEMMA GoFacts ==
    ASSUME TypeOK, NEW t \in Threads, NEW s \in Steps, Go(t, s)
    PROVE  /\ thread'[t].pc = s
           /\ \A f \in {"page", "bot", "reached", "token", "hit", "verdict", "cleared", "fresh"} :
                 thread'[t][f] = thread[t][f]
           /\ \A u \in Threads : u # t => thread'[u] = thread[u]
<1>1. thread[t] \in Requests /\ thread' = [thread EXCEPT ![t] = [thread[t] EXCEPT !.pc = s]]
  BY Zenon DEF TypeOK, Go, Become
<1>2. thread'[t] = [thread[t] EXCEPT !.pc = s] /\ \A u \in Threads : u # t => thread'[u] = thread[u]
  BY <1>1, Zenon DEF TypeOK
<1> QED BY <1>1, <1>2 DEF Requests

\* The same for the steps that end or begin anew.
LEMMA DoneFacts ==
    ASSUME TypeOK, NEW t \in Threads, Done(t) \/ Pass(t) \/ Become(t, [Idle EXCEPT !.pc = "issue"])
    PROVE  /\ thread'[t].pc \in {"idle", "view", "issue"} /\ thread'[t].cleared = FALSE
           /\ \A u \in Threads : u # t => thread'[u] = thread[u]
<1>1. CASE Done(t)
  BY <1>1, IdleType, BecomeType DEF Done, TypeOK, Idle
<1>2. CASE Pass(t)
  BY <1>2, PassType, BecomeType, ZenonT(60) DEF TypeOK
<1>3. CASE Become(t, [Idle EXCEPT !.pc = "issue"])
  <2> DEFINE r == [Idle EXCEPT !.pc = "issue"]
  <2>1. r \in Requests /\ r.pc = "issue" /\ r.cleared = FALSE
    BY Zenon DEF Idle, Requests, Steps, Spent
  <2>2. Become(t, r)
    BY <1>3, Zenon
  <2> HIDE DEF r
  <2> QED BY <2>1, <2>2, BecomeType, Zenon DEF TypeOK
<1> QED BY <1>1, <1>2, <1>3, Zenon

\* What the steps keep of the token a request handles: a token in Redis has a row
\* that is not about to be pruned, and only an unspent token is on its way to a pass.
RowOK(r) ==
    /\ (r.pc = "store" \/ (r.pc = "row" /\ r.hit)) =>
          status[r.token] # "absent" /\ age[r.token] # "old"
    /\ r.pc = "row" /\ status[r.token] = "pending" => r.fresh
    /\ r.pc = "save" => r.fresh /\ (r.verdict = "solved" => age[r.token] # "old")
    /\ r.pc \in Granted => r.fresh /\ status[r.token] \in Spent /\ age[r.token] # "old"

Rows ==
    /\ \A k \in cached : status[k] # "absent" /\ age[k] # "old"
    /\ \A t \in Threads : RowOK(thread[t])

\* A request that does not handle a token has nothing to keep.
LEMMA Unhandled == ASSUME NEW r, r.pc \notin Handling PROVE RowOK(r)
BY Zenon DEF RowOK, Handling, Granted

\* The same of the request a step leaves.
LEMMA UnhandledAfter ==
    ASSUME NEW t \in Threads, thread'[t].pc \notin Handling PROVE RowOK(thread[t])'
BY Zenon DEF RowOK, Handling, Granted

\* A request that no step of its own disturbs.
LEMMA OtherRow ==
    ASSUME TypeOK, NEW u \in Threads, RowOK(thread[u]),
           \A f \in {"pc", "token", "hit", "verdict", "fresh"} : thread'[u][f] = thread[u][f],
           thread[u].token \in Tokens =>
              /\ age[thread[u].token] # "old" => age'[thread[u].token] # "old"
              /\ \/ status'[thread[u].token] = status[thread[u].token]
                 \/ status[thread[u].token] # "absent" /\ status'[thread[u].token] \in Spent
    PROVE  RowOK(thread[u])'
<1>1. CASE thread[u].pc \notin Handling
  BY <1>1, UnhandledAfter, Zenon
<1>2. CASE thread[u].pc \in Handling
  <2>1. thread[u].token \in Tokens
    BY <1>2, Zenon DEF TypeOK
  <2> QED BY <2>1, Zenon DEF RowOK, Spent
<1> QED BY <1>1, <1>2, Zenon

\* The steps of the middleware handle no token.
LEMMA QuietFacts ==
    ASSUME TypeOK, NEW t \in Threads,
           \/ \E page, bot \in BOOLEAN : Request(t, page, bot)
           \/ Evaluate(t) \/ GetCount(t) \/ GetSolved(t) \/ DeleteCount(t) \/ CountFails(t)
           \/ Escalate(t) \/ Deny(t) \/ Challenge(t)
    PROVE  /\ thread'[t].pc \notin Handling
           /\ \A u \in Threads : u # t => thread'[u] = thread[u]
           /\ UNCHANGED tokenVars
<1>0. thread[t] \in Requests /\ {"idle", "view", "issue"} \cap Handling = {}
  BY Zenon DEF TypeOK, Handling, Granted
<1>u. UNCHANGED tokenVars
  BY Zenon DEF Request, Evaluate, GetCount, GetSolved, DeleteCount, CountFails, Escalate, Deny, Challenge
<1>1. ASSUME NEW page \in BOOLEAN, NEW bot \in BOOLEAN, Request(t, page, bot)
      PROVE  thread'[t].pc \notin Handling /\ \A u \in Threads : u # t => thread'[u] = thread[u]
  <2> DEFINE r == [Idle EXCEPT !.pc = "evaluate", !.page = page, !.bot = bot, !.cleared = solved]
             q == [Idle EXCEPT !.pc = "view", !.page = FALSE, !.bot = bot]
  <2>1. r \in Requests /\ r.pc = "evaluate" /\ q \in Requests /\ q.pc = "view"
    BY Zenon DEF TypeOK, Idle, Requests, Steps, Spent
  <2>2. Become(t, r) \/ Become(t, q)
    BY <1>1, Zenon DEF Request
  <2> HIDE DEF r, q
  <2> QED BY <2>1, <2>2, BecomeType, Zenon DEF TypeOK, Handling, Granted
<1>2. CASE GetCount(t)
  <2> DEFINE high == challenged >= Threshold
             s == IF challenged = 0 THEN "challenge" ELSE IF thread[t].bot THEN Verdict(high) ELSE "flag"
             r == [thread[t] EXCEPT !.reached = high, !.pc = s]
  <2>1. high \in BOOLEAN /\ s \in Steps \ Handling
    BY DEF Verdict, Steps, Handling, Granted
  <2>2. Become(t, r)
    BY <1>2, Zenon DEF GetCount
  <2> HIDE DEF high, s
  <2>3. r \in Requests /\ r.pc = s
    BY <1>0, <2>1, Zenon DEF Requests
  <2> HIDE DEF r
  <2> QED BY <1>u, <2>1, <2>2, <2>3, BecomeType, Zenon DEF TypeOK
<1>3. CASE \/ Evaluate(t) \/ GetSolved(t) \/ DeleteCount(t) \/ CountFails(t)
           \/ Escalate(t) \/ Deny(t) \/ Challenge(t)
  <2>1. Done(t) \/ Pass(t) \/ \E s \in Steps \ Handling : Go(t, s)
    BY <1>3, Zenon DEF Evaluate, GetSolved, DeleteCount, CountFails, Escalate, Deny, Challenge,
                Verdict, Steps, Handling, Granted
  <2> QED BY <1>0, <1>u, <2>1, GoFacts, DoneFacts, ZenonT(60)
<1> QED BY <1>1, <1>2, <1>3, <1>u, Zenon

\* The steps that issue and verify tokens keep them in order.
LEMMA TokenRows ==
    ASSUME TypeOK, Rows, NEW t \in Threads,
           \/ CreateToken(t) \/ StoreToken(t)
           \/ \E k \in Tokens : BeginVerify(t, k)
           \/ \E own, good \in BOOLEAN : ReadRow(t, own, good)
           \/ SaveStatus(t) \/ ConsumeToken(t) \/ SetSolved(t) \/ Uncount(t)
    PROVE  Rows'
<1>0. /\ thread[t] \in Requests /\ thread[t].verdict \in Spent /\ RowOK(thread[t])
      /\ {"idle", "view", "issue"} \cap Handling = {}
  BY Zenon DEF TypeOK, Requests, Rows, Handling, Granted
<1>1. CASE CreateToken(t)
  <2>1. CASE Done(t) /\ UNCHANGED tokenVars
    BY <1>0, <2>1, DoneFacts, UnhandledAfter, OtherRow, Zenon DEF Rows, tokenVars
  <2>2. ASSUME NEW k \in Tokens, status[k] = "absent", \A u \in Threads : ~Holds(u, k),
               status' = [status EXCEPT ![k] = "pending"], age' = [age EXCEPT ![k] = "live"],
               UNCHANGED cached, Become(t, [Idle EXCEPT !.pc = "store", !.token = k])
        PROVE  Rows'
    <3> DEFINE r == [Idle EXCEPT !.pc = "store", !.token = k]
    <3>1. r \in Requests /\ r.pc = "store" /\ r.token = k
      BY Zenon DEF Idle, Requests, Steps, Spent
    <3>2. Become(t, r)
      BY <2>2, Zenon
    <3> HIDE DEF r
    <3>3. /\ thread'[t].pc = "store" /\ thread'[t].token = k
          /\ \A u \in Threads : u # t => thread'[u] = thread[u]
      BY <3>1, <3>2, BecomeType, Zenon DEF TypeOK
    <3>4. \A j \in Tokens : /\ age'[j] = IF j = k THEN "live" ELSE age[j]
                            /\ status'[j] = IF j = k THEN "pending" ELSE status[j]
      BY <2>2, Zenon DEF TypeOK
    <3>5. RowOK(thread[t])'
      BY <3>3, <3>4, Zenon DEF RowOK, Granted
    <3>6. ASSUME NEW u \in Threads, u # t PROVE RowOK(thread[u])'
      BY <2>2, <3>3, <3>4, <3>6, OtherRow DEF Rows, Holds
    <3>7. \A j \in cached' : status'[j] # "absent" /\ age'[j] # "old"
      BY <2>2, <3>4, Zenon DEF Rows, TypeOK
    <3> QED BY <3>5, <3>6, <3>7, Zenon DEF Rows
  <2> QED BY <1>1, <2>1, <2>2, Zenon DEF CreateToken, tokenVars
<1>2. CASE StoreToken(t)
  <2>1. thread'[t].pc \notin Handling /\ \A u \in Threads : u # t => thread'[u] = thread[u]
    BY <1>0, <1>2, DoneFacts, Zenon DEF StoreToken
  <2>2. UNCHANGED <<status, age>> /\ cached' \subseteq cached \cup {thread[t].token}
    BY <1>2, Zenon DEF StoreToken
  <2>3. status[thread[t].token] # "absent" /\ age[thread[t].token] # "old"
    BY <1>0, <1>2, Zenon DEF StoreToken, At, RowOK
  <2>4. \A u \in Threads : RowOK(thread[u])'
    BY <2>1, <2>2, UnhandledAfter, OtherRow, Zenon DEF Rows
  <2> QED BY <2>2, <2>3, <2>4, Zenon DEF Rows
<1>3. ASSUME NEW k \in Tokens, BeginVerify(t, k) PROVE Rows'
  <2> DEFINE hit == k \in cached
             fresh == status[k] = "pending"
             r == [thread[t] EXCEPT !.pc = "row", !.token = k, !.hit = hit, !.fresh = fresh]
  <2>1. hit \in BOOLEAN /\ fresh \in BOOLEAN
    OBVIOUS
  <2>2. (Become(t, r) \/ Done(t)) /\ UNCHANGED tokenVars
    BY <1>3, ZenonT(60) DEF BeginVerify
  <2>3. CASE Become(t, r)
    <3>0. (hit => k \in cached) /\ (status[k] = "pending" => fresh)
      BY Zenon
    <3> HIDE DEF hit, fresh
    <3>1. r \in Requests /\ r.pc = "row" /\ r.token = k /\ r.hit = hit /\ r.fresh = fresh
      BY <1>0, <2>1, Zenon DEF Requests, Steps
    <3> HIDE DEF r
    <3>2. thread'[t] = r /\ \A u \in Threads : u # t => thread'[u] = thread[u]
      BY <2>3, <3>1, BecomeType, Zenon DEF TypeOK
    <3>3. RowOK(thread[t])'
      BY <2>2, <3>0, <3>1, <3>2, Zenon DEF RowOK, Rows, Granted, tokenVars
    <3> QED BY <2>2, <3>2, <3>3, OtherRow, Zenon DEF Rows, tokenVars
  <2>4. CASE Done(t)
    BY <1>0, <2>2, <2>4, DoneFacts, UnhandledAfter, OtherRow, ZenonT(60) DEF Rows, tokenVars
  <2> QED BY <2>2, <2>3, <2>4, Zenon
<1>4. ASSUME NEW own \in BOOLEAN, NEW good \in BOOLEAN, ReadRow(t, own, good) PROVE Rows'
  <2>0. UNCHANGED tokenVars /\ thread[t].pc = "row"
    BY <1>4, Zenon DEF ReadRow, At
  <2>1. CASE Done(t) \/ Become(t, [Idle EXCEPT !.pc = "issue"])
    BY <1>0, <2>0, <2>1, DoneFacts, UnhandledAfter, OtherRow, Zenon DEF Rows, tokenVars
  <2>2. ASSUME NEW v \in Spent, Become(t, [thread[t] EXCEPT !.pc = "save", !.verdict = v]),
               status[thread[t].token] = "pending", v = "solved" => age[thread[t].token] = "live"
        PROVE  Rows'
    <3> DEFINE r == [thread[t] EXCEPT !.pc = "save", !.verdict = v]
    <3>1. r \in Requests /\ r.pc = "save" /\ r.verdict = v
          /\ r.token = thread[t].token /\ r.fresh = thread[t].fresh
      BY <1>0, Zenon DEF Requests, Steps
    <3>2. Become(t, r)
      BY <2>2, Zenon
    <3> HIDE DEF r
    <3>3. thread'[t] = r /\ \A u \in Threads : u # t => thread'[u] = thread[u]
      BY <3>1, <3>2, BecomeType, Zenon DEF TypeOK
    <3>4. thread[t].fresh
      BY <1>0, <2>0, <2>2, Zenon DEF RowOK
    <3>5. RowOK(thread[t])'
      BY <2>0, <2>2, <3>1, <3>3, <3>4, Zenon DEF RowOK, Granted, tokenVars
    <3> QED BY <2>0, <3>3, <3>5, OtherRow, Zenon DEF Rows, tokenVars
  <2> QED BY <1>4, <2>1, <2>2, Zenon DEF ReadRow, Spent
<1>5. CASE SaveStatus(t)
  <2>0. UNCHANGED <<age, cached>> /\ thread[t].pc = "save" /\ thread[t].token \in Tokens
    BY <1>5, Zenon DEF SaveStatus, At, TypeOK, Handling
  <2>1. CASE Done(t) /\ UNCHANGED status
    BY <1>0, <2>0, <2>1, DoneFacts, UnhandledAfter, OtherRow, Zenon DEF Rows
  <2>2. CASE /\ status[thread[t].token] # "absent"
             /\ status' = [status EXCEPT ![thread[t].token] = thread[t].verdict]
             /\ \/ thread[t].verdict = "solved" /\ Go(t, "consume")
                \/ Become(t, [Idle EXCEPT !.pc = "issue"])
    <3>1. \A j \in Tokens : \/ status'[j] = status[j]
                            \/ status[j] # "absent" /\ status'[j] \in Spent
      BY <1>0, <2>2, Zenon DEF TypeOK
    <3>2. \A u \in Threads : u # t => thread'[u] = thread[u]
      BY <2>2, GoFacts, DoneFacts, ZenonT(60) DEF Steps
    <3>3. RowOK(thread[t])'
      <4>1. CASE thread[t].verdict = "solved" /\ Go(t, "consume")
        <5>1. thread'[t].pc = "consume" /\ thread'[t].token = thread[t].token /\ thread'[t].fresh = thread[t].fresh
          BY <4>1, GoFacts, Zenon DEF Steps
        <5>2. status'[thread[t].token] = "solved"
          BY <2>0, <2>2, <4>1, Zenon DEF TypeOK
        <5>3. thread[t].fresh /\ age[thread[t].token] # "old"
          BY <1>0, <2>0, <4>1, Zenon DEF RowOK
        <5> QED BY <2>0, <5>1, <5>2, <5>3, Zenon DEF RowOK, Spent
      <4>2. CASE Become(t, [Idle EXCEPT !.pc = "issue"])
        BY <1>0, <4>2, DoneFacts, UnhandledAfter, ZenonT(60)
      <4> QED BY <2>2, <4>1, <4>2, Zenon
    <3>4. ASSUME NEW u \in Threads, u # t PROVE RowOK(thread[u])'
      BY <2>0, <3>1, <3>2, <3>4, OtherRow, Zenon DEF Rows
    <3>5. \A j \in cached' : status'[j] # "absent" /\ age'[j] # "old"
      BY <2>0, <3>1, Zenon DEF Rows, TypeOK, Spent
    <3> QED BY <3>3, <3>4, <3>5, Zenon DEF Rows
  <2> QED BY <1>5, <2>1, <2>2, Zenon DEF SaveStatus
<1>6. CASE ConsumeToken(t) \/ SetSolved(t) \/ Uncount(t)
  <2>1. /\ UNCHANGED <<status, age>> /\ cached' \subseteq cached
        /\ Done(t) \/ Go(t, "clear") \/ Go(t, "uncount")
        /\ thread[t].pc \in Granted
    BY <1>6, Zenon DEF ConsumeToken, SetSolved, Uncount, tokenVars, At, Granted
  <2>2. \A u \in Threads : u # t => thread'[u] = thread[u]
    BY <2>1, GoFacts, DoneFacts, ZenonT(60) DEF Steps
  <2>3. RowOK(thread[t])'
    <3>1. CASE Done(t)
      BY <1>0, <3>1, DoneFacts, UnhandledAfter, Zenon
    <3>2. CASE Go(t, "clear") \/ Go(t, "uncount")
      <4>1. /\ thread'[t].pc \in {"clear", "uncount"} /\ thread'[t].token = thread[t].token
            /\ thread'[t].fresh = thread[t].fresh
        BY <3>2, GoFacts, Zenon DEF Steps
      <4> QED BY <1>0, <2>1, <4>1, Zenon DEF RowOK, Granted
    <3> QED BY <2>1, <3>1, <3>2, Zenon
  <2> QED BY <2>1, <2>2, <2>3, OtherRow, Zenon DEF Rows
<1> QED BY <1>1, <1>2, <1>3, <1>4, <1>5, <1>6, Zenon

\* One step of any action keeps the tokens in order.
LEMMA StepRows ==
    ASSUME TypeOK, Rows, [Next]_vars
    PROVE  Rows'
<1>1. CASE UNCHANGED vars
  BY <1>1, Zenon DEF vars, tokenVars, Rows, RowOK
<1>2. ASSUME NEW t \in Threads, Serve(t) PROVE Rows'
  <2>1. CASE \/ \E page, bot \in BOOLEAN : Request(t, page, bot)
             \/ Evaluate(t) \/ GetCount(t) \/ GetSolved(t) \/ DeleteCount(t) \/ CountFails(t)
             \/ Escalate(t) \/ Deny(t) \/ Challenge(t)
    <3>1. /\ thread'[t].pc \notin Handling /\ UNCHANGED tokenVars
          /\ \A u \in Threads : u # t => thread'[u] = thread[u]
      BY <2>1, QuietFacts, Zenon
    <3> QED BY <3>1, UnhandledAfter, OtherRow, Zenon DEF Rows, tokenVars
  <2> QED BY <1>2, <2>1, TokenRows, Zenon DEF Serve
<1>3. CASE Lapse
  <2>1. UNCHANGED tokenVars
    BY <1>3, Zenon DEF Lapse
  <2>2. \A u \in Threads : \A f \in {"pc", "token", "hit", "verdict", "fresh"} : thread'[u][f] = thread[u][f]
    BY <1>3, LapseThreads, ZenonT(60)
  <2> QED BY <2>1, <2>2, OtherRow, Zenon DEF Rows, tokenVars
<1>4. ASSUME NEW k \in Tokens, ExpireToken(k) \/ AgeToken(k) PROVE Rows'
  <2>1. UNCHANGED <<status, thread>> /\ cached' \subseteq cached
    BY <1>4, Zenon DEF ExpireToken, AgeToken
  <2>2. \A j \in Tokens : (age[j] # "old" /\ age'[j] = "old") => (j = k /\ AgeToken(k))
    BY <1>4, Zenon DEF ExpireToken, AgeToken, TypeOK
  <2>3. \A u \in Threads : AgeToken(k) => thread[u].token # k
    BY Zenon DEF AgeToken, Holds
  <2>4. \A u \in Threads : RowOK(thread[u])'
    BY <2>1, <2>2, <2>3, OtherRow, Zenon DEF Rows
  <2>5. AgeToken(k) => k \notin cached
    BY Zenon DEF AgeToken
  <2> QED BY <2>1, <2>2, <2>4, <2>5, Zenon DEF Rows, TypeOK
<1>5. ASSUME NEW k \in Tokens, Prune(k) PROVE Rows'
  <2>1. /\ UNCHANGED <<age, cached, thread>> /\ age[k] = "old" /\ status[k] \in {"pending", "failed"}
        /\ \A j \in Tokens : status'[j] = IF j = k THEN "absent" ELSE status[j]
    BY <1>5, Zenon DEF Prune, TypeOK
  <2>2. ASSUME NEW u \in Threads PROVE RowOK(thread[u])'
    <3>1. RowOK(thread[u])
      BY Zenon DEF Rows
    <3>2. CASE thread[u].pc \notin Handling
      BY <2>1, <3>2, UnhandledAfter, Zenon
    <3>3. CASE thread[u].pc \in Handling
      <4>1. thread[u].token \in Tokens
        BY <3>3, Zenon DEF TypeOK
      <4> QED BY <2>1, <3>1, <4>1, Zenon DEF RowOK
    <3> QED BY <3>2, <3>3, Zenon
  <2>3. \A j \in cached : status'[j] # "absent" /\ age[j] # "old"
    BY <2>1, Zenon DEF Rows, TypeOK
  <2> QED BY <2>1, <2>2, <2>3, Zenon DEF Rows
<1> QED BY <1>1, <1>2, <1>3, <1>4, <1>5, Zenon DEF Next

\* There are no tokens at first.
LEMMA InitRows == Init => Rows
<1>1. Init => \A t \in Threads : thread[t].pc \notin Handling
  BY DEF Init, Idle, Handling, Granted
<1> QED BY <1>1, Unhandled, Zenon DEF Init, Rows

\* Rows holds in every reachable state.
LEMMA RowsAlways == Spec => [](TypeOK /\ Rows)
<1>1. TypeOK /\ Rows /\ [Next]_vars => (TypeOK /\ Rows)'
  BY StepType, StepRows, Zenon
<1> QED BY <1>1, InitType, InitRows, PTL DEF Spec

\* verify_challenge_solution grants a pass only for a token that was pending when
\* the verification began, and leaves it spent: with any number of threads that
\* race for it, requests in flight while tokens expire and are pruned, and faults.
THEOREM SpentTokensNeverPass == Spec => []SpentNeverPasses
<1>1. Rows => SpentNeverPasses
  BY Zenon DEF Rows, RowOK, SpentNeverPasses
<1> QED BY <1>1, RowsAlways, PTL

\* prune_challenge_tokens never takes the row from under a token in Redis, or from
\* under a verification that found it there.
THEOREM CachedTokensHaveRows == Spec => []CachedHasRow
<1>1. Rows => CachedHasRow
  BY Zenon DEF Rows, RowOK, CachedHasRow, At
<1> QED BY <1>1, RowsAlways, PTL

----------------------------------------------------------------------------
(* The gate between a challenge and a block *)

\* A request that is going to be challenged, whatever the counter says from now on.
Due(r) == r.pc = "challenge" \/ (r.pc = "flag" /\ ~r.reached)

\* The steps that lead there, and the ones that lead to an escalation.
LEMMA GateFacts ==
    ASSUME TypeOK, NEW t \in Threads, Serve(t)
    PROVE  /\ \A u \in Threads : u # t => thread'[u] = thread[u]
           /\ thread'[t].cleared => thread[t].cleared \/ solved
           /\ thread'[t].pc = "escalate" =>
                 \/ thread'[t].bot
                 \/ ~solved /\ thread'[t].cleared = thread[t].cleared
           /\ Due(thread'[t]) =>
                 \/ CountFails(t) \/ DeleteCount(t)
                 \/ GetCount(t) /\ challenged < Threshold
                 \/ GetSolved(t) /\ Due(thread[t])
<1>0. thread[t] \in Requests
  BY Zenon DEF TypeOK
<1>1. ASSUME NEW page \in BOOLEAN, NEW bot \in BOOLEAN, Request(t, page, bot)
      PROVE  /\ \A u \in Threads : u # t => thread'[u] = thread[u]
             /\ thread'[t].cleared => solved
             /\ thread'[t].pc \in {"evaluate", "view"}
  <2> DEFINE r == [Idle EXCEPT !.pc = "evaluate", !.page = page, !.bot = bot, !.cleared = solved]
             q == [Idle EXCEPT !.pc = "view", !.page = FALSE, !.bot = bot]
  <2>1. /\ r \in Requests /\ r.pc = "evaluate" /\ r.cleared = solved
        /\ q \in Requests /\ q.pc = "view" /\ q.cleared = FALSE
    BY Zenon DEF TypeOK, Idle, Requests, Steps, Spent
  <2>2. Become(t, r) \/ Become(t, q)
    BY <1>1, Zenon DEF Request
  <2> HIDE DEF r, q
  <2> QED BY <2>1, <2>2, BecomeType, Zenon DEF TypeOK
<1>2. CASE GetCount(t)
  <2> DEFINE high == challenged >= Threshold
             s == IF challenged = 0 THEN "challenge" ELSE IF thread[t].bot THEN Verdict(high) ELSE "flag"
             r == [thread[t] EXCEPT !.reached = high, !.pc = s]
  <2>1. high \in BOOLEAN /\ s \in Steps
    BY DEF Verdict, Steps
  <2>2. (s = "escalate" => thread[t].bot) /\ (s = "challenge" \/ (s = "flag" /\ ~high) => challenged < Threshold)
    BY TrafficConstants DEF Verdict, TypeOK
  <2>3. Become(t, r)
    BY <1>2, Zenon DEF GetCount
  <2> HIDE DEF high, s
  <2>4. /\ r \in Requests /\ r.pc = s /\ r.reached = high
        /\ r.bot = thread[t].bot /\ r.cleared = thread[t].cleared
    BY <1>0, <2>1, ZenonT(60) DEF Requests
  <2> HIDE DEF r
  <2>5. thread'[t] = r /\ \A u \in Threads : u # t => thread'[u] = thread[u]
    BY <2>3, <2>4, BecomeType, Zenon DEF TypeOK
  <2> QED BY <1>2, <2>2, <2>4, <2>5, Zenon DEF Due
<1>3. CASE GetSolved(t)
  <2>1. thread[t].pc = "flag" /\ Go(t, IF solved THEN "reset" ELSE Verdict(thread[t].reached))
    BY <1>3, Zenon DEF GetSolved, At
  <2>2. PICK s \in Steps : /\ Go(t, s)
                           /\ s = "escalate" => ~solved
                           /\ s = "challenge" => ~thread[t].reached
                           /\ s # "flag"
    BY <2>1, Zenon DEF Verdict, Steps
  <2>3. /\ thread'[t].pc = s /\ thread'[t].cleared = thread[t].cleared
        /\ \A u \in Threads : u # t => thread'[u] = thread[u]
    BY <2>2, GoFacts, Zenon
  <2> QED BY <1>3, <2>1, <2>2, <2>3, Zenon DEF Due
<1>4. CASE DeleteCount(t) \/ CountFails(t)
  <2>1. Go(t, "challenge")
    BY <1>4, Zenon DEF DeleteCount, CountFails
  <2> QED BY <1>4, <2>1, GoFacts, Zenon DEF Steps
<1>5. CASE \/ Evaluate(t) \/ Escalate(t) \/ Deny(t) \/ Challenge(t)
           \/ StoreToken(t) \/ SaveStatus(t) \/ ConsumeToken(t) \/ SetSolved(t) \/ Uncount(t)
  <2>1. \/ Done(t) \/ Pass(t) \/ Become(t, [Idle EXCEPT !.pc = "issue"])
        \/ \E s \in {"deny", "count", "consume", "clear", "uncount"} : Go(t, s)
    BY <1>5, Zenon DEF Evaluate, Escalate, Deny, Challenge, StoreToken, SaveStatus, ConsumeToken, SetSolved, Uncount
  <2>2. CASE Done(t) \/ Pass(t) \/ Become(t, [Idle EXCEPT !.pc = "issue"])
    BY <2>2, DoneFacts, ZenonT(60) DEF Due
  <2>3. ASSUME NEW s \in {"deny", "count", "consume", "clear", "uncount"}, Go(t, s)
        PROVE  /\ \A u \in Threads : u # t => thread'[u] = thread[u]
               /\ thread'[t].cleared = thread[t].cleared
               /\ thread'[t].pc = s
    BY <2>3, GoFacts, ZenonT(60) DEF Steps
  <2> QED BY <2>1, <2>2, <2>3, Zenon DEF Due
<1>6. CASE CreateToken(t)
  <2>1. ASSUME NEW k \in Tokens, Become(t, [Idle EXCEPT !.pc = "store", !.token = k])
        PROVE  /\ \A u \in Threads : u # t => thread'[u] = thread[u]
               /\ thread'[t].cleared = FALSE /\ thread'[t].pc = "store"
    <3> DEFINE r == [Idle EXCEPT !.pc = "store", !.token = k]
    <3>1. r \in Requests /\ r.pc = "store" /\ r.cleared = FALSE
      BY Zenon DEF Idle, Requests, Steps, Spent
    <3>2. Become(t, r)
      BY <2>1, Zenon
    <3> HIDE DEF r
    <3> QED BY <3>1, <3>2, BecomeType, Zenon DEF TypeOK
  <2>2. (\E k \in Tokens : Become(t, [Idle EXCEPT !.pc = "store", !.token = k])) \/ Done(t)
    BY <1>6, Zenon DEF CreateToken
  <2> QED BY <2>1, <2>2, DoneFacts, Zenon DEF Due
<1>7. ASSUME NEW k \in Tokens, BeginVerify(t, k)
      PROVE  /\ \A u \in Threads : u # t => thread'[u] = thread[u]
             /\ thread'[t].cleared => thread[t].cleared
             /\ thread'[t].pc \in {"idle", "view", "issue", "row"}
  <2> DEFINE hit == k \in cached
             fresh == status[k] = "pending"
             r == [thread[t] EXCEPT !.pc = "row", !.token = k, !.hit = hit, !.fresh = fresh]
  <2>1. hit \in BOOLEAN /\ fresh \in BOOLEAN
    OBVIOUS
  <2>2. Become(t, r) \/ Done(t)
    BY <1>7, Zenon DEF BeginVerify
  <2> HIDE DEF hit, fresh
  <2>3. r \in Requests /\ r.pc = "row" /\ r.cleared = thread[t].cleared
    BY <1>0, <2>1, ZenonT(60) DEF Requests, Steps
  <2> HIDE DEF r
  <2> QED BY <2>2, <2>3, BecomeType, DoneFacts, Zenon DEF TypeOK
<1>8. ASSUME NEW own \in BOOLEAN, NEW good \in BOOLEAN, ReadRow(t, own, good)
      PROVE  /\ \A u \in Threads : u # t => thread'[u] = thread[u]
             /\ thread'[t].cleared => thread[t].cleared
             /\ thread'[t].pc \in {"idle", "view", "issue", "save"}
  <2>1. \/ Done(t) \/ Become(t, [Idle EXCEPT !.pc = "issue"])
        \/ \E v \in Spent : Become(t, [thread[t] EXCEPT !.pc = "save", !.verdict = v])
    BY <1>8, Zenon DEF ReadRow, Spent
  <2>2. ASSUME NEW v \in Spent, Become(t, [thread[t] EXCEPT !.pc = "save", !.verdict = v])
        PROVE  /\ \A u \in Threads : u # t => thread'[u] = thread[u]
               /\ thread'[t].cleared = thread[t].cleared /\ thread'[t].pc = "save"
    <3> DEFINE r == [thread[t] EXCEPT !.pc = "save", !.verdict = v]
    <3>1. r \in Requests /\ r.pc = "save" /\ r.cleared = thread[t].cleared
      BY <1>0, Zenon DEF Requests, Steps
    <3>2. Become(t, r)
      BY <2>2, Zenon
    <3> HIDE DEF r
    <3> QED BY <3>1, <3>2, BecomeType, Zenon DEF TypeOK
  <2> QED BY <2>1, <2>2, DoneFacts, Zenon
<1> QED BY <1>1, <1>2, <1>3, <1>4, <1>5, <1>6, <1>7, <1>8, Zenon DEF Serve, Due

\* A history flag that stands means the solved key stands, and an escalation finds
\* it down or concerns a bot.
Cleared ==
    \A t \in Threads :
        /\ thread[t].cleared => solved
        /\ thread[t].pc = "escalate" /\ thread[t].cleared => thread[t].bot

\* One step of any action keeps that.
LEMMA StepCleared ==
    ASSUME TypeOK, Cleared, [Next]_vars
    PROVE  Cleared'
<1>1. CASE UNCHANGED vars
  BY <1>1, Zenon DEF vars, redisVars, Cleared
<1>2. ASSUME NEW t \in Threads, Serve(t) PROVE Cleared'
  <2>1. solved => solved'
    BY <1>2, Zenon DEF Serve, Request, Evaluate, GetCount, GetSolved, DeleteCount, CountFails, Escalate, Deny,
                Challenge, CreateToken, StoreToken, BeginVerify, ReadRow, SaveStatus, ConsumeToken,
                SetSolved, Uncount, redisVars
  <2> QED BY <1>2, <2>1, GateFacts, Zenon DEF Cleared
<1>3. CASE Lapse
  BY <1>3, LapseThreads DEF Cleared
<1>4. ASSUME NEW k \in Tokens, ExpireToken(k) \/ AgeToken(k) \/ Prune(k) PROVE Cleared'
  BY <1>4 DEF ExpireToken, AgeToken, Prune, Cleared, redisVars
<1> QED BY <1>1, <1>2, <1>3, <1>4, Zenon DEF Next

\* A client that solved a challenge is not escalated for the challenges it was
\* given, unless its fingerprint is a bot's: however the threads interleave.
THEOREM SolversNotEscalated == Spec => []SolvedNotEscalated
<1>1. Init => Cleared
  BY DEF Init, Idle, Cleared
<1>2. TypeOK /\ Cleared /\ [Next]_vars => Cleared'
  BY StepCleared, Zenon
<1>3. Cleared => SolvedNotEscalated
  BY Zenon DEF Cleared, SolvedNotEscalated, At
<1> QED BY <1>1, <1>2, <1>3, TypeCorrect, PTL DEF Spec

----------------------------------------------------------------------------
(* How far the counter gets past the threshold *)

\* The threads whose requests are going to be challenged.
Pending == {t \in Threads : Due(thread[t])}

\* The counter, and what is on its way to it.
Counted == ~blind => challenged + Cardinality(Pending) <= Threshold - 1 + Cardinality(Threads)

\* There are at most as many pending challenges as threads.
LEMMA PendingFinite ==
    /\ IsFiniteSet(Threads) /\ Cardinality(Threads) \in Nat
    /\ IsFiniteSet(Pending) /\ Cardinality(Pending) \in Nat
    /\ Cardinality(Pending) <= Cardinality(Threads)
<1>1. IsFiniteSet(Threads)
  BY TrafficConstants, Zenon
<1>2. Pending \in SUBSET Threads
  BY Zenon DEF Pending
<1>3. IsFiniteSet(Pending) /\ Cardinality(Pending) <= Cardinality(Threads)
  BY <1>1, <1>2, FS_Subset, Zenon
<1> QED BY <1>1, <1>3, FS_CardinalityType, Zenon

\* The same after a step.
LEMMA PendingFiniteAfter ==
    /\ IsFiniteSet(Pending') /\ Cardinality(Pending') \in Nat
    /\ Cardinality(Pending') <= Cardinality(Threads)
<1>1. IsFiniteSet(Threads)
  BY TrafficConstants, Zenon
<1>2. Pending' \in SUBSET Threads
  BY Zenon DEF Pending
<1>3. IsFiniteSet(Pending') /\ Cardinality(Pending') <= Cardinality(Threads)
  BY <1>1, <1>2, FS_Subset, Zenon
<1> QED BY <1>1, <1>3, FS_CardinalityType, Zenon

\* A step that adds neither to the counter nor to what is pending.
LEMMA NoMorePending ==
    ASSUME TypeOK, Counted, challenged' \in Nat, challenged' <= challenged, Pending' \subseteq Pending, blind' = blind
    PROVE  Counted'
<1>1. Cardinality(Pending') <= Cardinality(Pending)
  BY PendingFinite, FS_Subset, Zenon
<1>2. \A n, m, c, d, T \in Nat : \A H \in Nat : n <= m /\ c <= d /\ d + m <= H - 1 + T => c + n <= H - 1 + T
  OBVIOUS
<1> QED BY <1>1, <1>2, PendingFinite, PendingFiniteAfter, TrafficConstants, Zenon DEF Counted, TypeOK

\* A step that finds, or leaves, the counter below the threshold.
LEMMA BelowThreshold ==
    ASSUME challenged' \in Nat, challenged' < Threshold
    PROVE  Counted'
BY PendingFinite, PendingFiniteAfter, TrafficConstants DEF Counted

\* One step of any action keeps the count.
LEMMA StepCounted ==
    ASSUME TypeOK, Counted, [Next]_vars
    PROVE  Counted'
<1>0. challenged \in Nat /\ Threshold \in Nat \ {0}
  BY TrafficConstants, Zenon DEF TypeOK
<1>1. CASE UNCHANGED vars
  <2>1. challenged' = challenged /\ blind' = blind /\ thread' = thread
    BY <1>1, Zenon DEF vars, redisVars
  <2>2. Pending' \subseteq Pending
    BY <2>1, Zenon DEF Pending
  <2> QED BY <1>0, <2>1, <2>2, NoMorePending
<1>2. ASSUME NEW t \in Threads, Serve(t) PROVE Counted'
  <2>0. ~Due(thread'[t]) \/ Due(thread[t]) => Pending' \subseteq Pending
    BY <1>2, GateFacts, Zenon DEF Pending
  <2>1. CASE CountFails(t)
    BY <2>1, Zenon DEF CountFails, Counted
  <2>2. CASE DeleteCount(t)
    BY <1>0, <2>2, BelowThreshold DEF DeleteCount
  <2>3. CASE GetCount(t)
    <3>1. challenged' = challenged /\ blind' = blind
      BY <2>3, Zenon DEF GetCount, redisVars
    <3>2. CASE challenged < Threshold
      BY <1>0, <3>1, <3>2, BelowThreshold, Zenon
    <3>3. CASE ~(challenged < Threshold)
      <4>1. ~Due(thread'[t]) \/ CountFails(t) \/ DeleteCount(t) \/ GetSolved(t)
        BY <1>2, <3>3, GateFacts, Zenon
      <4>2. ~DeleteCount(t) /\ ~GetSolved(t)
        BY <2>3, Zenon DEF GetCount, DeleteCount, GetSolved, At
      <4> QED BY <1>0, <2>0, <2>1, <3>1, <4>1, <4>2, NoMorePending
    <3> QED BY <3>2, <3>3, Zenon
  <2>4. CASE Challenge(t)
    <3>1. thread[t].pc = "challenge" /\ Pass(t) /\ blind' = blind
          /\ (challenged' = challenged \/ challenged' = challenged + 1)
      BY <2>4, Zenon DEF Challenge, At
    <3>2. t \in Pending /\ ~Due(thread'[t])
      BY <3>1, DoneFacts, Zenon DEF Due, Pending
    <3>3. Pending' \in SUBSET (Pending \ {t})
      BY <1>2, <3>2, GateFacts, Zenon DEF Pending
    <3>4. IsFiniteSet(Pending \ {t}) /\ Cardinality(Pending \ {t}) = Cardinality(Pending) - 1
      BY <3>2, PendingFinite, FS_RemoveElement, Zenon
    <3>5. Cardinality(Pending') <= Cardinality(Pending) - 1
      BY <3>3, <3>4, FS_Subset
    <3> QED BY <1>0, <3>1, <3>5, PendingFinite, PendingFiniteAfter DEF Counted
  <2>5. CASE ~(CountFails(t) \/ DeleteCount(t) \/ GetCount(t) \/ Challenge(t))
    <3>1. (challenged' = challenged \/ challenged' = 0) /\ blind' = blind
      BY <1>2, <2>5, ZenonT(60) DEF Serve, Request, Evaluate, GetSolved, Escalate, Deny,
             CreateToken, StoreToken, BeginVerify, ReadRow, SaveStatus, ConsumeToken,
             SetSolved, Uncount, redisVars
    <3>2. Pending' \subseteq Pending
      BY <1>2, <2>0, <2>5, GateFacts, Zenon
    <3>3. challenged' \in Nat /\ challenged' <= challenged
      BY <1>0, <3>1
    <3> QED BY <3>1, <3>2, <3>3, NoMorePending, Zenon
  <2> QED BY <2>1, <2>2, <2>3, <2>4, <2>5, Zenon
<1>3. CASE Lapse
  <2>1. (challenged' = challenged \/ challenged' = 0) /\ blind' = blind
    BY <1>3, Zenon DEF Lapse
  <2>2. Pending' \subseteq Pending
    BY <1>3, LapseThreads, Zenon DEF Pending, Due
  <2>3. challenged' \in Nat /\ challenged' <= challenged
    BY <1>0, <2>1
  <2> QED BY <2>1, <2>2, <2>3, NoMorePending, Zenon
<1>4. ASSUME NEW k \in Tokens, ExpireToken(k) \/ AgeToken(k) \/ Prune(k) PROVE Counted'
  <2>1. challenged' = challenged /\ blind' = blind /\ thread' = thread
    BY <1>4, Zenon DEF ExpireToken, AgeToken, Prune, redisVars
  <2>2. Pending' \subseteq Pending
    BY <2>1, Zenon DEF Pending
  <2> QED BY <1>0, <2>1, <2>2, NoMorePending
<1> QED BY <1>1, <1>2, <1>3, <1>4, Zenon DEF Next

\* The gate's read of the counter and _handle_verdict's increment of it are two
\* steps, yet the counter passes the threshold by at most one per other thread,
\* for any number of threads and any threshold, while the counter can be read.
THEOREM ChallengesAlwaysBounded == Spec => []ChallengesBounded
<1>1. Init => Counted
  <2> SUFFICES ASSUME Init PROVE Counted
    BY Zenon
  <2>1. Pending = {}
    BY Zenon DEF Init, Idle, Pending, Due
  <2>2. Cardinality(Pending) = 0
    BY <2>1, FS_EmptySet, Zenon
  <2>3. Cardinality(Threads) \in Nat /\ Threshold \in Nat \ {0}
    BY PendingFinite, TrafficConstants, Zenon
  <2> QED BY <2>2, <2>3 DEF Init, Counted
<1>2. TypeOK /\ Counted /\ [Next]_vars => Counted'
  BY StepCounted, Zenon
<1>3. TypeOK /\ Counted => ChallengesBounded
  BY PendingFinite, TrafficConstants DEF TypeOK, Counted, ChallengesBounded
<1> QED BY <1>1, <1>2, <1>3, TypeCorrect, PTL DEF Spec
============================================================================
