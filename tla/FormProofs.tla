------------------------------ MODULE FormProofs ------------------------------
(***************************************************************************)
(* Proofs about protected forms, for all constants: the types, that a page *)
(* is never refused as a replay without having been used, that the owner   *)
(* of an account is alerted once, and that a spent token opens nothing.    *)
(***************************************************************************)
EXTENDS FormProtection, TLAPS, SequenceTheorems

Tickets == [form : Forms, ip : Ips, age : 0..ReplayTTL + 1]

----------------------------------------------------------------------------
(* The inductive invariant, in four parts *)

\* The story of a token: while it has not expired its marker is there, unless the
\* token was spent or the marker never set.
TokenInv ==
    /\ DOMAIN page = Nonces /\ \A n \in Nonces : page[n] \in Origins \cup {None}
    /\ age \in [Nonces -> 0..MaxAge]
    /\ marker \subseteq Nonces /\ consumed \subseteq Nonces /\ unmarked \subseteq Nonces
    /\ \A n \in Nonces : page[n] = None => age[n] = 0
    /\ \A n \in Nonces : page[n] # None /\ age[n] <= TokenTTL => n \in marker \cup consumed \cup unmarked

\* What threads, session and tickets hold; a thread has no finding about its token
\* before it has looked.
ThreadInv ==
    /\ session \in Seq(Records)
    /\ DOMAIN ticket = Keys /\ \A k \in Keys : ticket[k] \in Tickets \cup {None}
    /\ pc \in [Threads -> Steps]
    /\ DOMAIN req = Threads /\ DOMAIN check = Threads /\ DOMAIN result = Threads /\ DOMAIN copy = Threads
    /\ \A t \in Threads :
          /\ req[t].form \in Forms /\ req[t].origin \in Origins /\ req[t].sub \in Submissions
          /\ check[t].late \in BOOLEAN /\ check[t].blind \in BOOLEAN
          /\ result[t].verdict \in {"passed", "flagged", "blocked"}
          /\ copy[t] \in Seq(Records)
          /\ pc[t] \in {"idle", "token", "marker"} => check[t] = Unchecked

\* A reading of the clock is that of a token which is being checked, and was rendered.
ClockInv ==
    /\ clock \in [Threads -> 0..MaxAge]
    /\ \A t \in Threads :
          clock[t] # 0 => /\ pc[t] = "marker" /\ req[t].sub.token \in Nonces
                         /\ page[req[t].sub.token] # None

\* An account's counter and the alerts sent on its account.
CounterInv ==
    /\ failures \in [Ips \cup Accounts -> Nat] /\ alerted \in [Accounts -> Nat]
    /\ due \in [Accounts -> SUBSET Threads] /\ AlertedOnce

IInv == TokenInv /\ ThreadInv /\ ClockInv /\ CounterInv /\ NoFalseReplay

----------------------------------------------------------------------------
(* Lemmas on the operators *)

\* A field posted once is seen as it was posted.
LEMMA LastOfOne ==
    ASSUME NEW x
    PROVE  Last(<<x>>) = x
BY SMT DEF Last

\* The hidden fields of a rendered page, however it is filled in, make a submission.
LEMMA FillType ==
    ASSUME NEW n \in Nonces \cup {""}, NEW how
    PROVE  scalarise_submitted_data(Fill(n, how)) \in Submissions
<1> DEFINE nonce == BoundNonce(n, "form_id")
           Hand(value) == <<IF how = "bare" THEN "" ELSE value>>
           Script(value, without) == Hand(IF how = "human" THEN value ELSE without)
<1>1. nonce \in Fields
  BY Zenon DEF BoundNonce, Fields
<1>2. \A v : Last(Hand(v)) \in {"", v}
  <2> TAKE v
  <2> DEFINE value == IF how = "bare" THEN "" ELSE v
  <2>1. value \in {"", v}
    BY Zenon
  <2> HIDE DEF value
  <2>2. Last(<<value>>) = value
    BY LastOfOne, Zenon
  <2> QED
    BY <2>1, <2>2, Zenon DEF value
<1> DEFINE token == Last(Hand(IF how = "forged" THEN "forged" ELSE n))
           filled == Last(<<how = "filler">>)
           touch == Last(Script(nonce, "unset"))
           pow == Last(Script(nonce, ""))
           bind == Last(Hand(nonce))
<1>3. token \in Nonces \cup {"", "forged"}
  BY <1>2, Zenon
<1>4. filled \in BOOLEAN
  BY LastOfOne, Zenon
<1>5. touch \in Fields \cup {"unset"}
  BY <1>1, <1>2, Zenon DEF Fields
<1>6. pow \in Fields /\ bind \in Fields
  BY <1>1, <1>2, Zenon DEF Fields
<1>7. scalarise_submitted_data(Fill(n, how)) =
        [token |-> token, filled |-> filled, touch |-> touch, pow |-> pow, bind |-> bind]
  BY Zenon DEF scalarise_submitted_data, Fill
<1> HIDE DEF token, filled, touch, pow, bind
<1>8. [token |-> token, filled |-> filled, touch |-> touch, pow |-> pow, bind |-> bind] \in Submissions
  BY <1>3, <1>4, <1>5, <1>6, Zenon DEF Submissions
<1> QED
  BY <1>7, <1>8, Zenon

\* A replayed submission without its sensitive fields is a submission.
LEMMA FilteredType ==
    ASSUME NEW sub \in Submissions
    PROVE  filter_sensitive_fields(sub) \in Submissions
BY Zenon DEF filter_sensitive_fields, Submissions, Fields

\* The capped session is a sequence of what it was.
LEMMA CapType ==
    ASSUME NEW S, NEW stash \in Seq(S)
    PROVE  Cap(stash) \in Seq(S)
<1> MaxStash \in Nat
  BY FormConstants, Zenon
<1>1. CASE Len(stash) > MaxStash
  <2>1. /\ Len(stash) \in Nat
        /\ \A j \in (Len(stash) - MaxStash + 1)..Len(stash) : j \in 1..Len(stash)
    BY <1>1, SMT
  <2> QED
    BY <1>1, <2>1, SubSeqProperties, SMT DEF Cap
<1>2. CASE ~(Len(stash) > MaxStash)
  BY <1>2, Zenon DEF Cap
<1> QED
  BY <1>1, <1>2, Zenon

\* So is the session without one of its records.
LEMMA RemoveType ==
    ASSUME NEW S, NEW stash \in Seq(S), NEW i \in DOMAIN stash
    PROVE  RemoveAt(stash, i) \in Seq(S)
BY SMT DEF RemoveAt

\* The chain always reaches one of the three verdicts.
LEMMA VerdictType ==
    ASSUME NEW outs, NEW names
    PROVE  Verdict(outs, names) \in {"passed", "flagged", "blocked"}
BY Zenon DEF Verdict, _resolve_verdict

\* A token is refused as replayed only when it verifies, has not expired, is past the
\* grace period and its marker is gone.
LEMMA ReplayedOnly ==
    ASSUME NEW token, NEW a, NEW present \in BOOLEAN, NEW sameIp,
           render_token(token, a, present, sameIp) = blocked("render_token", "replayed")
    PROVE  Verified(token) /\ ~(a > TokenTTL) /\ ~present /\ a > Grace
<1> DEFINE replayed == blocked("render_token", "replayed")
<1>1. /\ passed # replayed /\ flagged(6, "render_token", "ip_changed") # replayed
      /\ \A d \in {"missing", "invalid", "expired"} : blocked("render_token", d) # replayed
  BY SMT DEF blocked, flagged, passed
<1> QED
  BY <1>1, Zenon DEF render_token

\* What has not been looked at is not refused as replayed.
LEMMA UncheckedPasses == Unchecked.first # blocked("render_token", "replayed")
BY SMT DEF Unchecked, passed, blocked

----------------------------------------------------------------------------
(* The parts of the invariant are kept *)

\* The invariant holds when the process starts.
LEMMA InitIInv == Init => IInv
<1> SUFFICES ASSUME Init PROVE IInv
  OBVIOUS
<1>1. NoRequest.form \in Forms /\ NoRequest.origin \in Origins
  BY FormConstants, Zenon DEF NoRequest
<1>2. NoRequest.sub \in Submissions
  BY Zenon DEF NoRequest, Submissions, Fields
<1>3. TokenTTL \in Nat
  BY DefenceConstants, Zenon
<1>4. TokenInv
  BY <1>3, SMT DEF Init, TokenInv, MaxAge
<1>5. ThreadInv
  <2>1. <<>> \in Seq(Records)
    BY SMT
  <2>2. /\ Unchecked.late \in BOOLEAN /\ Unchecked.blind \in BOOLEAN
        /\ NoResult.verdict \in {"passed", "flagged", "blocked"}
    BY Zenon DEF Unchecked, NoResult
  <2>3. pc \in [Threads -> Steps]
    BY Zenon DEF Init, Steps
  <2> QED
    BY <1>1, <1>2, <2>1, <2>2, <2>3, Zenon DEF Init, ThreadInv
<1>6. AccountLimit \in Nat \ {0}
  BY FormConstants, Zenon
<1>7. CounterInv
  BY <1>6, SMT DEF Init, CounterInv, AlertedOnce
<1>8. NoFalseReplay
  BY UncheckedPasses, Zenon DEF Init, NoFalseReplay
<1>9. ClockInv
  <2>1. 0 \in 0..MaxAge
    BY <1>3, SMT DEF MaxAge
  <2> QED
    BY <2>1, Zenon DEF Init, ClockInv
<1> QED
  BY <1>4, <1>5, <1>7, <1>8, <1>9, Zenon DEF IInv

\* A marker outlives its token: rendering sets it, a pass spends it, and time takes it
\* away only when the token expires with it.
LEMMA TokenStep == IInv /\ [Next]_vars => TokenInv'
<1> SUFFICES ASSUME IInv, [Next]_vars PROVE TokenInv'
  OBVIOUS
<1> USE DEF TokenInv
<1>0. TokenTTL \in Nat
  BY DefenceConstants, Zenon
<1>1. ASSUME NEW f \in Forms, NEW o \in Origins, render_fields(f, o) PROVE TokenInv'
  <2> PICK n \in Nonces :
          /\ page[n] = None
          /\ page' = [page EXCEPT ![n] = o]
          /\ \/ marker' = marker \cup {n} /\ UNCHANGED unmarked
             \/ unmarked' = unmarked \cup {n} /\ UNCHANGED marker
    BY <1>1, Zenon DEF render_fields
  <2>1. age' = age /\ consumed' = consumed
    BY <1>1, Zenon DEF render_fields
  <2> QED
    BY <2>1, Zenon DEF IInv
<1>2. ASSUME NEW t \in Threads, Consume(t) PROVE TokenInv'
  <2>1. page' = page /\ age' = age /\ unmarked' = unmarked
    BY <1>2, Zenon DEF Consume
  <2>2. PICK n : \/ marker' = marker \ {n} /\ consumed' = consumed \cup ({n} \cap Nonces)
                 \/ UNCHANGED <<marker, consumed>>
    BY <1>2, Zenon DEF Consume
  <2> QED
    BY <2>1, <2>2, Zenon DEF IInv
<1>3. CASE Tick
  <2>1. page' = page /\ consumed' = consumed /\ unmarked' = unmarked
    BY <1>3, Zenon DEF Tick
  <2>2. age' \in [Nonces -> 0..MaxAge]
    BY <1>0, <1>3, SMT DEF Tick, IInv, Older, MaxAge
  <2>3. marker' \subseteq marker
    BY <1>3, Zenon DEF Tick
  <2>4. \A n \in Nonces : page[n] = None => age'[n] = 0
    BY <1>3, Zenon DEF Tick
  <2>5. \A n \in Nonces : page[n] # None /\ age'[n] <= TokenTTL => age[n] < TokenTTL
    BY <1>0, <1>3, SMT DEF Tick, IInv, Older, MaxAge
  <2>6. \A n \in Nonces : age[n] < TokenTTL => age[n] <= TokenTTL
    BY <1>0, SMT DEF IInv, MaxAge
  <2>7. \A n \in marker : age[n] < TokenTTL => n \in marker'
    BY <1>3, Zenon DEF Tick, Lives
  <2> QED
    BY <2>1, <2>2, <2>3, <2>4, <2>5, <2>6, <2>7, Zenon DEF IInv
<1>4. CASE UNCHANGED tokenVars
  BY <1>4, Zenon DEF IInv, tokenVars
<1>5. CASE UNCHANGED vars
  BY <1>4, <1>5, Zenon DEF vars
<1>6. ASSUME NEW t \in Threads,
             \/ \E f \in Forms, n \in Nonces \cup {""} : \E c \in Clients[f] : Submit(t, f, n, c)
             \/ \E k \in Keys : Replay(t, k)
             \/ ReadClock(t) \/ CheckToken(t) \/ RunChain(t) \/ View(t) \/ Alert(t)
             \/ RedirectToChallenge(t) \/ Respond(t)
      PROVE  UNCHANGED tokenVars
  BY <1>6, Zenon DEF Submit, Replay, ReadClock, CheckToken, RunChain, View, Alert, RedirectToChallenge, Respond
<1>7. ASSUME NEW c \in Ips \cup Accounts, Lapse(c) PROVE UNCHANGED tokenVars
  BY <1>7, Zenon DEF Lapse
<1> HIDE DEF TokenInv
<1> QED
  BY <1>1, <1>2, <1>3, <1>4, <1>5, <1>6, <1>7, Zenon DEF Next

\* Threads, session and tickets keep their types, and a thread starts afresh.
LEMMA ThreadStep == IInv /\ [Next]_vars => ThreadInv'
<1> SUFFICES ASSUME IInv, [Next]_vars PROVE ThreadInv'
  OBVIOUS
<1>1. ASSUME NEW t \in Threads, NEW f \in Forms, NEW n \in Nonces \cup {""}, NEW c \in Clients[f],
             Submit(t, f, n, c)
      PROVE  ThreadInv'
  <2>1. /\ pc' = [pc EXCEPT ![t] = "token"] /\ pc[t] = "idle"
        /\ session' = session /\ ticket' = ticket /\ check' = check /\ result' = result /\ copy' = copy
    BY <1>1, Zenon DEF Submit, At, Go, sessionVars
  <2> DEFINE sub == scalarise_submitted_data(Fill(n, c.how))
             r == [form |-> f, sub |-> sub, origin |-> c.origin, auth |-> c.auth, replay |-> FALSE]
  <2>2. req' = [req EXCEPT ![t] = r]
    BY <1>1, Zenon DEF Submit
  <2>3. sub \in Submissions /\ c.origin \in Origins
    BY FormConstants, FillType, Zenon
  <2> HIDE DEF sub
  <2>4. r.form \in Forms /\ r.origin \in Origins /\ r.sub \in Submissions
    BY <2>3, Zenon
  <2> HIDE DEF r
  <2> QED
    BY <2>1, <2>2, <2>4, Zenon DEF IInv, ThreadInv, Steps
<1>2. ASSUME NEW t \in Threads, NEW k \in Keys, Replay(t, k) PROVE ThreadInv'
  <2>1. /\ pc' = [pc EXCEPT ![t] = "token"] /\ pc[t] = "idle"
        /\ session' = session /\ ticket' = ticket /\ check' = check /\ result' = result
    BY <1>2, Zenon DEF Replay, At, Go, sessionVars
  <2>2. ticket[k] \in Tickets
    BY <1>2, Zenon DEF Replay, IInv, ThreadInv
  <2>3. ticket[k].form \in Forms
    BY <2>2, SMT DEF Tickets
  <2>4. PICK i \in DOMAIN session, c \in Clients[ticket[k].form] :
            /\ req' = [req EXCEPT ![t] = [form |-> session[i].form, sub |-> session[i].data,
                                          origin |-> c.origin, auth |-> c.auth, replay |-> TRUE]]
            /\ copy' = [copy EXCEPT ![t] = RemoveAt(session, i)]
    BY <1>2, Zenon DEF Replay
  <2> DEFINE r == [form |-> session[i].form, sub |-> session[i].data,
                   origin |-> c.origin, auth |-> c.auth, replay |-> TRUE]
  <2>5. session[i] \in Records
    BY SMT DEF IInv, ThreadInv
  <2>6. session[i].form \in Forms /\ session[i].data \in Submissions /\ c.origin \in Origins
    BY <2>3, <2>5, FormConstants, Zenon DEF Records
  <2>7. r.form \in Forms /\ r.sub \in Submissions /\ r.origin \in Origins
    BY <2>6, Zenon
  <2> HIDE DEF r
  <2>8. RemoveAt(session, i) \in Seq(Records)
    BY RemoveType, Zenon DEF IInv, ThreadInv
  <2> QED
    BY <2>1, <2>4, <2>6, <2>7, <2>8, Zenon DEF IInv, ThreadInv, Steps
<1>3. ASSUME NEW t \in Threads, ReadClock(t) PROVE ThreadInv'
  <2>1. /\ pc' = [pc EXCEPT ![t] = "marker"] /\ pc[t] = "token" /\ session' = session /\ ticket' = ticket
        /\ req' = req /\ check' = check /\ result' = result /\ copy' = copy
    BY <1>3, Zenon DEF ReadClock, At, Go, sessionVars
  <2> QED
    BY <2>1, Zenon DEF IInv, ThreadInv, Steps
<1>4. ASSUME NEW t \in Threads, CheckToken(t) PROVE ThreadInv'
  <2>1. /\ pc' = [pc EXCEPT ![t] = "chain"]
        /\ session' = session /\ ticket' = ticket /\ req' = req /\ result' = result /\ copy' = copy
    BY <1>4, Zenon DEF CheckToken, Go, sessionVars
  <2>2. \/ check' = check
        \/ \E x : x.late \in BOOLEAN /\ x.blind \in BOOLEAN /\ check' = [check EXCEPT ![t] = x]
    BY <1>4, Zenon DEF CheckToken
  <2> QED
    BY <2>1, <2>2, Zenon DEF IInv, ThreadInv, Steps
<1>5. ASSUME NEW t \in Threads, RunChain(t) PROVE ThreadInv'
  <2>1. session' = session /\ ticket' = ticket /\ req' = req /\ check' = check
    BY <1>5, Zenon DEF RunChain, sessionVars
  <2>10. PICK raised \in SUBSET Raising, failing \in (IF RedisFails THEN BOOLEAN ELSE {FALSE}) :
          LET r == req[t]
              outs == Outcomes(Chain(r.form, r.auth), Context(r, check[t].first, failing), raised)
              verdict == IF Enabled THEN Verdict(outs, defence_names(r.form)) ELSE "passed"
              step == Dispatch(r, verdict)
          IN /\ Go(t, step)
             /\ result' = [result EXCEPT ![t] = [outs |-> outs, verdict |-> verdict]]
             /\ copy' = [copy EXCEPT ![t] = IF step = "stash" /\ ~r.replay THEN session ELSE @]
    BY <1>5, Zenon DEF RunChain
  <2> DEFINE outs == Outcomes(Chain(req[t].form, req[t].auth), Context(req[t], check[t].first, failing), raised)
             verdict == IF Enabled THEN Verdict(outs, defence_names(req[t].form)) ELSE "passed"
             x == [outs |-> outs, verdict |-> verdict]
             z == IF Dispatch(req[t], verdict) = "stash" /\ ~req[t].replay THEN session ELSE copy[t]
  <2>11. verdict \in {"passed", "flagged", "blocked"}
    BY VerdictType, Zenon
  <2>12. /\ pc' = [pc EXCEPT ![t] = Dispatch(req[t], verdict)]
        /\ result' = [result EXCEPT ![t] = x] /\ copy' = [copy EXCEPT ![t] = z]
    BY <2>10, Zenon DEF Go
  <2> HIDE DEF verdict, outs
  <2>13. x.verdict = verdict /\ z \in {session, copy[t]}
    BY Zenon
  <2> HIDE DEF x, z
  <2>2. /\ pc' = [pc EXCEPT ![t] = Dispatch(req[t], verdict)]
        /\ verdict \in {"passed", "flagged", "blocked"}
        /\ x.verdict = verdict /\ result' = [result EXCEPT ![t] = x]
        /\ copy' = [copy EXCEPT ![t] = z] /\ z \in {session, copy[t]}
    BY <2>11, <2>12, <2>13, Zenon
  <2>3. Dispatch(req[t], verdict) \in {"respond", "stash", "consume", "view"}
    BY Zenon DEF Dispatch
  <2> QED
    BY <2>1, <2>2, <2>3, Zenon DEF IInv, ThreadInv, Steps
<1>6. ASSUME NEW t \in Threads, NEW s \in {"alert", "respond", "consume", "view"}, Go(t, s),
             UNCHANGED <<session, ticket, req, check, result, copy>>
      PROVE  ThreadInv'
  BY <1>6, Zenon DEF IInv, ThreadInv, Steps, Go
<1>7. NoRequest.form \in Forms /\ NoRequest.origin \in Origins /\ NoRequest.sub \in Submissions
  BY FormConstants, Zenon DEF NoRequest, Submissions, Fields
<1>8. ASSUME NEW t \in Threads, Finish(t), session' \in Seq(Records),
             DOMAIN ticket' = Keys, \A k \in Keys : ticket'[k] \in Tickets \cup {None}
      PROVE  ThreadInv'
  <2>1. /\ Unchecked.late \in BOOLEAN /\ Unchecked.blind \in BOOLEAN
        /\ NoResult.verdict \in {"passed", "flagged", "blocked"}
    BY Zenon DEF Unchecked, NoResult
  <2>2. <<>> \in Seq(Records)
    BY SMT
  <2> QED
    BY <1>7, <1>8, <2>1, <2>2, Zenon DEF IInv, ThreadInv, Finish, Go, Steps
<1>9. ASSUME NEW t \in Threads, Leave(t), UNCHANGED sessionVars PROVE ThreadInv'
  <2>1. CASE Finish(t)
    <3>1. session' \in Seq(Records) /\ DOMAIN ticket' = Keys /\ \A k \in Keys : ticket'[k] \in Tickets \cup {None}
      BY <1>9, Zenon DEF IInv, ThreadInv, sessionVars
    <3> QED
      BY <1>8, <2>1, <3>1, Zenon
  <2>2. CASE ~Finish(t)
    <3>1. AfterView(t) \in {"alert", "respond", "consume", "view"}
      BY Zenon DEF AfterView
    <3> QED
      BY <1>6, <1>9, <2>2, <3>1, Zenon DEF Leave, sessionVars
  <2> QED
    BY <2>1, <2>2
<1>10. ASSUME NEW t \in Threads, View(t) \/ Alert(t) \/ Consume(t) PROVE ThreadInv'
  <2>1. CASE Leave(t)
    BY <1>9, <1>10, <2>1, Zenon DEF View, Alert, Consume
  <2>2. CASE ~Leave(t)
    <3>1. /\ Go(t, "alert") \/ Go(t, "view") \/ Go(t, "respond")
          /\ UNCHANGED <<session, ticket, req, check, result, copy>>
      BY <1>10, <2>2, Zenon DEF View, Alert, Consume, sessionVars
    <3> QED
      BY <1>6, <3>1, Zenon
  <2> QED
    BY <2>1, <2>2
<1>11. ASSUME NEW t \in Threads, Respond(t) PROVE ThreadInv'
  <2>1. session' \in Seq(Records)
    BY <1>11, Zenon DEF Respond, IInv, ThreadInv
  <2>2. Finish(t) /\ ticket' = ticket
    BY <1>11, Zenon DEF Respond
  <2> QED
    BY <1>8, <2>1, <2>2, Zenon DEF IInv, ThreadInv
<1>12. ASSUME NEW t \in Threads, RedirectToChallenge(t) PROVE ThreadInv'
  <2>1. PICK k \in Keys :
            /\ ticket' = [ticket EXCEPT ![k] = [form |-> req[t].form, ip |-> req[t].origin.ip, age |-> 0]]
            /\ session' = Cap(Append(copy[t], [key |-> k, form |-> req[t].form,
                                              data |-> filter_sensitive_fields(req[t].sub)]))
    BY <1>12, Zenon DEF RedirectToChallenge
  <2>2. /\ req[t].form \in Forms /\ req[t].origin \in Origins /\ req[t].sub \in Submissions
        /\ copy[t] \in Seq(Records)
    BY Zenon DEF IInv, ThreadInv
  <2>3. [key |-> k, form |-> req[t].form, data |-> filter_sensitive_fields(req[t].sub)] \in Records
    BY <2>2, FilteredType, Zenon DEF Records
  <2>4. Append(copy[t], [key |-> k, form |-> req[t].form,
                         data |-> filter_sensitive_fields(req[t].sub)]) \in Seq(Records)
    BY <2>2, <2>3, SMT
  <2>5. session' \in Seq(Records)
    BY <2>1, <2>4, CapType, Zenon
  <2>6. req[t].origin.ip \in Ips
    BY <2>2, Zenon DEF Ips
  <2>11. ReplayTTL \in Nat
    BY FormConstants, Zenon
  <2>7. 0 \in 0..ReplayTTL + 1
    BY <2>11, SMT
  <2>8. [form |-> req[t].form, ip |-> req[t].origin.ip, age |-> 0] \in Tickets
    BY <2>2, <2>6, <2>7, Zenon DEF Tickets
  <2>9. DOMAIN ticket' = Keys /\ \A x \in Keys : ticket'[x] \in Tickets \cup {None}
    BY <2>1, <2>8, Zenon DEF IInv, ThreadInv
  <2>10. Finish(t)
    BY <1>12, Zenon DEF RedirectToChallenge
  <2> QED
    BY <1>8, <2>5, <2>9, <2>10, Zenon
<1>13. CASE Tick
  <2>1. session' = session /\ UNCHANGED threadVars
    BY <1>13, Zenon DEF Tick
  <2>2. ASSUME NEW k \in Keys, ticket[k] # None
        PROVE  [form |-> ticket[k].form, ip |-> ticket[k].ip,
                age |-> Older(ticket[k].age, ReplayTTL + 1)] \in Tickets
    <3>1. ticket[k] \in Tickets
      BY <2>2, Zenon DEF IInv, ThreadInv
    <3>2. ticket[k].form \in Forms /\ ticket[k].ip \in Ips /\ ticket[k].age \in 0..ReplayTTL + 1
      BY <3>1, SMT DEF Tickets
    <3>3. ReplayTTL \in Nat
      BY FormConstants, Zenon
    <3>4. Older(ticket[k].age, ReplayTTL + 1) \in 0..ReplayTTL + 1
      BY <3>2, <3>3, SMT DEF Older
    <3> QED
      BY <3>2, <3>4, Zenon DEF Tickets
  <2>3. DOMAIN ticket' = Keys /\ \A k \in Keys : ticket'[k] \in Tickets \cup {None}
    BY <1>13, <2>2, Zenon DEF Tick
  <2> QED
    BY <2>1, <2>3, Zenon DEF IInv, ThreadInv, threadVars
<1>14. CASE UNCHANGED <<sessionVars, threadVars>>
  BY <1>14, Zenon DEF IInv, ThreadInv, sessionVars, threadVars
<1>15. ASSUME NEW f \in Forms, NEW o \in Origins, render_fields(f, o)
       PROVE  UNCHANGED <<sessionVars, threadVars>>
  BY <1>15, Zenon DEF render_fields
<1>16. ASSUME NEW c \in Ips \cup Accounts, Lapse(c) PROVE UNCHANGED <<sessionVars, threadVars>>
  BY <1>16, Zenon DEF Lapse
<1>17. CASE UNCHANGED vars
  BY <1>14, <1>17, Zenon DEF vars
<1> QED
  BY <1>1, <1>2, <1>4, <1>5, <1>11, <1>12, <1>13, <1>14, <1>15, <1>16, <1>17, <1>3, <1>10, Zenon DEF Next

\* The steps of a thread leave the others alone.
LEMMA OtherThreads ==
    ASSUME IInv, NEW t \in Threads,
           \/ \E f \in Forms, n \in Nonces \cup {""} : \E c \in Clients[f] : Submit(t, f, n, c)
           \/ \E k \in Keys : Replay(t, k)
           \/ ReadClock(t) \/ CheckToken(t) \/ RunChain(t) \/ View(t) \/ Alert(t)
             \/ Consume(t) \/ RedirectToChallenge(t) \/ Respond(t)
    PROVE  \A u \in Threads \ {t} : /\ pc'[u] = pc[u] /\ req'[u] = req[u]
                                   /\ check'[u] = check[u] /\ result'[u] = result[u] /\ clock'[u] = clock[u]
<1>0. /\ DOMAIN pc = Threads /\ DOMAIN req = Threads /\ DOMAIN check = Threads /\ DOMAIN result = Threads
      /\ DOMAIN clock = Threads
  BY Zenon DEF IInv, ThreadInv, ClockInv
<1>1. PICK s : pc' = [pc EXCEPT ![t] = s]
  BY Zenon DEF Submit, Replay, ReadClock, CheckToken, RunChain, View, Alert, Leave, Consume,
                  RedirectToChallenge, Respond, Finish, Go
<1>2. req' = req \/ \E r : req' = [req EXCEPT ![t] = r]
  BY Zenon DEF Submit, Replay, ReadClock, CheckToken, RunChain, View, Alert, Leave, Consume,
                  RedirectToChallenge, Respond, Finish
<1>3. check' = check \/ \E r : check' = [check EXCEPT ![t] = r]
  BY Zenon DEF Submit, Replay, ReadClock, CheckToken, RunChain, View, Alert, Leave, Consume,
                  RedirectToChallenge, Respond, Finish
<1>4. result' = result \/ \E r : result' = [result EXCEPT ![t] = r]
  BY Zenon DEF Submit, Replay, ReadClock, CheckToken, RunChain, View, Alert, Leave, Consume,
                  RedirectToChallenge, Respond, Finish
<1>5. clock' = clock \/ \E r : clock' = [clock EXCEPT ![t] = r]
  BY Zenon DEF Submit, Replay, ReadClock, CheckToken, RunChain, View, Alert, Leave, Consume,
                  RedirectToChallenge, Respond, Finish
<1> QED BY <1>0, <1>1, <1>2, <1>3, <1>4, <1>5, Zenon

\* A thread that waits for the marker, or is about to alert, does that next.
LEMMA StaysPut ==
    ASSUME IInv, [Next]_vars, NEW u \in Threads, pc[u] \in {"marker", "alert"}, ~CheckToken(u), ~Alert(u)
    PROVE  pc'[u] = pc[u] /\ req'[u] = req[u] /\ clock'[u] = clock[u]
<1>1. CASE UNCHANGED threadVars
  BY <1>1, Zenon DEF threadVars
<1>2. ASSUME NEW t \in Threads,
             \/ \E f \in Forms, n \in Nonces \cup {""} : \E c \in Clients[f] : Submit(t, f, n, c)
             \/ \E k \in Keys : Replay(t, k)
             \/ ReadClock(t) \/ CheckToken(t) \/ RunChain(t) \/ View(t) \/ Alert(t)
             \/ Consume(t) \/ RedirectToChallenge(t) \/ Respond(t)
      PROVE  pc'[u] = pc[u] /\ req'[u] = req[u] /\ clock'[u] = clock[u]
  <2>1. CASE u = t
    <3>1. pc[t] \notin {"marker", "alert"}
      BY <1>2, <2>1, Zenon DEF Submit, Replay, ReadClock, RunChain, View, Consume, RedirectToChallenge, Respond, At
    <3> QED BY <2>1, <3>1, Zenon
  <2>2. CASE u # t
    BY <1>2, <2>2, OtherThreads, Zenon
  <2> QED BY <2>1, <2>2
<1>3. ASSUME NEW f \in Forms, NEW o \in Origins, render_fields(f, o) PROVE UNCHANGED threadVars
  BY <1>3, Zenon DEF render_fields
<1>4. ASSUME NEW c \in Ips \cup Accounts, Lapse(c) PROVE UNCHANGED threadVars
  BY <1>4, Zenon DEF Lapse
<1>5. ASSUME Tick \/ UNCHANGED vars PROVE UNCHANGED threadVars
  BY <1>5, Zenon DEF Tick, vars
<1> QED BY <1>1, <1>2, <1>3, <1>4, <1>5, Zenon DEF Next

\* A page that was rendered stays rendered.
LEMMA PageKept ==
    ASSUME IInv, [Next]_vars
    PROVE  \A n \in Nonces : page[n] # None => page'[n] # None
<1>1. ASSUME NEW f \in Forms, NEW o \in Origins, render_fields(f, o)
      PROVE  \A n \in Nonces : page[n] # None => page'[n] # None
  BY <1>1, Zenon DEF render_fields, IInv, TokenInv
<1>2. ASSUME NEW t \in Threads,
             \/ \E f \in Forms, n \in Nonces \cup {""} : \E c \in Clients[f] : Submit(t, f, n, c)
             \/ \E k \in Keys : Replay(t, k)
             \/ ReadClock(t) \/ CheckToken(t) \/ RunChain(t) \/ View(t) \/ Alert(t)
             \/ Consume(t) \/ RedirectToChallenge(t) \/ Respond(t)
      PROVE  page' = page
  BY <1>2, Zenon DEF Submit, Replay, ReadClock, CheckToken, RunChain, View, Alert, Leave, Consume,
                  RedirectToChallenge, Respond, tokenVars
<1>3. ASSUME NEW c \in Ips \cup Accounts, Lapse(c) PROVE page' = page
  BY <1>3, Zenon DEF Lapse, tokenVars
<1>4. CASE Tick \/ UNCHANGED vars
  BY <1>4, Zenon DEF Tick, vars, tokenVars
<1> QED BY <1>1, <1>2, <1>3, <1>4, Zenon DEF Next

\* The failure that reaches the limit finds the account without an alert, sent or due,
\* and leaves one that is due; sending it is the next step of its thread.
LEMMA CounterStep == IInv /\ [Next]_vars => CounterInv'
<1> SUFFICES ASSUME IInv, [Next]_vars PROVE CounterInv'
  OBVIOUS
<1> DEFINE Sent(a) == alerted[a] = 1 /\ due[a] = {}
           Owed(a) == alerted[a] = 0 /\ \E t \in Threads : due[a] = {t} /\ pc[t] = "alert"
           Once(a) == IF failures[a] < AccountLimit THEN alerted[a] = 0 /\ due[a] = {} ELSE Sent(a) \/ Owed(a)
<1>0. AccountLimit \in Nat \ {0} /\ Accounts \cap Ips = {}
  BY FormConstants, Zenon DEF Ips
<1>1. /\ failures \in [Ips \cup Accounts -> Nat] /\ alerted \in [Accounts -> Nat]
      /\ due \in [Accounts -> SUBSET Threads] /\ \A a \in Accounts : Once(a)
  BY Zenon DEF IInv, CounterInv, AlertedOnce, At
<1>2. ASSUME failures' \in [Ips \cup Accounts -> Nat], alerted' \in [Accounts -> Nat],
             due' \in [Accounts -> SUBSET Threads], \A a \in Accounts : Once(a)'
      PROVE  CounterInv'
  BY <1>2, Zenon DEF CounterInv, AlertedOnce, At
<1>3. ASSUME NEW a \in Accounts, failures'[a] = failures[a], alerted'[a] = alerted[a], due'[a] = due[a],
             \A u \in due[a] : ~Alert(u)
      PROVE  Once(a)'
  <2>1. ASSUME NEW u \in Threads, due[a] = {u}, pc[u] = "alert" PROVE pc'[u] = "alert"
    <3>1. ~Alert(u) /\ ~CheckToken(u)
      BY <1>3, <2>1, Zenon DEF CheckToken, At
    <3> QED
      BY <2>1, <3>1, StaysPut, Zenon
  <2> QED
    BY <1>1, <1>3, <2>1, Zenon
<1>4. ASSUME UNCHANGED counterVars, \A t \in Threads : ~Alert(t) PROVE CounterInv'
  <2>1. failures' = failures /\ alerted' = alerted /\ due' = due
    BY <1>4, Zenon DEF counterVars
  <2>2. \A a \in Accounts : Once(a)'
    BY <1>1, <1>3, <1>4, <2>1, Zenon
  <2> HIDE DEF Once
  <2> QED
    BY <1>1, <1>2, <2>1, <2>2, Zenon
<1>5. ASSUME NEW t \in Threads, View(t) PROVE CounterInv'
  <2>1. \A u \in Threads : ~Alert(u)
    <3>1. ASSUME NEW u \in Threads, Alert(u) PROVE FALSE
      <4>1. failures' = failures /\ due' = [a \in Accounts |-> due[a] \ {u}] /\ pc[u] = "alert" /\ pc'[u] # "alert"
        BY <3>1, Zenon DEF Alert, At, Leave, Finish, Go, AfterView, IInv, ThreadInv
      <4>2. pc[t] = "view" /\ pc'[t] # "view"
        BY <1>5, Zenon DEF View, At, Leave, Finish, Go, AfterView, IInv, ThreadInv
      <4> QED
        BY <4>1, <4>2, <1>5, <3>1, OtherThreads, Zenon
    <3> QED
      BY <3>1
  <2>2. CASE UNCHANGED counterVars
    BY <1>4, <2>1, <2>2
  <2>3. CASE ~UNCHANGED counterVars
    <3>1. PICK a \in Accounts :
             LET ip == req[t].origin.ip IN
             /\ failures' = [failures EXCEPT ![a] = @ + 1, ![ip] = @ + 1]
             /\ IF Reached(failures'[a])
                THEN due' = [due EXCEPT ![a] = @ \cup {t}] /\ Go(t, "alert")
                ELSE UNCHANGED due
             /\ UNCHANGED alerted
      BY <1>5, <2>3, Zenon DEF View
    <3>2. PICK ip \in Ips : ip = req[t].origin.ip
      BY Zenon DEF IInv, ThreadInv, Ips
    <3>3. failures' = [failures EXCEPT ![a] = @ + 1, ![ip] = @ + 1]
      BY <3>1, <3>2, Zenon
    <3>4. a # ip
      BY <1>0, Zenon
    <3>5. /\ failures' \in [Ips \cup Accounts -> Nat] /\ failures'[a] = failures[a] + 1
          /\ \A b \in Accounts \ {a} : failures'[b] = failures[b]
      BY <1>0, <1>1, <3>3, <3>4, SMT
    <3>6. /\ alerted' = alerted /\ due' \in [Accounts -> SUBSET Threads]
          /\ \A b \in Accounts \ {a} : due'[b] = due[b]
      <4>1. due' \in {due, [due EXCEPT ![a] = @ \cup {t}]} /\ alerted' = alerted
        BY <3>1, Zenon
      <4> QED
        BY <1>1, <4>1, SMT
    <3>7. \A b \in Accounts \ {a} : Once(b)'
      BY <1>1, <1>3, <2>1, <3>5, <3>6, Zenon
    <3>8. ASSUME failures'[a] = AccountLimit PROVE Once(a)'
      <4>1. due'[a] = due[a] \cup {t} /\ pc'[t] = "alert"
        BY <1>1, <3>1, <3>8, Zenon DEF Reached, Go, IInv, ThreadInv
      <4>2. failures[a] < AccountLimit /\ ~(failures'[a] < AccountLimit)
        BY <1>0, <1>1, <3>5, <3>8, SMT
      <4>3. due'[a] = {t} /\ alerted'[a] = 0
        BY <1>1, <3>6, <4>1, <4>2, Zenon
      <4> QED
        BY <4>1, <4>2, <4>3, Zenon
    <3>9. ASSUME failures'[a] # AccountLimit PROVE Once(a)'
      <4>1. due' = due
        BY <3>1, <3>9, Zenon DEF Reached
      <4>2. (failures'[a] < AccountLimit) <=> (failures[a] < AccountLimit)
        BY <1>0, <1>1, <3>5, <3>9, SMT
      <4>3. ASSUME NEW u \in Threads, due[a] = {u}, pc[u] = "alert" PROVE pc'[u] = "alert"
        <5>1. ~Alert(u) /\ ~CheckToken(u)
          BY <2>1, <4>3, Zenon DEF CheckToken, At
        <5> QED
          BY <4>3, <5>1, StaysPut, Zenon
      <4> QED
        BY <1>1, <3>6, <4>1, <4>2, <4>3, Zenon
    <3>10. \A b \in Accounts : Once(b)'
      BY <3>7, <3>8, <3>9, Zenon
    <3> HIDE DEF Once
    <3> QED
      BY <1>1, <1>2, <3>5, <3>6, <3>10, Zenon
  <2> QED
    BY <2>2, <2>3
<1>6. ASSUME NEW t \in Threads, Alert(t) PROVE CounterInv'
  <2>1. /\ failures' = failures
        /\ alerted' = [a \in Accounts |-> IF t \in due[a] THEN alerted[a] + 1 ELSE alerted[a]]
        /\ due' = [a \in Accounts |-> due[a] \ {t}]
    BY <1>6, Zenon DEF Alert
  <2>2. alerted' \in [Accounts -> Nat] /\ due' \in [Accounts -> SUBSET Threads]
    BY <1>1, <2>1, SMT
  <2>3. ASSUME NEW a \in Accounts PROVE Once(a)'
    <3>1. CASE t \in due[a]
      <4>1. ~(failures[a] < AccountLimit) /\ alerted[a] = 0 /\ due[a] = {t}
        <5>1. due[a] # {} /\ Once(a)
          BY <1>1, <3>1, Zenon
        <5>2. ~(failures[a] < AccountLimit) /\ alerted[a] = 0 /\ \E u \in Threads : due[a] = {u}
          BY <5>1, Zenon
        <5> QED
          BY <3>1, <5>2, Zenon
      <4>2. alerted'[a] = 1 /\ due'[a] = {}
        <5>1. 0 + 1 = 1
          BY SMT
        <5> QED
          BY <2>1, <3>1, <4>1, <5>1, Zenon
      <4> QED
        BY <2>1, <4>1, <4>2, Zenon
    <3>2. CASE t \notin due[a]
      <4>1. alerted'[a] = alerted[a] /\ due'[a] = due[a]
        BY <2>1, <3>2, Zenon
      <4>2. ASSUME NEW u \in Threads, due[a] = {u}, pc[u] = "alert" PROVE pc'[u] = "alert"
        BY <1>6, <3>2, <4>2, OtherThreads, Zenon
      <4> QED
        BY <1>1, <2>1, <4>1, <4>2, Zenon
    <3> QED
      BY <3>1, <3>2
  <2> HIDE DEF Once
  <2> QED
    BY <1>1, <1>2, <2>1, <2>2, <2>3, Zenon
<1>7. ASSUME NEW c \in Ips \cup Accounts, Lapse(c) PROVE CounterInv'
  <2>1. /\ failures' = [failures EXCEPT ![c] = 0] /\ pc' = pc
        /\ alerted' = [a \in Accounts |-> IF a = c THEN 0 ELSE alerted[a]]
        /\ due' = [a \in Accounts |-> IF a = c THEN {} ELSE due[a]]
    BY <1>7, Zenon DEF Lapse, threadVars
  <2>2. /\ failures' \in [Ips \cup Accounts -> Nat] /\ alerted' \in [Accounts -> Nat]
        /\ due' \in [Accounts -> SUBSET Threads]
    BY <1>1, <2>1, SMT
  <2>3. ASSUME NEW a \in Accounts PROVE Once(a)'
    <3>1. CASE a = c
      <4>1. failures'[a] = 0 /\ alerted'[a] = 0 /\ due'[a] = {} /\ 0 < AccountLimit
        BY <1>0, <1>1, <2>1, <3>1, SMT
      <4> QED
        BY <4>1, Zenon
    <3>2. CASE a # c
      BY <1>1, <2>1, <3>2, Zenon
    <3> QED
      BY <3>1, <3>2
  <2> HIDE DEF Once
  <2> QED
    BY <1>2, <2>2, <2>3, Zenon
<1>8. ASSUME NEW f \in Forms, NEW o \in Origins, render_fields(f, o) PROVE UNCHANGED counterVars
  BY <1>8, Zenon DEF render_fields
<1>9. ASSUME NEW t \in Threads,
             \/ \E f \in Forms, n \in Nonces \cup {""} : \E c \in Clients[f] : Submit(t, f, n, c)
             \/ \E k \in Keys : Replay(t, k)
             \/ ReadClock(t) \/ CheckToken(t) \/ RunChain(t)
             \/ Consume(t) \/ RedirectToChallenge(t) \/ Respond(t)
      PROVE  UNCHANGED counterVars
  BY <1>9, Zenon DEF Submit, Replay, ReadClock, CheckToken, RunChain, Consume, RedirectToChallenge, Respond
<1>10. ASSUME Tick \/ UNCHANGED vars PROVE UNCHANGED counterVars
  BY <1>10, Zenon DEF Tick, vars
<1>11. CASE \E t \in Threads : Alert(t)
  BY <1>6, <1>11, Zenon
<1>12. CASE \A t \in Threads : ~Alert(t)
  BY <1>4, <1>5, <1>7, <1>8, <1>9, <1>10, <1>12, Zenon DEF Next
<1> QED
  BY <1>11, <1>12, Zenon

\* A thread reads the clock before it asks for the marker, and needs it no longer then.
LEMMA ClockStep == IInv /\ [Next]_vars => ClockInv'
<1> SUFFICES ASSUME IInv, [Next]_vars PROVE ClockInv'
  OBVIOUS
<1> DEFINE Timed(t) == clock[t] # 0 => /\ pc[t] = "marker" /\ req[t].sub.token \in Nonces
                                      /\ page[req[t].sub.token] # None
<1>0. /\ clock \in [Threads -> 0..MaxAge] /\ (\A t \in Threads : Timed(t)) /\ 0 \in 0..MaxAge
      /\ DOMAIN pc = Threads
  <2>1. TokenTTL \in Nat
    BY DefenceConstants, Zenon
  <2>2. 0 \in 0..MaxAge
    BY <2>1, SMT DEF MaxAge
  <2> QED
    BY <2>2, Zenon DEF IInv, ClockInv, ThreadInv
<1>1. ASSUME NEW u \in Threads, ~CheckToken(u), clock'[u] = clock[u] PROVE Timed(u)'
  <2>1. ASSUME clock[u] # 0 PROVE Timed(u)'
    <3>1. pc[u] = "marker" /\ req[u].sub.token \in Nonces /\ page[req[u].sub.token] # None
      BY <1>0, <2>1, Zenon
    <3>2. ~Alert(u)
      BY <3>1, Zenon DEF Alert, At
    <3>3. pc'[u] = pc[u] /\ req'[u] = req[u]
      BY <1>1, <3>1, <3>2, StaysPut, Zenon
    <3> QED
      BY <3>1, <3>3, PageKept, Zenon
  <2> QED
    BY <1>1, <2>1, Zenon
<1>2. ASSUME NEW t \in Threads, ReadClock(t) PROVE ClockInv'
  <2> DEFINE n == Payload(req[t])
  <2>1. /\ clock' = [clock EXCEPT ![t] = IF n = "" THEN 0 ELSE age[n]]
        /\ pc' = [pc EXCEPT ![t] = "marker"] /\ req' = req /\ page' = page
    BY <1>2, Zenon DEF ReadClock, Go, tokenVars
  <2>2. n # "" => n = req[t].sub.token /\ n \in Nonces /\ age[n] \in 0..MaxAge
    BY Zenon DEF Payload, Verified, IInv, ThreadInv, TokenInv, Submissions
  <2>3. n # "" /\ age[n] # 0 => page[n] # None
    BY <2>2, Zenon DEF IInv, TokenInv
  <2> HIDE DEF n
  <2>4. clock' \in [Threads -> 0..MaxAge]
    BY <1>0, <2>1, <2>2, Zenon
  <2>5. Timed(t)'
    BY <1>0, <2>1, <2>2, <2>3, Zenon
  <2>6. ASSUME NEW u \in Threads, u # t PROVE Timed(u)'
    <3>1. clock'[u] = clock[u] /\ pc'[u] = pc[u]
      BY <1>0, <2>1, <2>6, Zenon
    <3> QED
      BY <1>0, <2>1, <3>1, Zenon
  <2> HIDE DEF Timed
  <2>7. \A u \in Threads : Timed(u)'
    BY <2>5, <2>6, Zenon
  <2> QED
    BY <2>4, <2>7, Zenon DEF ClockInv, Timed
<1>3. ASSUME NEW t \in Threads, CheckToken(t) PROVE ClockInv'
  <2>1. /\ clock' = [clock EXCEPT ![t] = 0] /\ pc' = [pc EXCEPT ![t] = "chain"]
        /\ req' = req /\ page' = page
    BY <1>3, Zenon DEF CheckToken, Go, tokenVars
  <2> QED
    BY <1>0, <2>1, Zenon DEF ClockInv
<1>4. ASSUME clock' = clock, \A u \in Threads : ~CheckToken(u) PROVE ClockInv'
  <2>1. \A u \in Threads : Timed(u)'
    BY <1>1, <1>4, Zenon
  <2> QED
    BY <1>0, <1>4, <2>1, Zenon DEF ClockInv
<1>5. ASSUME NEW t \in Threads,
             \/ \E f \in Forms, n \in Nonces \cup {""} : \E c \in Clients[f] : Submit(t, f, n, c)
             \/ \E k \in Keys : Replay(t, k)
             \/ RunChain(t) \/ View(t) \/ Alert(t) \/ Consume(t) \/ RedirectToChallenge(t) \/ Respond(t)
      PROVE  clock' = clock
  BY <1>5, Zenon DEF Submit, Replay, RunChain, View, Alert, Leave, Consume, RedirectToChallenge, Respond, Finish
<1>6. ASSUME NEW f \in Forms, NEW o \in Origins, render_fields(f, o) PROVE clock' = clock
  BY <1>6, Zenon DEF render_fields, threadVars
<1>7. ASSUME NEW c \in Ips \cup Accounts, Lapse(c) PROVE clock' = clock
  BY <1>7, Zenon DEF Lapse, threadVars
<1>8. ASSUME Tick \/ UNCHANGED vars PROVE clock' = clock
  BY <1>8, Zenon DEF Tick, vars, threadVars
<1>9. CASE \E t \in Threads : CheckToken(t)
  BY <1>3, <1>9, Zenon
<1>10. CASE \A t \in Threads : ~CheckToken(t)
  BY <1>2, <1>4, <1>5, <1>6, <1>7, <1>8, <1>10, Zenon DEF Next
<1> QED
  BY <1>9, <1>10, Zenon

\* A token that has expired stays expired.
LEMMA ExpiredStays ==
    ASSUME IInv, [Next]_vars
    PROVE  Expired \subseteq Expired'
<1>1. CASE age' = age
  BY <1>1, Zenon DEF Expired
<1>2. CASE Tick
  <2> SUFFICES ASSUME NEW n \in Nonces, age[n] > TokenTTL PROVE age'[n] > TokenTTL
    BY Zenon DEF Expired
  <2>1. age[n] \in 0..MaxAge /\ TokenTTL \in Nat
    BY DefenceConstants, Zenon DEF IInv, TokenInv
  <2>2. age[n] # 0
    BY <2>1, SMT
  <2>3. age'[n] = Older(age[n], MaxAge)
    BY <1>2, <2>2, Zenon DEF Tick, IInv, TokenInv
  <2> QED
    BY <2>1, <2>3, SMT DEF Older, MaxAge
<1>3. ASSUME NEW f \in Forms, NEW o \in Origins, render_fields(f, o) PROVE age' = age
  BY <1>3, Zenon DEF render_fields
<1>4. ASSUME NEW t \in Threads,
             \/ \E f \in Forms, n \in Nonces \cup {""} : \E c \in Clients[f] : Submit(t, f, n, c)
             \/ \E k \in Keys : Replay(t, k)
             \/ ReadClock(t) \/ CheckToken(t) \/ RunChain(t) \/ View(t) \/ Alert(t)
             \/ Consume(t) \/ RedirectToChallenge(t) \/ Respond(t)
      PROVE  age' = age
  BY <1>4, Zenon DEF Submit, Replay, ReadClock, CheckToken, RunChain, View, Alert, Consume,
                  RedirectToChallenge, Respond, tokenVars
<1>5. ASSUME NEW c \in Ips \cup Accounts, Lapse(c) PROVE age' = age
  BY <1>5, Zenon DEF Lapse, tokenVars
<1>6. ASSUME UNCHANGED vars PROVE age' = age
  BY <1>6, Zenon DEF vars, tokenVars
<1> QED BY <1>1, <1>2, <1>3, <1>4, <1>5, <1>6, Zenon DEF Next

\* A check refuses a token as replayed only when its marker is gone: by the token's
\* story it was spent, or never marked, or has run out by now.
LEMMA ReplayStep == IInv /\ [Next]_vars => NoFalseReplay'
<1> SUFFICES ASSUME IInv, [Next]_vars PROVE NoFalseReplay'
  OBVIOUS
<1> DEFINE Refused(c) == c.first = blocked("render_token", "replayed")
           Used == consumed \cup unmarked \cup Expired
<1>0. /\ \A t \in Threads : Refused(check[t]) => req[t].sub.token \in Used
      /\ ~Refused(Unchecked)
      /\ DOMAIN check = Threads /\ DOMAIN req = Threads
      /\ \A t \in Threads : pc[t] \in {"idle", "token", "marker"} => check[t] = Unchecked
  BY UncheckedPasses, Zenon DEF IInv, ThreadInv, NoFalseReplay
<1>1. ASSUME \A t \in Threads : Refused(check'[t]) => req'[t].sub.token \in Used' PROVE NoFalseReplay'
  BY <1>1, Zenon DEF NoFalseReplay
<1>2. Used \subseteq Used'
  <2>1. ASSUME NEW f \in Forms, NEW o \in Origins, render_fields(f, o)
        PROVE  consumed' = consumed /\ unmarked \subseteq unmarked'
    BY <2>1, Zenon DEF render_fields
  <2>2. ASSUME NEW t \in Threads,
               \/ \E f \in Forms, n \in Nonces \cup {""} : \E c \in Clients[f] : Submit(t, f, n, c)
               \/ \E k \in Keys : Replay(t, k)
               \/ ReadClock(t) \/ CheckToken(t) \/ RunChain(t) \/ View(t) \/ Alert(t)
               \/ Consume(t) \/ RedirectToChallenge(t) \/ Respond(t)
        PROVE  consumed \subseteq consumed' /\ unmarked' = unmarked
    BY <2>2, Zenon DEF Submit, Replay, ReadClock, CheckToken, RunChain, View, Alert, Consume,
                    RedirectToChallenge, Respond, tokenVars
  <2>3. ASSUME NEW c \in Ips \cup Accounts, Lapse(c) PROVE consumed' = consumed /\ unmarked' = unmarked
    BY <2>3, Zenon DEF Lapse, tokenVars
  <2>4. ASSUME Tick \/ UNCHANGED vars PROVE consumed' = consumed /\ unmarked' = unmarked
    BY <2>4, Zenon DEF Tick, vars, tokenVars
  <2>5. consumed \subseteq consumed' /\ unmarked \subseteq unmarked'
    BY <2>1, <2>2, <2>3, <2>4, Zenon DEF Next
  <2> QED
    BY <2>5, ExpiredStays, Zenon
<1> HIDE DEF Refused, Used
<1>3. ASSUME check' = check, req' = req PROVE NoFalseReplay'
  BY <1>0, <1>1, <1>2, <1>3, Zenon
<1>4. ASSUME NEW t \in Threads,
             \/ \E f \in Forms, n \in Nonces \cup {""} : \E c \in Clients[f] : Submit(t, f, n, c)
             \/ \E k \in Keys : Replay(t, k)
      PROVE  NoFalseReplay'
  <2>1. pc[t] = "idle" /\ check' = check /\ \E r : req' = [req EXCEPT ![t] = r]
    BY <1>4, Zenon DEF Submit, Replay, At
  <2> QED
    BY <1>0, <1>1, <1>2, <2>1, Zenon
<1>5. ASSUME NEW t \in Threads, CheckToken(t) PROVE NoFalseReplay'
  <2> DEFINE token == req[t].sub.token
             n == Payload(req[t])
             sameIp == n = "" \/ page[n].ip = req[t].origin.ip
             late == n \in consumed /\ clock[t] > Grace
             Checked(present, blind) ==
                 [first |-> render_token(token, clock[t], present, sameIp), late |-> late, blind |-> blind]
  <2>1. req' = req
    BY <1>5, Zenon DEF CheckToken
  <2>2. \/ check' = check
        \/ /\ HasToken(req[t].form)
           /\ \/ check' = [check EXCEPT ![t] = Checked(n \in marker, FALSE)]
              \/ check' = [check EXCEPT ![t] = Checked(TRUE, TRUE)]
    BY <1>5, Zenon DEF CheckToken
  <2>3. ASSUME NEW present \in BOOLEAN, NEW blind, Refused(Checked(present, blind))
        PROVE  Verified(token) /\ ~present /\ clock[t] > Grace
    <3>1. render_token(token, clock[t], present, sameIp) = blocked("render_token", "replayed")
      BY <2>3, Zenon DEF Refused
    <3> QED
      BY <3>1, ReplayedOnly, Zenon
  <2>4. ASSUME HasToken(req[t].form), Refused(Checked(n \in marker, FALSE))
        PROVE  token \in Used
    <3> DEFINE present == n \in marker
    <3>0. present \in BOOLEAN
      BY SMT
    <3> HIDE DEF present, Checked, n, token
    <3>1. Verified(token) /\ ~present /\ clock[t] > Grace
      <4>1. Refused(Checked(present, FALSE))
        BY <2>4, Zenon DEF present
      <4> QED
        BY <2>3, <3>0, <4>1, Zenon
    <3>2. n = token /\ n \notin marker
      BY <2>4, <3>1, Zenon DEF Payload, n, token, present
    <3>3. clock[t] # 0
      <4>1. Grace \in Nat /\ clock[t] \in 0..MaxAge
        BY DefenceConstants, Zenon DEF IInv, ClockInv
      <4> QED
        BY <3>1, <4>1, SMT
    <3>4. token \in Nonces /\ page[token] # None
      BY <3>3, Zenon DEF IInv, ClockInv, token
    <3>5. age[token] <= TokenTTL \/ age[token] > TokenTTL
      <4>1. age[token] \in 0..MaxAge /\ TokenTTL \in Nat
        BY <3>4, DefenceConstants, Zenon DEF IInv, TokenInv
      <4> QED
        BY <4>1, SMT
    <3> QED
      BY <3>2, <3>4, <3>5, Zenon DEF IInv, TokenInv, Expired, Used
  <2>5. ~Refused(Checked(TRUE, TRUE))
    BY <2>3, Zenon
  <2> HIDE DEF Checked, n
  <2> QED
    BY <1>0, <1>1, <1>2, <2>1, <2>2, <2>4, <2>5, Zenon
<1>6. ASSUME NEW t \in Threads, Finish(t) PROVE NoFalseReplay'
  BY <1>0, <1>1, <1>2, <1>6, Zenon DEF Finish
<1>7. ASSUME NEW t \in Threads,
             \/ ReadClock(t) \/ RunChain(t) \/ View(t) \/ Alert(t)
             \/ Consume(t) \/ RedirectToChallenge(t) \/ Respond(t)
      PROVE  NoFalseReplay'
  <2>1. Finish(t) \/ (check' = check /\ req' = req)
    BY <1>7, Zenon DEF ReadClock, RunChain, View, Alert, Leave, Consume, RedirectToChallenge, Respond
  <2> QED
    BY <1>3, <1>6, <2>1, Zenon
<1>8. ASSUME NEW f \in Forms, NEW o \in Origins, render_fields(f, o) PROVE check' = check /\ req' = req
  BY <1>8, Zenon DEF render_fields, threadVars
<1>9. ASSUME NEW c \in Ips \cup Accounts, Lapse(c) PROVE check' = check /\ req' = req
  BY <1>9, Zenon DEF Lapse, threadVars
<1>10. ASSUME Tick \/ UNCHANGED vars PROVE check' = check /\ req' = req
  BY <1>10, Zenon DEF Tick, vars, threadVars
<1> QED
  BY <1>3, <1>4, <1>5, <1>7, <1>8, <1>9, <1>10, Zenon DEF Next

----------------------------------------------------------------------------
(* The theorems *)

\* The parts together are inductive.
LEMMA Inductive == Spec => []IInv
<1>1. IInv /\ [Next]_vars => IInv'
  BY TokenStep, ThreadStep, ClockStep, CounterStep, ReplayStep, Zenon DEF IInv
<1> QED
  BY InitIInv, <1>1, PTL DEF Spec

\* Protected forms are type correct: the records of the session, the tickets and what
\* the threads work on are what the code takes them for, whatever is submitted.
THEOREM FormsTypeCorrect == Spec => []TypeOK
<1>1. IInv => TypeOK
  BY Zenon DEF IInv, TokenInv, ThreadInv, ClockInv, CounterInv, TypeOK, Tickets
<1> QED
  BY Inductive, <1>1, PTL

\* RenderTokenDefence refuses as replayed only tokens that consume_token_marker spent
\* or whose marker was never set, for every number of threads, tokens and ticks.
THEOREM ReplayRefusalJustified == Spec => []NoFalseReplay
<1>1. IInv => NoFalseReplay
  BY Zenon DEF IInv
<1> QED
  BY Inductive, <1>1, PTL

\* waf_record_credential_failure alerts the owner of an account exactly once while its
\* counter lives, for every limit and however many logins fail at once.
THEOREM AlertExactlyOnce == Spec => []AlertedOnce
<1>1. IInv => AlertedOnce
  BY Zenon DEF IInv, CounterInv
<1> QED
  BY Inductive, <1>1, PTL

----------------------------------------------------------------------------
(* Spent tokens *)

\* Records are parked without their token.
Parked == {r \in Records : r.data.token = ""}

\* A check that came late and could ask Redis refused the token.
Caught(t) == check[t].late /\ ~check[t].blind => HasToken(req[t].form) /\ IsBlock(check[t].first)

\* A spent token was rendered and has no marker, nor ever gets one again; tokens are
\* submitted from pages that were rendered.
SpentInv ==
    /\ marker \cap consumed = {} /\ \A n \in consumed : page[n] # None
    /\ session \in Seq(Parked)
    /\ \A t \in Threads :
          /\ copy[t] \in Seq(Parked)
          /\ req[t].sub.token \in Nonces => page[req[t].sub.token] # None
          /\ Caught(t)
          /\ Judged(t) /\ check[t].late => result[t].verdict = "blocked" \/ check[t].blind

\* A defence that is configured by itself or not at all.
LEMMA OneName ==
    ASSUME NEW names, NEW i \in 1..8
    PROVE  LET one == IF CanonicalOrder[i] \in names THEN <<CanonicalOrder[i]>> ELSE <<>>
           IN one \in Seq(DefenceNames)
<1>1. CanonicalOrder[i] \in DefenceNames
  BY SMT DEF DefenceNames, ToSet, CanonicalOrder
<1> QED BY <1>1, SMT

\* A sequence that goes on keeps its first element.
LEMMA GoesOn ==
    ASSUME NEW S, NEW s \in Seq(S), NEW r \in Seq(S)
    PROVE  /\ s \o r \in Seq(S)
           /\ Len(s) >= 1 => Len(s \o r) >= 1 /\ (s \o r)[1] = s[1]
BY SMT

\* render_token, if it is configured, comes first.
LEMMA TokenFirst ==
    ASSUME NEW names
    PROVE  LET chain == _order_defences(names) IN
           /\ chain \in Seq(DefenceNames)
           /\ "render_token" \in names => Len(chain) >= 1 /\ chain[1] = "render_token"
<1> DEFINE Nth(i) == IF CanonicalOrder[i] \in names THEN <<CanonicalOrder[i]>> ELSE <<>>
           s2 == Nth(1) \o Nth(2)
           s3 == s2 \o Nth(3)
           s4 == s3 \o Nth(4)
           s5 == s4 \o Nth(5)
           s6 == s5 \o Nth(6)
           s7 == s6 \o Nth(7)
           s8 == s7 \o Nth(8)
           First(s) == Len(s) >= 1 /\ s[1] = "render_token"
<1>0. _order_defences(names) = s8
  BY Zenon DEF _order_defences
<1>1. \A i \in 1..8 : Nth(i) \in Seq(DefenceNames)
  BY OneName, Zenon
<1>2. "render_token" \in names => First(Nth(1))
  BY SMT DEF CanonicalOrder
<1> HIDE DEF Nth
<1>3. 1 \in 1..8 /\ 2 \in 1..8 /\ 3 \in 1..8 /\ 4 \in 1..8 /\ 5 \in 1..8 /\ 6 \in 1..8 /\ 7 \in 1..8 /\ 8 \in 1..8
  BY SMT
<1>4. ASSUME NEW s \in Seq(DefenceNames), NEW i \in 1..8
      PROVE  s \o Nth(i) \in Seq(DefenceNames) /\ (First(s) => First(s \o Nth(i)))
  BY <1>1, GoesOn, Zenon
<1> HIDE DEF First
<1>5. s2 \in Seq(DefenceNames) /\ (First(Nth(1)) => First(s2))
  BY <1>1, <1>3, <1>4, Zenon
<1> HIDE DEF s2
<1>6. s3 \in Seq(DefenceNames) /\ (First(s2) => First(s3))
  BY <1>3, <1>4, <1>5, Zenon
<1> HIDE DEF s3
<1>7. s4 \in Seq(DefenceNames) /\ (First(s3) => First(s4))
  BY <1>3, <1>4, <1>6, Zenon
<1> HIDE DEF s4
<1>8. s5 \in Seq(DefenceNames) /\ (First(s4) => First(s5))
  BY <1>3, <1>4, <1>7, Zenon
<1> HIDE DEF s5
<1>9. s6 \in Seq(DefenceNames) /\ (First(s5) => First(s6))
  BY <1>3, <1>4, <1>8, Zenon
<1> HIDE DEF s6
<1>10. s7 \in Seq(DefenceNames) /\ (First(s6) => First(s7))
  BY <1>3, <1>4, <1>9, Zenon
<1> HIDE DEF s7
<1>11. s8 \in Seq(DefenceNames) /\ (First(s7) => First(s8))
  BY <1>3, <1>4, <1>10, Zenon
<1> HIDE DEF s8
<1>12. "render_token" \in names => First(s8)
  BY <1>2, <1>5, <1>6, <1>7, <1>8, <1>9, <1>10, <1>11, Zenon
<1> QED BY <1>0, <1>11, <1>12, Zenon DEF First

\* A block at the head of the outcomes is the one that is found.
LEMMA BlockAtHead ==
    ASSUME NEW outs, Len(outs) \in Nat, Len(outs) >= 1, IsBlock(outs[1])
    PROVE  SelectInSeq(outs, IsBlock) = 1
<1> DEFINE I == {i \in 1..Len(outs) : IsBlock(outs[i])}
<1>1. 1 \in I /\ I \subseteq Nat /\ \A j \in I : 1 <= j
  BY SMT
<1>2. SelectInSeq(outs, IsBlock) = IF I # {} THEN Min(I) ELSE 0
  BY Zenon DEF SelectInSeq
<1> HIDE DEF I
<1>3. Min(I) \in I /\ \A j \in I : Min(I) <= j
  BY <1>1, Zenon DEF Min
<1>6. Min(I) \in Nat /\ Min(I) <= 1 /\ 1 <= Min(I)
  BY <1>1, <1>3, Zenon
<1>4. Min(I) = 1
  BY <1>6, SMT
<1>5. I # {}
  BY <1>1, Zenon
<1> QED BY <1>2, <1>4, <1>5, Zenon
\* What RenderTokenDefence blocks, the chain blocks, for authenticated users and others.
LEMMA TokenBlocks ==
    ASSUME NEW f \in Forms, NEW auth, NEW c, NEW raised, HasToken(f), "render_token" \notin raised,
           IsBlock(c.first)
    PROVE  LET outs == Outcomes(Chain(f, auth), c, raised)
           IN Verdict(outs, defence_names(f)) = "blocked"
<1> DEFINE chain == Chain(f, auth)
           all == [i \in DOMAIN chain |-> IF chain[i] \in raised THEN passed ELSE Outcome(chain[i], c)]
           outs == IF SelectInSeq(all, IsBlock) = 0 THEN all ELSE SubSeq(all, 1, SelectInSeq(all, IsBlock))
<1>0. Outcomes(Chain(f, auth), c, raised) = outs
  BY Zenon DEF Outcomes
<1>1. chain \in Seq(DefenceNames) /\ Len(chain) >= 1 /\ chain[1] = "render_token"
  <2>1. "render_token" \in Config[f].defences \cap {"render_token"} /\ "render_token" \in Config[f].defences
    BY Zenon DEF HasToken
  <2>2. chain \in {_order_defences(Config[f].defences \cap {"render_token"}), _order_defences(Config[f].defences)}
    BY Zenon DEF Chain, HasToken, defence_names
  <2> QED BY <2>1, <2>2, TokenFirst
<1> HIDE DEF chain
<1>2. DOMAIN chain = 1..Len(chain) /\ Len(chain) \in Nat /\ 1 \in DOMAIN chain
  BY <1>1, SMT
<1>3. all[1] = c.first
  BY <1>1, <1>2, Zenon DEF Outcome
<1>4. all \in Seq({all[i] : i \in 1..Len(chain)}) /\ Len(all) = Len(chain)
  BY <1>2, SMT
<1> HIDE DEF all
<1>5. SelectInSeq(all, IsBlock) = 1
  BY <1>1, <1>2, <1>3, <1>4, BlockAtHead, Zenon
<1>6. outs = SubSeq(all, 1, 1)
  BY <1>5, SMT
<1> HIDE DEF outs
<1>7. Len(outs) = 1 /\ outs[1] = all[1]
  <2>1. ASSUME NEW S, NEW s \in Seq(S), Len(s) >= 1
        PROVE  Len(SubSeq(s, 1, 1)) = 1 /\ SubSeq(s, 1, 1)[1] = s[1]
    BY <2>1, SMT
  <2>2. Len(all) >= 1
    BY <1>1, <1>4, Zenon
  <2> QED BY <1>4, <1>6, <2>1, <2>2, Zenon
<1>8. SelectInSeq(outs, IsBlock) = 1
  <2>1. Len(outs) \in Nat /\ Len(outs) >= 1
    BY <1>7, SMT
  <2>2. IsBlock(outs[1])
    BY <1>3, <1>7, Zenon
  <2> QED BY <2>1, <2>2, BlockAtHead, Zenon
<1>9. 1 # 0
  BY SMT
<1> QED BY <1>0, <1>8, <1>9, Zenon DEF Verdict

\* A token that has lost its marker is refused beyond the grace period.
LEMMA MarkerGone ==
    ASSUME NEW token, Verified(token), NEW a, a > Grace, NEW sameIp
    PROVE  IsBlock(render_token(token, a, FALSE, sameIp))
<1>1. token # ""
  BY Zenon DEF Verified
<1>2. \A d : IsBlock(blocked("render_token", d))
  BY Zenon DEF IsBlock, blocked
<1> QED BY <1>1, <1>2, Zenon DEF render_token
\* Nothing has been spent when the process starts.
LEMMA SpentInit == Init => SpentInv
<1> SUFFICES ASSUME Init PROVE SpentInv
  OBVIOUS
<1>1. <<>> \in Seq(Parked)
  BY SMT
<1>2. NoRequest.sub.token \notin Nonces
  BY FormConstants, Zenon DEF NoRequest
<1>3. ~Unchecked.late
  BY Zenon DEF Unchecked
<1> QED BY <1>1, <1>2, <1>3, Zenon DEF Init, SpentInv, Caught

\* A token is spent once, and its marker does not come back.
LEMMA SpentTokens ==
    ASSUME IInv, SpentInv, [Next]_vars
    PROVE  marker' \cap consumed' = {} /\ \A n \in consumed' : page'[n] # None
<1> DEFINE Goal == marker' \cap consumed' = {} /\ \A n \in consumed' : page'[n] # None
<1>0. /\ marker \cap consumed = {} /\ \A n \in consumed : page[n] # None
      /\ consumed \subseteq Nonces
  BY Zenon DEF IInv, TokenInv, SpentInv
<1>1. ASSUME NEW f \in Forms, NEW o \in Origins, render_fields(f, o) PROVE Goal
  <2>1. PICK n \in Nonces : page[n] = None /\ marker' \subseteq marker \cup {n}
    BY <1>1, Zenon DEF render_fields
  <2>2. consumed' = consumed
    BY <1>1, Zenon DEF render_fields
  <2> QED BY <1>0, <2>1, <2>2, PageKept, Zenon
<1>2. ASSUME NEW t \in Threads, Consume(t) PROVE Goal
  <2>1. page' = page
    BY <1>2, Zenon DEF Consume
  <2>2. CASE UNCHANGED <<marker, consumed>>
    BY <1>0, <2>1, <2>2, Zenon
  <2>3. CASE ~UNCHANGED <<marker, consumed>>
    <3> DEFINE n == Payload(req[t])
    <3>1. marker' = marker \ {n} /\ consumed' = consumed \cup ({n} \cap Nonces)
      BY <1>2, <2>3, Zenon DEF Consume
    <3>2. n \in Nonces => page[n] # None
      BY FormConstants, Zenon DEF Payload, SpentInv
    <3> HIDE DEF n
    <3> QED BY <1>0, <2>1, <3>1, <3>2, Zenon
  <2> QED BY <2>2, <2>3
<1>3. CASE Tick
  <2>1. marker' \subseteq marker /\ page' = page /\ consumed' = consumed
    BY <1>3, Zenon DEF Tick
  <2> QED BY <1>0, <2>1, Zenon
<1>4. CASE UNCHANGED tokenVars
  BY <1>0, <1>4, Zenon DEF tokenVars
<1>5. ASSUME NEW t \in Threads,
             \/ \E f \in Forms, n \in Nonces \cup {""} : \E c \in Clients[f] : Submit(t, f, n, c)
             \/ \E k \in Keys : Replay(t, k)
             \/ ReadClock(t) \/ CheckToken(t) \/ RunChain(t) \/ View(t) \/ Alert(t)
             \/ RedirectToChallenge(t) \/ Respond(t)
      PROVE  UNCHANGED tokenVars
  BY <1>5, Zenon DEF Submit, Replay, ReadClock, CheckToken, RunChain, View, Alert, RedirectToChallenge, Respond
<1>6. ASSUME NEW c \in Ips \cup Accounts, Lapse(c) PROVE UNCHANGED tokenVars
  BY <1>6, Zenon DEF Lapse
<1>7. CASE UNCHANGED vars
  BY <1>4, <1>7, Zenon DEF vars
<1> QED BY <1>1, <1>2, <1>3, <1>4, <1>5, <1>6, <1>7, Zenon DEF Next
\* Whatever is parked, loaded, saved or dropped is without its token.
LEMMA SpentRecords ==
    ASSUME IInv, SpentInv, [Next]_vars
    PROVE  session' \in Seq(Parked) /\ \A t \in Threads : copy'[t] \in Seq(Parked)
<1> DEFINE Goal == session' \in Seq(Parked) /\ \A t \in Threads : copy'[t] \in Seq(Parked)
<1>0. /\ session \in Seq(Parked) /\ (\A t \in Threads : copy[t] \in Seq(Parked))
      /\ DOMAIN copy = Threads /\ <<>> \in Seq(Parked)
  <2>1. <<>> \in Seq(Parked)
    BY SMT
  <2> QED BY <2>1, Zenon DEF IInv, ThreadInv, SpentInv
<1>1. ASSUME NEW t \in Threads, NEW x \in Seq(Parked), session' \in Seq(Parked), copy' = [copy EXCEPT ![t] = x]
      PROVE  Goal
  BY <1>0, <1>1, Zenon
<1>2. ASSUME NEW t \in Threads, NEW k \in Keys, Replay(t, k) PROVE Goal
  <2>1. PICK i \in DOMAIN session : copy' = [copy EXCEPT ![t] = RemoveAt(session, i)]
    BY <1>2, Zenon DEF Replay
  <2>2. RemoveAt(session, i) \in Seq(Parked)
    BY <1>0, RemoveType, Zenon
  <2>3. session' = session
    BY <1>2, Zenon DEF Replay, sessionVars
  <2> QED BY <1>0, <1>1, <2>1, <2>2, <2>3, Zenon
<1>3. ASSUME NEW t \in Threads, RunChain(t) PROVE Goal
  <2>1. session' = session
    BY <1>3, Zenon DEF RunChain, sessionVars
  <2>2. PICK b : copy' = [copy EXCEPT ![t] = IF b THEN session ELSE copy[t]]
    BY <1>3, Zenon DEF RunChain
  <2>3. (IF b THEN session ELSE copy[t]) \in Seq(Parked)
    BY <1>0, Zenon
  <2> QED BY <1>0, <1>1, <2>1, <2>2, <2>3, Zenon
<1>4. ASSUME NEW t \in Threads, Respond(t) PROVE Goal
  <2>1. session' \in Seq(Parked) /\ copy' = [copy EXCEPT ![t] = <<>>]
    BY <1>0, <1>4, Zenon DEF Respond, Finish
  <2> QED BY <1>0, <1>1, <2>1, Zenon
<1>5. ASSUME NEW t \in Threads, RedirectToChallenge(t) PROVE Goal
  <2>1. PICK k \in Keys :
            session' = Cap(Append(copy[t], [key |-> k, form |-> req[t].form,
                                            data |-> filter_sensitive_fields(req[t].sub)]))
    BY <1>5, Zenon DEF RedirectToChallenge
  <2>2. req[t].form \in Forms /\ req[t].sub \in Submissions
    BY Zenon DEF IInv, ThreadInv
  <2>3. /\ [key |-> k, form |-> req[t].form, data |-> filter_sensitive_fields(req[t].sub)] \in Records
        /\ filter_sensitive_fields(req[t].sub).token = ""
    BY <2>2, FilteredType, Zenon DEF Records, filter_sensitive_fields
  <2>4. [key |-> k, form |-> req[t].form, data |-> filter_sensitive_fields(req[t].sub)] \in Parked
    BY <2>3, Zenon DEF Parked
  <2>5. Append(copy[t], [key |-> k, form |-> req[t].form,
                         data |-> filter_sensitive_fields(req[t].sub)]) \in Seq(Parked)
    BY <1>0, <2>4, SMT
  <2>6. session' \in Seq(Parked)
    BY <2>1, <2>5, CapType, Zenon
  <2>7. copy' = [copy EXCEPT ![t] = <<>>]
    BY <1>5, Zenon DEF RedirectToChallenge, Finish
  <2> QED BY <1>0, <1>1, <2>6, <2>7, Zenon
<1>6. ASSUME NEW t \in Threads,
             \/ \E f \in Forms, n \in Nonces \cup {""} : \E c \in Clients[f] : Submit(t, f, n, c)
             \/ ReadClock(t) \/ CheckToken(t) \/ View(t) \/ Alert(t) \/ Consume(t)
      PROVE  Goal
  <2>1. session' = session /\ (copy' = copy \/ copy' = [copy EXCEPT ![t] = <<>>])
    BY <1>6, Zenon DEF Submit, ReadClock, CheckToken, View, Alert, Leave, Consume, Finish, sessionVars
  <2> QED BY <1>0, <1>1, <2>1, Zenon
<1>7. ASSUME NEW f \in Forms, NEW o \in Origins, render_fields(f, o) PROVE session' = session /\ copy' = copy
  BY <1>7, Zenon DEF render_fields, sessionVars, threadVars
<1>8. ASSUME NEW c \in Ips \cup Accounts, Lapse(c) PROVE session' = session /\ copy' = copy
  BY <1>8, Zenon DEF Lapse, sessionVars, threadVars
<1>9. ASSUME Tick \/ UNCHANGED vars PROVE session' = session /\ copy' = copy
  BY <1>9, Zenon DEF Tick, vars, sessionVars, threadVars
<1>10. CASE session' = session /\ copy' = copy
  BY <1>0, <1>10, Zenon
<1> QED BY <1>2, <1>3, <1>4, <1>5, <1>6, <1>7, <1>8, <1>9, <1>10, Zenon DEF Next

\* A page posts the token that it holds, if any, or the forged one.
LEMMA PostedToken ==
    ASSUME NEW n, NEW how
    PROVE  scalarise_submitted_data(Fill(n, how)).token \in {"", "forged", n}
<1> DEFINE value == IF how = "bare" THEN "" ELSE IF how = "forged" THEN "forged" ELSE n
<1>1. scalarise_submitted_data(Fill(n, how)).token = Last(<<value>>)
  BY Zenon DEF scalarise_submitted_data, Fill
<1>2. value \in {"", "forged", n}
  BY Zenon
<1> HIDE DEF value
<1> QED BY <1>1, <1>2, LastOfOne, Zenon

\* A token is submitted from a page that was rendered.
LEMMA SpentRequests ==
    ASSUME IInv, SpentInv, [Next]_vars
    PROVE  \A t \in Threads : req'[t].sub.token \in Nonces => page'[req'[t].sub.token] # None
<1> DEFINE Goal == \A t \in Threads : req'[t].sub.token \in Nonces => page'[req'[t].sub.token] # None
<1>0. /\ \A t \in Threads : req[t].sub.token \in Nonces => page[req[t].sub.token] # None
      /\ DOMAIN req = Threads /\ "" \notin Nonces /\ "forged" \notin Nonces
      /\ \A n \in Nonces : page[n] # None => page'[n] # None
  BY PageKept, FormConstants, Zenon DEF IInv, ThreadInv, SpentInv
<1>1. CASE req' = req
  BY <1>0, <1>1, Zenon
<1>2. ASSUME NEW t \in Threads, NEW r, req' = [req EXCEPT ![t] = r],
             r.sub.token \in Nonces => page[r.sub.token] # None
      PROVE  Goal
  BY <1>0, <1>2, Zenon
<1>3. ASSUME NEW t \in Threads, NEW f \in Forms, NEW n \in Nonces \cup {""}, NEW c \in Clients[f],
             Submit(t, f, n, c)
      PROVE  Goal
  <2> DEFINE sub == scalarise_submitted_data(Fill(n, c.how))
             r == [form |-> f, sub |-> sub, origin |-> c.origin, auth |-> c.auth, replay |-> FALSE]
  <2>1. req' = [req EXCEPT ![t] = r] /\ (n \in Nonces => page[n] # None)
    BY <1>0, <1>3, Zenon DEF Submit
  <2>2. sub.token \in {"", "forged", n}
    BY PostedToken, Zenon
  <2> HIDE DEF sub
  <2>3. r.sub.token \in Nonces => page[r.sub.token] # None
    BY <1>0, <2>1, <2>2, Zenon
  <2> HIDE DEF r
  <2> QED BY <1>2, <2>1, <2>3, Zenon
<1>4. ASSUME NEW t \in Threads, NEW k \in Keys, Replay(t, k) PROVE Goal
  <2>1. PICK i \in DOMAIN session, c \in Clients[ticket[k].form] :
            req' = [req EXCEPT ![t] = [form |-> session[i].form, sub |-> session[i].data,
                                       origin |-> c.origin, auth |-> c.auth, replay |-> TRUE]]
    BY <1>4, Zenon DEF Replay
  <2> DEFINE r == [form |-> session[i].form, sub |-> session[i].data,
                   origin |-> c.origin, auth |-> c.auth, replay |-> TRUE]
  <2>2. session[i] \in Parked
    BY SMT DEF SpentInv
  <2>3. r.sub.token = ""
    BY <2>2, Zenon DEF Parked
  <2> HIDE DEF r
  <2>4. req' = [req EXCEPT ![t] = r]
    BY <2>1, Zenon DEF r
  <2> QED BY <1>0, <1>2, <2>3, <2>4, Zenon
<1>5. ASSUME NEW t \in Threads, Finish(t) PROVE Goal
  <2>1. req' = [req EXCEPT ![t] = NoRequest]
    BY <1>5, Zenon DEF Finish
  <2>2. NoRequest.sub.token = ""
    BY Zenon DEF NoRequest
  <2> QED BY <1>0, <1>2, <2>1, <2>2, Zenon
<1>6. ASSUME NEW t \in Threads,
             \/ ReadClock(t) \/ CheckToken(t) \/ RunChain(t) \/ View(t) \/ Alert(t)
             \/ Consume(t) \/ RedirectToChallenge(t) \/ Respond(t)
      PROVE  req' = req \/ Finish(t)
  BY <1>6, Zenon DEF ReadClock, CheckToken, RunChain, View, Alert, Leave, Consume, RedirectToChallenge, Respond
<1>7. ASSUME NEW f \in Forms, NEW o \in Origins, render_fields(f, o) PROVE req' = req
  BY <1>7, Zenon DEF render_fields, threadVars
<1>8. ASSUME NEW c \in Ips \cup Accounts, Lapse(c) PROVE req' = req
  BY <1>8, Zenon DEF Lapse, threadVars
<1>9. ASSUME Tick \/ UNCHANGED vars PROVE req' = req
  BY <1>9, Zenon DEF Tick, vars, threadVars
<1> QED BY <1>1, <1>3, <1>4, <1>5, <1>6, <1>7, <1>8, <1>9, Zenon DEF Next

\* What SpentTokenRefused says of a thread.
Refuses(t) == Judged(t) /\ check[t].late => result[t].verdict = "blocked" \/ check[t].blind

\* A check that comes late finds no marker.
LEMMA CheckCaught ==
    ASSUME IInv, SpentInv, NEW t \in Threads, CheckToken(t)
    PROVE  Caught(t)' /\ Refuses(t)'
<1> DEFINE token == req[t].sub.token
           n == Payload(req[t])
           a == clock[t]
           sameIp == n = "" \/ page[n].ip = req[t].origin.ip
           late == n \in consumed /\ a > Grace
           Checked(present, blind) ==
               [first |-> render_token(token, a, present, sameIp), late |-> late, blind |-> blind]
<1>0. /\ pc \in [Threads -> Steps] /\ DOMAIN check = Threads
  BY Zenon DEF IInv, ThreadInv
<1>1. pc'[t] = "chain" /\ req' = req
  BY <1>0, Zenon DEF CheckToken, Go
<1>2. Refuses(t)'
  BY <1>1, Zenon DEF Refuses, Judged
<1>3. \/ check' = check
      \/ /\ HasToken(req[t].form)
         /\ \/ check'[t] = Checked(n \in marker, FALSE)
            \/ check'[t] = Checked(TRUE, TRUE)
  BY <1>0, Zenon DEF CheckToken
<1>4. CASE check' = check
  <2>1. Caught(t)
    BY Zenon DEF SpentInv
  <2> QED BY <1>1, <1>2, <1>4, <2>1, Zenon DEF Caught, HasToken
<1>5. ASSUME NEW present, NEW blind, check'[t] = Checked(present, blind)
      PROVE  /\ check'[t].first = render_token(token, a, present, sameIp)
             /\ check'[t].late = late /\ check'[t].blind = blind
  <2>1. \A first, l, b : LET c == [first |-> first, late |-> l, blind |-> b]
                         IN c.first = first /\ c.late = l /\ c.blind = b
    BY SMT
  <2> HIDE DEF token, a, sameIp, late
  <2> QED BY <1>5, <2>1
<1>6. late => n \notin marker /\ n = token /\ Verified(token) /\ a > Grace
  BY FormConstants, Zenon DEF SpentInv, Payload, IInv, TokenInv
<1> HIDE DEF token, a, sameIp, late, n, Checked
<1>7. CASE check'[t] = Checked(TRUE, TRUE)
  <2>1. check'[t].blind = TRUE
    BY <1>7, <1>5, Zenon
  <2> QED BY <1>2, <2>1, Zenon DEF Caught
<1>8. CASE HasToken(req[t].form) /\ check'[t] = Checked(n \in marker, FALSE)
  <2> DEFINE present == n \in marker
  <2>1. check'[t].first = render_token(token, a, present, sameIp) /\ check'[t].late = late
    BY <1>8, <1>5, Zenon
  <2>2. ASSUME late PROVE IsBlock(check'[t].first)
    <3>1. present = FALSE
      BY <1>6, <2>2, SMT
    <3> HIDE DEF present
    <3>2. check'[t].first = render_token(token, a, FALSE, sameIp)
      BY <2>1, <3>1, Zenon
    <3>3. Verified(token) /\ a > Grace
      BY <1>6, <2>2, Zenon
    <3> QED BY <3>2, <3>3, MarkerGone, Zenon
  <2>3. HasToken(req'[t].form)
    BY <1>1, <1>8, Zenon DEF HasToken
  <2> QED BY <1>2, <2>1, <2>2, <2>3, Zenon DEF Caught, HasToken
<1> QED BY <1>3, <1>4, <1>7, <1>8, Zenon

\* What the check has refused, the chain blocks.
LEMMA ChainRefuses ==
    ASSUME "render_token" \notin Raising, IInv, SpentInv, NEW t \in Threads, RunChain(t)
    PROVE  Caught(t)' /\ Refuses(t)'
<1>1. req' = req /\ check' = check
  BY Zenon DEF RunChain
<1>2. Caught(t)
  BY Zenon DEF SpentInv
<1>3. Caught(t)'
  BY <1>1, <1>2, Zenon DEF Caught, HasToken
<1>4. Refuses(t)'
  <2> SUFFICES ASSUME check[t].late, ~check[t].blind PROVE result'[t].verdict = "blocked"
    BY <1>1, Zenon DEF Refuses
  <2>1. HasToken(req[t].form) /\ IsBlock(check[t].first) /\ Enabled
    BY <1>2, Zenon DEF Caught, HasToken
  <2>2. PICK raised \in SUBSET Raising, failing \in (IF RedisFails THEN BOOLEAN ELSE {FALSE}) :
          LET r == req[t]
              outs == Outcomes(Chain(r.form, r.auth), Context(r, check[t].first, failing), raised)
              verdict == IF Enabled THEN Verdict(outs, defence_names(r.form)) ELSE "passed"
          IN result' = [result EXCEPT ![t] = [outs |-> outs, verdict |-> verdict]]
    BY Zenon DEF RunChain
  <2> DEFINE c == Context(req[t], check[t].first, failing)
             outs == Outcomes(Chain(req[t].form, req[t].auth), c, raised)
  <2>3. result'[t].verdict = Verdict(outs, defence_names(req[t].form))
    BY <2>1, <2>2, Zenon DEF IInv, ThreadInv
  <2>4. IsBlock(c.first)
    BY <2>1, Zenon DEF Context
  <2>5. "render_token" \notin raised /\ req[t].form \in Forms
    BY Zenon DEF IInv, ThreadInv
  <2> HIDE DEF c
  <2>6. Verdict(outs, defence_names(req[t].form)) = "blocked"
    BY <2>1, <2>4, <2>5, TokenBlocks
  <2> QED BY <2>3, <2>6, Zenon
<1> QED BY <1>3, <1>4, Zenon
\* No other step changes what a check found or what became of it.
LEMMA SpentChecks ==
    ASSUME "render_token" \notin Raising, IInv, SpentInv, [Next]_vars
    PROVE  \A t \in Threads : Caught(t)' /\ Refuses(t)'
<1> DEFINE Goal == \A t \in Threads : Caught(t)' /\ Refuses(t)'
<1>0. /\ \A t \in Threads : Caught(t) /\ Refuses(t)
      /\ DOMAIN pc = Threads /\ DOMAIN check = Threads
  BY Zenon DEF IInv, ThreadInv, SpentInv, Refuses
<1>1. ASSUME NEW t \in Threads, pc'[t] = pc[t], req'[t] = req[t], check'[t] = check[t], result'[t] = result[t]
      PROVE  Caught(t)' /\ Refuses(t)'
  BY <1>0, <1>1, Zenon DEF Caught, Refuses, Judged, HasToken
<1>2. CASE UNCHANGED threadVars
  BY <1>1, <1>2, Zenon DEF threadVars
<1>3. ASSUME NEW t \in Threads,
             \/ \E f \in Forms, n \in Nonces \cup {""} : \E c \in Clients[f] : Submit(t, f, n, c)
             \/ \E k \in Keys : Replay(t, k)
             \/ ReadClock(t) \/ CheckToken(t) \/ RunChain(t) \/ View(t) \/ Alert(t)
             \/ Consume(t) \/ RedirectToChallenge(t) \/ Respond(t),
             Caught(t)' /\ Refuses(t)'
      PROVE  Goal
  BY <1>1, <1>3, OtherThreads, Zenon
<1>4. ASSUME NEW t \in Threads, ~check'[t].late PROVE Caught(t)' /\ Refuses(t)'
  BY <1>4, Zenon DEF Caught, Refuses
<1>5. ~Unchecked.late
  BY Zenon DEF Unchecked
<1>6. ASSUME NEW t \in Threads,
             \/ \E f \in Forms, n \in Nonces \cup {""} : \E c \in Clients[f] : Submit(t, f, n, c)
             \/ (\E k \in Keys : Replay(t, k)) \/ ReadClock(t)
      PROVE  ~check'[t].late
  <2>1. pc[t] \in {"idle", "token"} /\ check' = check
    BY <1>6, Zenon DEF Submit, Replay, ReadClock, At
  <2> QED BY <1>5, <2>1, Zenon DEF IInv, ThreadInv
<1>7. ASSUME NEW t \in Threads, Finish(t) PROVE ~check'[t].late
  BY <1>0, <1>5, <1>7, Zenon DEF Finish
<1>8. ASSUME NEW t \in Threads, View(t) \/ Alert(t) \/ Consume(t) \/ RedirectToChallenge(t) \/ Respond(t)
      PROVE  Caught(t)' /\ Refuses(t)'
  <2>1. Finish(t) \/ (req' = req /\ check' = check /\ result' = result /\ Judged(t))
    BY <1>8, Zenon DEF View, Alert, Leave, Consume, RedirectToChallenge, Respond, At, Judged
  <2>2. Caught(t) /\ Refuses(t)
    BY <1>0, Zenon
  <2>3. CASE Finish(t)
    BY <1>4, <1>7, <2>3, Zenon
  <2>4. CASE ~Finish(t)
    BY <2>1, <2>2, <2>4, Zenon DEF Caught, Refuses, HasToken
  <2> QED BY <2>3, <2>4
<1>9. ASSUME NEW t \in Threads, CheckToken(t) \/ RunChain(t) PROVE Caught(t)' /\ Refuses(t)'
  BY <1>9, CheckCaught, ChainRefuses, Zenon
<1>10. ASSUME NEW f \in Forms, NEW o \in Origins, render_fields(f, o) PROVE UNCHANGED threadVars
  BY <1>10, Zenon DEF render_fields
<1>11. ASSUME NEW c \in Ips \cup Accounts, Lapse(c) PROVE UNCHANGED threadVars
  BY <1>11, Zenon DEF Lapse
<1>12. ASSUME Tick \/ UNCHANGED vars PROVE UNCHANGED threadVars
  BY <1>12, Zenon DEF Tick, vars
<1>13. ASSUME NEW t \in Threads,
             \/ \E f \in Forms, n \in Nonces \cup {""} : \E c \in Clients[f] : Submit(t, f, n, c)
             \/ \E k \in Keys : Replay(t, k)
             \/ ReadClock(t) \/ CheckToken(t) \/ RunChain(t) \/ View(t) \/ Alert(t)
             \/ Consume(t) \/ RedirectToChallenge(t) \/ Respond(t)
       PROVE  Goal
  <2>1. Caught(t)' /\ Refuses(t)'
    BY <1>4, <1>6, <1>8, <1>9, <1>13, Zenon
  <2> QED BY <1>3, <1>13, <2>1, Zenon
<1> QED BY <1>2, <1>10, <1>11, <1>12, <1>13, Zenon DEF Next

\* Of two uses of a page only those that overlap or come within the grace period both
\* get through: once consume_token_marker has spent a token, no later submission of it
\* that could ask Redis is let on to the view, for every chain of defences that has
\* render_token in it, for authenticated users and others, however threads interleave.
\* RenderTokenDefence itself must not raise, as the chain takes that for a pass.
THEOREM SpentTokensRefused ==
    ASSUME "render_token" \notin Raising
    PROVE  Spec => []SpentTokenRefused
<1>1. IInv /\ SpentInv /\ [Next]_vars => SpentInv'
  <2> SUFFICES ASSUME IInv, SpentInv, [Next]_vars PROVE SpentInv'
    OBVIOUS
  <2>1. \A t \in Threads : Caught(t)' /\ Refuses(t)'
    BY SpentChecks, Zenon
  <2> QED BY <2>1, SpentTokens, SpentRecords, SpentRequests, Zenon DEF SpentInv, Refuses
<1>2. SpentInv => SpentTokenRefused
  BY Zenon DEF SpentInv, SpentTokenRefused
<1> QED BY <1>1, <1>2, SpentInit, Inductive, PTL DEF Spec
=============================================================================
