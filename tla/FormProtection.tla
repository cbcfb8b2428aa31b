--------------------------- MODULE FormProtection ---------------------------
(***************************************************************************)
(* Protected forms at work: pages rendered with a signed token and its     *)
(* one-shot Redis marker, submissions through the mixin and the decorator, *)
(* the failure counters of logins, and the submissions parked in the       *)
(* session for a replay after a challenge.                                 *)
(*                                                                         *)
(* Threads serve submissions of one session concurrently.  Every Redis     *)
(* command is a step.  A request works on its own copy of the session,     *)
(* which it loads once and saves with the response.                        *)
(***************************************************************************)
EXTENDS FormDefences, FiniteSetsExt

CONSTANTS
    Threads, Nonces, Keys,   \* bounds: tokens and replay records that are ever issued
    Forms, Config,           \* Config[f]: defences, skip_for_authenticated, entry point
    Origins, Clients,        \* addresses and agents; who submits each form, from where, logged in
                             \* or not, and how they fill it in
    Accounts, AccountLimit,  \* DJANGO_WAF_FORM_CREDENTIAL_THROTTLE_LIMIT
    MaxFailures,             \* bound: failures recorded while a counter lives
    MaxStash, ReplayTTL,     \* records kept per session (5), _REPLAY_TTL_SECONDS
    Enabled, ChallengeOnFlag, \* DJANGO_WAF_FORM_PROTECTION_ENABLED, ..._CHALLENGE_ON_FLAG
    Raising,                 \* defences that may raise
    Faults                   \* {"redis"} when Redis commands may fail

ASSUME FormConstants ==
    /\ Forms # {} /\ Origins # {} /\ AccountLimit \in Nat \ {0} /\ MaxStash \in Nat
    /\ ReplayTTL \in Nat /\ Enabled \in BOOLEAN
    /\ Nonces \cap {"", "forged", "form_id", "unset"} = {}
    /\ Accounts \cap {o.ip : o \in Origins} = {}
    /\ \A f \in Forms : \A c \in Clients[f] : c.origin \in Origins

VARIABLES
    page,     \* of each token, the client it was rendered for
    age,      \* ticks since then
    marker,   \* Redis waf:form:token:{nonce}
    failures, \* Redis waf:form:cred_fail:ip:{ip} and :account:{hash}
    session,  \* the saved records of request.session["waf_form_replay"], oldest first
    ticket,   \* the replay tokens handed out: form, address and ticks since
    pc, req, clock, check, result, copy,  \* of each thread: its step, its submission, the token's age
              \* as it read the clock, what the marker's check and the chain made of it, and its
              \* records of the session
    consumed, unmarked,  \* history: markers spent by a pass, and markers never set
    alerted, due  \* history, per account since its counter began: credential_attack_observed, and
              \* the threads that are about to send it

tokenVars == <<page, age, marker, consumed, unmarked>>
counterVars == <<failures, alerted, due>>
sessionVars == <<session, ticket>>
threadVars == <<pc, req, clock, check, result, copy>>
vars == <<tokenVars, counterVars, sessionVars, threadVars>>

None == [none |-> TRUE]
MaxAge == TokenTTL + 1
Ips == {o.ip : o \in Origins}

Fields == Nonces \cup {"", "form_id"}
Submissions == [token : Nonces \cup {"", "forged"}, filled : BOOLEAN,
                touch : Fields \cup {"unset"}, pow : Fields, bind : Fields]
Records == [key : Keys, form : Forms, data : Submissions]
Steps == {"idle", "token", "marker", "chain", "stash", "view", "alert", "consume", "respond"}

NoRequest == [form |-> CHOOSE f \in Forms : TRUE, origin |-> CHOOSE o \in Origins : TRUE,
              sub |-> [token |-> "", filled |-> FALSE, touch |-> "", pow |-> "", bind |-> ""],
              auth |-> FALSE, replay |-> FALSE]
Unchecked == [first |-> passed, late |-> FALSE, blind |-> FALSE]
NoResult == [outs |-> <<>>, verdict |-> "passed"]

TypeOK ==
    /\ DOMAIN page = Nonces /\ \A n \in Nonces : page[n] \in Origins \cup {None}
    /\ age \in [Nonces -> 0..MaxAge]
    /\ marker \subseteq Nonces /\ consumed \subseteq Nonces /\ unmarked \subseteq Nonces
    /\ failures \in [Ips \cup Accounts -> Nat] /\ alerted \in [Accounts -> Nat]
    /\ due \in [Accounts -> SUBSET Threads] /\ clock \in [Threads -> 0..MaxAge]
    /\ session \in Seq(Records)
    /\ DOMAIN ticket = Keys
    /\ \A k \in Keys : ticket[k] \in [form : Forms, ip : Ips, age : 0..ReplayTTL + 1] \cup {None}
    /\ pc \in [Threads -> Steps]
    /\ \A t \in Threads :
          /\ req[t].form \in Forms /\ req[t].origin \in Origins /\ req[t].sub \in Submissions
          /\ check[t].late \in BOOLEAN /\ check[t].blind \in BOOLEAN
          /\ result[t].verdict \in {"passed", "flagged", "blocked"}
          /\ copy[t] \in Seq(Records)

Init ==
    /\ page = [n \in Nonces |-> None] /\ age = [n \in Nonces |-> 0]
    /\ marker = {} /\ consumed = {} /\ unmarked = {}
    /\ failures = [c \in Ips \cup Accounts |-> 0] /\ alerted = [a \in Accounts |-> 0]
    /\ due = [a \in Accounts |-> {}]
    /\ session = <<>> /\ ticket = [k \in Keys |-> None]
    /\ pc = [t \in Threads |-> "idle"] /\ req = [t \in Threads |-> NoRequest]
    /\ clock = [t \in Threads |-> 0]
    /\ check = [t \in Threads |-> Unchecked] /\ result = [t \in Threads |-> NoResult]
    /\ copy = [t \in Threads |-> <<>>]

At(t, step) == pc[t] = step
Go(t, step) == pc' = [pc EXCEPT ![t] = step]
Finish(t) ==
    /\ Go(t, "idle")
    /\ req' = [req EXCEPT ![t] = NoRequest] /\ check' = [check EXCEPT ![t] = Unchecked]
    /\ result' = [result EXCEPT ![t] = NoResult] /\ copy' = [copy EXCEPT ![t] = <<>>]
    /\ UNCHANGED clock
RedisFails == "redis" \in Faults

----------------------------------------------------------------------------
(* FormProtection *)

defence_names(f) == _order_defences(Config[f].defences)

\* The defences that run for a request: only render_token where the form skips
\* authenticated users, none while the protection is switched off.
Chain(f, auth) ==
    IF ~Enabled THEN <<>>
    ELSE IF Config[f].skip /\ auth
         THEN _order_defences(Config[f].defences \cap {"render_token"})
         ELSE defence_names(f)

HasToken(f) == Enabled /\ "render_token" \in Config[f].defences

\* render_fields and RenderTokenDefence.render_fields: a fresh token, and its
\* marker unless Redis fails.  The payload names the form, which nobody reads.
render_fields(f, o) ==
    /\ HasToken(f)
    /\ \E n \in Nonces :
          /\ page[n] = None
          /\ page' = [page EXCEPT ![n] = o]
          /\ \/ marker' = marker \cup {n} /\ UNCHANGED unmarked
             \/ RedisFails /\ unmarked' = unmarked \cup {n} /\ UNCHANGED marker
    /\ UNCHANGED <<age, consumed, counterVars, sessionVars, threadVars>>

\* A posted field is a list of values; the defences see the last one.
scalarise_submitted_data(post) ==
    [token |-> Last(post.token), filled |-> Last(post.filled), touch |-> Last(post.touch),
     pow |-> Last(post.pow), bind |-> Last(post.bind)]

\* What the page's hidden fields hold when it is submitted, by a browser that ran
\* the scripts or did not, by a client that fills every field, or by hand.
Fill(n, how) ==
    LET nonce == BoundNonce(n, "form_id")
        Hand(value) == <<IF how = "bare" THEN "" ELSE value>>
        Script(value, without) == Hand(IF how = "human" THEN value ELSE without)
    IN [token |-> Hand(IF how = "forged" THEN "forged" ELSE n), filled |-> <<how = "filler">>,
        touch |-> Script(nonce, "unset"), pow |-> Script(nonce, ""), bind |-> Hand(nonce)]

\* A POST to form f, from a page with token n if the form renders one.  It may be the
\* page of another form: see render_fields.
Submit(t, f, n, c) ==
    /\ At(t, "idle")
    /\ IF HasToken(f) THEN n \in Nonces /\ page[n] # None ELSE n = ""
    /\ Go(t, "token")
    /\ req' = [req EXCEPT ![t] = [form |-> f, sub |-> scalarise_submitted_data(Fill(n, c.how)),
                                  origin |-> c.origin, auth |-> c.auth, replay |-> FALSE]]
    /\ UNCHANGED <<tokenVars, counterVars, sessionVars, clock, check, result, copy>>

----------------------------------------------------------------------------
(* evaluate, in three steps: the clock, the marker's EXISTS, and the rest with its counters *)

\* The verified payload: its nonce, or "" without one.
Payload(r) == IF HasToken(r.form) /\ Verified(r.sub.token) THEN r.sub.token ELSE ""

\* RenderTokenDefence.evaluate takes the time once, for the expiry and for the grace period.
ReadClock(t) ==
    /\ At(t, "token") /\ Go(t, "marker")
    /\ LET n == Payload(req[t]) IN clock' = [clock EXCEPT ![t] = IF n = "" THEN 0 ELSE age[n]]
    /\ UNCHANGED <<tokenVars, counterVars, sessionVars, req, check, result, copy>>

\* Then it asks for the marker.  A failing EXISTS counts as a marker that is there.
CheckToken(t) ==
    /\ At(t, "marker") /\ Go(t, "chain")
    /\ LET r == req[t]
           n == Payload(r)
           Checked(present, blind) ==
               [first |-> render_token(r.sub.token, clock[t], present,
                                       n = "" \/ page[n].ip = r.origin.ip),
                late |-> n \in consumed /\ clock[t] > Grace, blind |-> blind]
       IN IF HasToken(r.form)
          THEN \/ check' = [check EXCEPT ![t] = Checked(n \in marker, FALSE)]
               \/ RedisFails /\ check' = [check EXCEPT ![t] = Checked(TRUE, TRUE)]
          ELSE UNCHANGED check
    /\ clock' = [clock EXCEPT ![t] = 0]
    /\ UNCHANGED <<tokenVars, counterVars, sessionVars, req, result, copy>>

\* A counter that cannot be read is 0.  Nothing in the package calls record_signup.
Context(r, first, failing) ==
    LET n == Payload(r) IN
    [sub |-> r.sub, first |-> first, payload |-> n,
     age |-> IF n = "" THEN 0 ELSE age[n],
     sameUa |-> n = "" \/ page[n].ua = r.origin.ua,
     failures |-> IF failing THEN 0 ELSE failures[r.origin.ip], signups |-> 0]

\* Where _handle_post and ProtectedForm.clean take a submission after its verdict.
Dispatch(r, verdict) ==
    CASE verdict = "blocked" -> "respond"
      [] verdict = "flagged" /\ Config[r.form].entry = "decorator" /\ ChallengeOnFlag -> "stash"
      [] verdict = "passed" /\ Config[r.form].entry = "mixin" -> "consume"
      [] OTHER -> "view"

\* The other defences, the verdict and log_form_submission, whose request.user
\* loads the session unless a replay has done so (a copy nobody reads is left out).
RunChain(t) ==
    /\ At(t, "chain")
    /\ \E raised \in SUBSET Raising, failing \in (IF RedisFails THEN BOOLEAN ELSE {FALSE}) :
          LET r == req[t]
              outs == Outcomes(Chain(r.form, r.auth), Context(r, check[t].first, failing), raised)
              verdict == IF Enabled THEN Verdict(outs, defence_names(r.form)) ELSE "passed"
              step == Dispatch(r, verdict)
          IN /\ Go(t, step)
             /\ result' = [result EXCEPT ![t] = [outs |-> outs, verdict |-> verdict]]
             /\ copy' = [copy EXCEPT ![t] = IF step = "stash" /\ ~r.replay THEN session ELSE @]
    /\ UNCHANGED <<tokenVars, counterVars, sessionVars, req, clock, check>>

----------------------------------------------------------------------------
(* _handle_post, ProtectedForm.clean and the application's view *)

AfterView(t) ==
    IF result[t].verdict = "passed" /\ Config[req[t].form].entry = "decorator" THEN "consume" ELSE "respond"

\* The view returns, or raises: nothing more is done then, and a 500 saves no session.
Leave(t) ==
    \/ Go(t, AfterView(t)) /\ UNCHANGED <<req, clock, check, result, copy>>
    \/ Finish(t)

\* Mutant: the alert is sent at the limit and beyond it.
ReachedOrBeyond(count) == count >= AccountLimit

\* waf_record_credential_failure alerts on the failure that reaches the limit.
Reached(count) == count = AccountLimit

\* The view.  One MULTI increments the counters of a failed login, whose results
\* the alert goes by; a failing one counts nothing.
View(t) ==
    /\ At(t, "view")
    /\ \/ Leave(t) /\ UNCHANGED counterVars
       \/ \E a \in Accounts :
             LET ip == req[t].origin.ip IN
             /\ Config[req[t].form].login /\ failures[a] < MaxFailures /\ failures[ip] < MaxFailures
             /\ failures' = [failures EXCEPT ![a] = @ + 1, ![ip] = @ + 1]
             /\ IF Reached(failures'[a])
                THEN /\ due' = [due EXCEPT ![a] = @ \cup {t}]
                     /\ Go(t, "alert") /\ UNCHANGED <<req, clock, check, result, copy>>
                ELSE Leave(t) /\ UNCHANGED due
             /\ UNCHANGED alerted
    /\ UNCHANGED <<tokenVars, sessionVars>>

\* credential_attack_observed is sent; a receiver that raises is caught.
Alert(t) ==
    /\ At(t, "alert") /\ Leave(t)
    /\ alerted' = [a \in Accounts |-> IF t \in due[a] THEN alerted[a] + 1 ELSE alerted[a]]
    /\ due' = [a \in Accounts |-> due[a] \ {t}]
    /\ UNCHANGED <<tokenVars, failures, sessionVars>>

\* consume_token_marker; a failing DEL leaves the marker.
Consume(t) ==
    /\ At(t, "consume")
    /\ Go(t, IF Config[req[t].form].entry = "mixin" THEN "view" ELSE "respond")
    /\ LET n == Payload(req[t]) IN
       \/ marker' = marker \ {n} /\ consumed' = consumed \cup ({n} \cap Nonces)
       \/ n # "" /\ RedisFails /\ UNCHANGED <<marker, consumed>>
    /\ UNCHANGED <<page, age, unmarked, counterVars, sessionVars, req, clock, check, result, copy>>

\* The session is saved with the response if the request changed it.
Respond(t) ==
    /\ At(t, "respond")
    /\ session' = IF req[t].replay THEN copy[t] ELSE session
    /\ Finish(t)
    /\ UNCHANGED <<tokenVars, counterVars, ticket>>

----------------------------------------------------------------------------
(* The challenge of a flagged submission and its replay *)

\* filter_sensitive_fields: the names waf_token and waf_pow_token match its pattern.
filter_sensitive_fields(sub) ==
    [token |-> "", filled |-> sub.filled, touch |-> sub.touch, pow |-> sub.pow, bind |-> ""]

\* The cap of store_in_session: the newest records stay.
Cap(stash) == IF Len(stash) > MaxStash THEN SubSeq(stash, Len(stash) - MaxStash + 1, Len(stash)) ELSE stash

\* _maybe_redirect_to_challenge: park the submission, sign a reference to it, and
\* redirect; the response saves the session.
RedirectToChallenge(t) ==
    /\ At(t, "stash")
    /\ \E k \in Keys :
          LET r == req[t] IN
          /\ ticket[k] = None
          /\ ticket' = [ticket EXCEPT ![k] = [form |-> r.form, ip |-> r.origin.ip, age |-> 0]]
          /\ session' = Cap(Append(copy[t], [key |-> k, form |-> r.form,
                                            data |-> filter_sensitive_fields(r.sub)]))
    /\ Finish(t)
    /\ UNCHANGED <<tokenVars, counterVars>>

\* _try_replay: a GET with a valid ticket whose record is in the session is served
\* as the POST it stands for, without the record in the request's session.
Replay(t, k) ==
    /\ At(t, "idle") /\ Go(t, "token")
    /\ ticket[k] # None /\ ticket[k].age <= ReplayTTL
    /\ \E i \in DOMAIN session, c \in Clients[ticket[k].form] :
          /\ session[i].key = k /\ session[i].form = ticket[k].form
          /\ c.origin.ip = ticket[k].ip
          /\ req' = [req EXCEPT ![t] = [form |-> session[i].form, sub |-> session[i].data,
                                        origin |-> c.origin, auth |-> c.auth, replay |-> TRUE]]
          /\ copy' = [copy EXCEPT ![t] = RemoveAt(session, i)]
    /\ UNCHANGED <<tokenVars, counterVars, sessionVars, clock, check, result>>

----------------------------------------------------------------------------
(* Time *)

Older(x, limit) == IF x < limit THEN x + 1 ELSE x

\* Mutant: a marker lives only for the time a form may take to fill in.
LivesForFill(n) == age[n] < MaxFill

\* Markers are set after their token and with its lifetime: one that lapses in the
\* next tick belongs to a token that then has expired.
Lives(n) == age[n] < TokenTTL

Tick ==
    /\ age' = [n \in Nonces |-> IF page[n] = None THEN 0 ELSE Older(age[n], MaxAge)]
    /\ marker' \in {marker, {n \in marker : Lives(n)}}
    /\ ticket' = [k \in Keys |-> IF ticket[k] = None THEN None
                                 ELSE [form |-> ticket[k].form, ip |-> ticket[k].ip,
                                       age |-> Older(ticket[k].age, ReplayTTL + 1)]]
    /\ UNCHANGED <<page, consumed, unmarked, counterVars, session, threadVars>>

\* A window without failures ends: the counter expires.  An alert still to be sent
\* then belongs to the window that is over.
Lapse(c) ==
    /\ failures[c] > 0
    /\ failures' = [failures EXCEPT ![c] = 0]
    /\ alerted' = [a \in Accounts |-> IF a = c THEN 0 ELSE alerted[a]]
    /\ due' = [a \in Accounts |-> IF a = c THEN {} ELSE due[a]]
    /\ UNCHANGED <<tokenVars, sessionVars, threadVars>>

Next ==
    \/ \E f \in Forms, o \in Origins : render_fields(f, o)
    \/ \E t \in Threads :
          \/ \E f \in Forms, n \in Nonces \cup {""} : \E c \in Clients[f] : Submit(t, f, n, c)
          \/ \E k \in Keys : Replay(t, k)
          \/ ReadClock(t) \/ CheckToken(t) \/ RunChain(t) \/ View(t) \/ Alert(t) \/ Consume(t)
          \/ RedirectToChallenge(t) \/ Respond(t)
    \/ Tick
    \/ \E c \in Ips \cup Accounts : Lapse(c)

Spec == Init /\ [][Next]_vars

----------------------------------------------------------------------------
(* Properties *)

Judged(t) == pc[t] \in {"stash", "view", "alert", "consume", "respond"}

\* A token whose marker a passing submission has consumed opens the form to no later
\* check beyond the grace period, except one that could not ask Redis: of two uses of
\* a page, only those that overlap or come within seconds both reach the view.
SpentTokenRefused ==
    \A t \in Threads : Judged(t) /\ check[t].late => result[t].verdict = "blocked" \/ check[t].blind

Expired == {n \in Nonces : age[n] > TokenTTL}

\* A submission is refused as a replay only if its token was spent by a pass, or ran
\* out while it was being checked, or if Redis failed when its page was rendered: a page
\* lying open, flags, blocks, views that raise and repeated attempts never use it up.
\* (render_token.py:121-124 says that a token rendered without Redis "still works"; it
\* does for the grace period, and is refused as replayed once Redis is back.)
NoFalseReplay ==
    \A t \in Threads :
        check[t].first = blocked("render_token", "replayed") =>
            req[t].sub.token \in consumed \cup unmarked \cup Expired

\* The total is the sum of each complaint at the weight of the defence that made it,
\* whatever part of the chain ran, and form_submission_blocked names a defence that
\* complained.
VerdictExplained ==
    \A t \in Threads :
        LET outs == result[t].outs
            complaints == {i \in DOMAIN outs : outs[i].verdict # "pass"}
        IN Judged(t) /\ Enabled =>
              /\ _aggregate_score(outs, defence_names(req[t].form)) =
                    Total([i \in DOMAIN outs |-> Points(outs[i], outs[i].reason[1])])
              /\ result[t].verdict = "blocked" => BlockedReason(outs) \in {outs[i].reason : i \in complaints}

\* While an account's counter lives, credential_attack_observed is sent exactly once
\* from the failure that reaches the limit on, however the logins interleave: it was
\* sent, or one thread is about to send it.
AlertedOnce ==
    \A a \in Accounts :
        IF failures[a] < AccountLimit THEN alerted[a] = 0 /\ due[a] = {}
        ELSE \/ alerted[a] = 1 /\ due[a] = {}
             \/ alerted[a] = 0 /\ \E t \in Threads : due[a] = {t} /\ At(t, "alert")
=============================================================================
