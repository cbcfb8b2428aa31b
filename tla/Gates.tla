------------------------------- MODULE Gates -------------------------------
(***************************************************************************)
(* What WafMiddleware.__call__ asks of a request before it is evaluated:   *)
(* exemptions, the site password, the method, the client's address, its    *)
(* country, and the staff bypass with the trusted-user cookie.             *)
(*                                                                         *)
(* One browser with its cookies moves between addresses, logs in, and      *)
(* sees the settings change under it.                                      *)
(***************************************************************************)
EXTENDS Integers, Sequences, SequencesExt

CONSTANTS
    Clients,    \* addresses a client may have
    Proxies,    \* DJANGO_WAF_TRUSTED_PROXIES
    Headers,    \* X-Forwarded-For headers that a client may send itself
    Blocked,    \* the clients in DJANGO_WAF_BLOCKED_COUNTRIES
    Settings,   \* the configurations a deployment may have, records of
                \* gate, password, gateTTL, trust, level, trustTTL, socket, legacy (the settings
                \* TRUSTED_UNIX_SOCKET and TRUST_X_FORWARDED_FOR) and userFirst (request.user is
                \* there: the WAF comes after authentication)
    MaxAge      \* bound: ages are counted up to this, more than any TTL

VARIABLES
    settings,
    where,      \* the address of the client
    user,       \* who is logged in
    verified,   \* the age of the site-password cookie
    trusted,    \* the trusted-user cookie: the address it is bound to, and its age
    proved,     \* history: how long ago the client gave the correct password
    earned,     \* history: how long ago a user who was to be trusted logged in, by address
    last        \* what became of the last request, and the address it was taken to have;
                \* Quiet once anything else has happened

gateVars == <<settings, where, user, verified, trusted, proved, earned, last>>

NoIp == ""
Bad == "unknown"   \* a hop that is no address

\* No client has the address of a trusted proxy; a header is a list of hops; ages and
\* times to live are numbers, and no cookie is accepted at the age that stands for never.
ASSUME GatesConstants ==
    /\ Clients \cap Proxies = {} /\ NoIp \notin Clients \cup Proxies
    /\ Clients \cup Proxies \subseteq STRING /\ Headers \subseteq Seq(STRING)
    /\ MaxAge \in Nat /\ \A s \in Settings : s.gateTTL \in Int /\ s.trustTTL \in Int
    /\ \A s \in Settings : s.gateTTL < MaxAge /\ s.trustTTL < MaxAge

Ages == 0..MaxAge  \* MaxAge stands for never, too
Users == {"nobody", "user", "staff"}
Paths == {"exempt", "open", "verify", "page"}
Requests == [path : Paths, method : {"GET"}, password : {""}, login : Users]
                \cup [path : {"verify"}, method : {"POST"}, password : {"", "old", "new"}, login : {"nobody"}]
                \cup [path : {"page"}, method : {"TRACE"}, password : {""}, login : {"nobody"}]
Quiet == [path |-> "exempt", answer |-> "passed", ip |-> NoIp]
Answers == {"passed", "prompt", "verified", "throttled", "not allowed", "forbidden", "bypassed", "evaluated"}

GatesTypeOK ==
    /\ settings \in Settings /\ where \in Clients /\ user \in Users
    /\ verified \in Ages /\ proved \in Ages
    /\ trusted \in [ip : Clients \cup Proxies \cup {NoIp}, age : Ages]
    /\ earned \in [Clients -> Ages]
    /\ last \in [path : Paths, answer : Answers, ip : Clients \cup Proxies \cup {NoIp}]

GatesInit ==
    /\ settings \in Settings /\ where \in Clients /\ user = "nobody"
    /\ verified = MaxAge /\ proved = MaxAge
    /\ trusted = [ip |-> where, age |-> MaxAge] /\ earned = [a \in Clients |-> MaxAge]
    /\ last = Quiet

----------------------------------------------------------------------------
(* services/client_ip.py *)

_is_valid_ip(hop) == hop \in Clients \cup Proxies

_is_trusted_proxy(hop) == hop \in Proxies

\* Mutant: the walk starts at the left end, which the client writes.
FromTheLeft(header) ==
    LET i == SelectInSeq(header, LAMBDA hop : _is_valid_ip(hop) /\ ~_is_trusted_proxy(hop))
    IN IF i = 0 THEN NoIp ELSE header[i]

\* The last hop that is an address, and not one of a proxy.
_resolve_from_forwarded_chain(header) ==
    LET i == SelectLastInSeq(header, LAMBDA hop : _is_valid_ip(hop) /\ ~_is_trusted_proxy(hop))
    IN IF i = 0 THEN NoIp ELSE header[i]

resolve_client_ip(remote, header) ==
    IF _is_trusted_proxy(remote) \/ (settings.socket /\ remote = NoIp)
    THEN LET resolved == _resolve_from_forwarded_chain(header)
         IN IF resolved # NoIp THEN resolved ELSE remote
    ELSE IF settings.legacy /\ header # <<>> /\ _is_valid_ip(Head(header)) THEN Head(header)
    ELSE remote

\* How a request arrives: directly, through a local socket, or through proxies, each of
\* which adds the address that connected to it to the header.
Arrivals(header) ==
    {[remote |-> where, header |-> header], [remote |-> NoIp, header |-> Append(header, where)]}
        \cup [remote : Proxies, header : {Append(header, where)} \cup {header \o <<where, q>> : q \in Proxies}]

----------------------------------------------------------------------------
(* services/site_password_service.py *)

is_misconfigured == settings.gate /\ settings.password = ""

\* Mutant: the age of the cookie is not checked.
AnyAge == verified < MaxAge

\* unsign(max_age) takes the TTL of now, not of when the cookie was set.
has_valid_cookie == verified <= settings.gateTTL

check_password(submitted) == submitted # "" /\ submitted = settings.password

\* _check_site_password and _handle_site_password_verify: what the gate answers, "on"
\* when it lets the request through.  Whether a wrong guess is throttled is up to
\* check_rate_limit (module RateLimiter), or to Redis being away.
_check_site_password(r) ==
    IF ~settings.gate \/ r.path = "open" THEN {"on"}
    ELSE IF is_misconfigured THEN {"prompt"}
    ELSE IF has_valid_cookie THEN {"on"}
    ELSE IF r.method # "POST" \/ r.path # "verify" THEN {"prompt"}
    ELSE IF check_password(r.password) THEN {"verified"}
    ELSE {"throttled", "prompt"}

----------------------------------------------------------------------------
(* services/trusted_user_service.py and receivers.py *)

user_meets_trust_level(u) == u = "staff" \/ (u = "user" /\ settings.level = "authenticated")

\* Mutant: the address the cookie is bound to is not compared.
AnyAddress(ip) == settings.trust /\ trusted.age <= settings.trustTTL

has_valid_trusted_cookie(ip) ==
    settings.trust /\ trusted.age <= settings.trustTTL /\ trusted.ip = ip

_is_staff_user(ip) == has_valid_trusted_cookie(ip) \/ (settings.userFirst /\ user = "staff")

----------------------------------------------------------------------------
(* WafMiddleware.__call__: its answers to request r from address ip *)

\* lookup_country may not know the country of an address.
Countries(ip) == IF ip \in Blocked THEN {"forbidden", "on"} ELSE {"on"}

\* Beyond the country check.  Without Redis everything passes, and a waf_pass cookie
\* (module Traffic) passes too.
Evaluate(ip) == IF _is_staff_user(ip) THEN {"bypassed"} ELSE {"evaluated", "passed"}

__call__(r, ip) ==
    LET gate == _check_site_password(r) IN
    IF r.path = "exempt" THEN {"passed"}
    ELSE IF gate # {"on"} THEN gate
    ELSE IF r.method = "TRACE" THEN {"not allowed"}
    ELSE IF ip = NoIp THEN {"passed"}
    ELSE (Countries(ip) \ {"on"}) \cup (IF "on" \in Countries(ip) THEN Evaluate(ip) ELSE {})

\* The view is reached, and may log a user in; user_logged_in sets the flag that makes
\* _get_response set the cookie, bound to the address of the request.
Login(r, ip) ==
    /\ user' = IF r.login = "nobody" THEN user ELSE r.login
    /\ IF settings.trust /\ user_meets_trust_level(r.login)
       THEN /\ trusted' = [ip |-> ip, age |-> 0]
            /\ earned' = IF ip \in Clients THEN [earned EXCEPT ![ip] = 0] ELSE earned
       ELSE UNCHANGED <<trusted, earned>>

Visit(r, ip) ==
    /\ \E answer \in __call__(r, ip) :
          /\ last' = [path |-> r.path, answer |-> answer, ip |-> ip]
          /\ verified' = IF answer = "verified" THEN 0 ELSE verified
          /\ proved' = IF answer = "verified" /\ r.password = settings.password THEN 0 ELSE proved
          /\ \/ answer \in {"passed", "bypassed", "evaluated"} /\ Login(r, ip)
             \/ answer \notin {"passed", "bypassed"} /\ UNCHANGED <<user, trusted, earned>>
    /\ UNCHANGED <<settings, where>>

----------------------------------------------------------------------------
Older(n) == IF n = MaxAge THEN n ELSE n + 1

Age ==
    /\ verified' = Older(verified) /\ proved' = Older(proved)
    /\ trusted' = [ip |-> trusted.ip, age |-> Older(trusted.age)]
    /\ earned' = [a \in Clients |-> Older(earned[a])]
    /\ last' = Quiet
    /\ UNCHANGED <<settings, where, user>>

\* The client changes its address, or logs out.
Move ==
    /\ where' \in Clients
    /\ user' \in {user, "nobody"}
    /\ last' = Quiet
    /\ UNCHANGED <<settings, verified, trusted, proved, earned>>

\* The processes are restarted with other settings.
Deploy ==
    /\ settings' \in Settings
    /\ last' = Quiet
    /\ UNCHANGED <<where, user, verified, trusted, proved, earned>>

GatesNext ==
    \/ \E ip \in {resolve_client_ip(a.remote, a.header) : a \in UNION {Arrivals(h) : h \in Headers}} :
          \E r \in Requests : Visit(r, ip)
    \/ Age \/ Move \/ Deploy

GatesSpec == GatesInit /\ [][GatesNext]_gateVars

----------------------------------------------------------------------------
(* Properties *)

\* What the gate guards and does not guard: other than on exempt paths, nothing is
\* answered but the prompt, unless the gate is off or the browser gave the password,
\* of then or of now, within the current TTL; never while the password is empty.
GateHolds ==
    [][last'.path \in {"verify", "page"} /\ last' # last
          /\ last'.answer \in {"passed", "not allowed", "forbidden", "bypassed", "evaluated"} =>
             ~settings.gate \/ (settings.password # "" /\ proved <= settings.gateTTL)]_gateVars

\* A request skips the evaluation on account of a cookie only if, within the current
\* TTL, a user who was to be trusted then logged in from this very address.
TrustEarned ==
    [][last'.answer = "bypassed" /\ last' # last /\ last'.ip \in Clients =>
          (settings.userFirst /\ user = "staff") \/ (settings.trust /\ earned[last'.ip] <= settings.trustTTL)]_gateVars

\* Whatever X-Forwarded-For a client sends and whatever proxies lie between, its
\* request is judged under its own address, the legacy setting apart.  Behind a local
\* socket that is not trusted it is judged under none: it has no address then, and
\* passes every gate that asks for one.
AddressTrue ==
    [][last' \notin {last, Quiet} =>
          settings.legacy \/ last'.ip = where \/ (~settings.socket /\ last'.ip = NoIp)]_gateVars
=============================================================================
