----------------------------- MODULE Detectors -----------------------------
(***************************************************************************)
(* The anomaly detectors: what each of the six queries finds in the recent *)
(* request log, the passes that run them in order and write what they find *)
(* as auto-generated rules, and the probe that runs them on fixture        *)
(* traffic.                                                                *)
(*                                                                         *)
(* A detector's queries and the rows it writes are one step here; AutoRule *)
(* takes the writing of one row apart.  A row of the request log carries   *)
(* its age instead of a time.  Names, confidences and evidence are data no *)
(* code reads back, and are left out.                                      *)
(***************************************************************************)
EXTENDS Integers, FiniteSets

CONSTANTS Net,          \* the /24 or /48 network of every address
          Requests,     \* the rows that traffic can leave, with age 0 and id 1
          Reputations,  \* IPReputation rows: ip, failures, passes, age
          Vetted,       \* <<address, user agent>> pairs an AllowRule matches
          HandMade,     \* keys of the rows an operator may add with source=AUTO
          Conf,         \* the DJANGO_WAF_* settings the detectors read
          Window,       \* the window of each query, as the greatest age it reads
          ProbeUas,     \* the user agents of the probe's rotation fixture, numbered
          SprayIps,     \* the addresses of the probe's spray fixture, numbered
          Runners,      \* the scheduled task and the management command
          MaxRows, MaxEdits

VARIABLES logs,     \* RequestLog
          solved,   \* age of each address's last solved challenge
          rules,    \* the source=AUTO rows, by (rule_type, pattern, action)
          at,       \* how many detectors the pass of each runner has done
          edits,    \* operators' changes and expiries so far, at most MaxEdits
          crossed   \* history: times detect_unsolved_challenges found a subnet

detectorVars == <<logs, solved, rules, at, edits, crossed>>

Order == <<"detect_ua_rotation", "detect_subnet_burst", "detect_challenge_farms",
           "detect_unsolved_challenges", "detect_cloud_spray", "detect_scraper_404_ratio">>
DETECTOR_NAMES == {Order[i] : i \in 1..6}

Ips    == {q.ip : q \in Requests}
Nets   == {Net[ip] : ip \in Ips}

\* The documentation networks, whose addresses the probe's fixtures have and no
\* client.
TestNet1 == {"p1.10", "p1.50", "p1.90", "p1.91"}
TestNet2 == {"p2.10", "p2.11", "p2.12"}
TestNet3 == {"p3.10"} \cup {SprayIps[i] : i \in DOMAIN SprayIps}

Networks ==
    [ip \in DOMAIN Net \cup TestNet1 \cup TestNet2 \cup TestNet3 |->
        IF ip \in TestNet1 THEN "p1" ELSE IF ip \in TestNet2 THEN "p2"
        ELSE IF ip \in TestNet3 THEN "p3" ELSE Net[ip]]

_get_subnet_prefix(ip) == Networks[ip]

\* Rows of the two tables are records; windows and thresholds are numbers, with the
\* fixtures numbered beyond their thresholds; shares are percentages.  No client and no
\* allow rule has anything to do with the fixtures' addresses.
ASSUME DetectorsConstants ==
    /\ IsFiniteSet(Requests) /\ IsFiniteSet(Reputations)
    /\ \A q \in Requests : "ip" \in DOMAIN q
    /\ {Window.ua, Window.burst, Window.farms, Window.unsolved, Window.spray, Window.scraper} \subseteq Nat
    /\ {Conf.distinctUas, Conf.burstMin, Conf.minChallenged, Conf.minRequests, Conf.topN} \subseteq Nat
    /\ {Conf.sprayIps, Conf.sprayPerIp} \subseteq Nat \ {0}
    /\ {Conf.refererPct, Conf.ratioPct} \subseteq 0..100
    /\ 1..Conf.distinctUas + 1 \subseteq DOMAIN ProbeUas /\ 1..Conf.sprayIps + 1 \subseteq DOMAIN SprayIps
    /\ \A i, j \in DOMAIN ProbeUas : ProbeUas[i] = ProbeUas[j] => i = j
    /\ \A i, j \in DOMAIN SprayIps : SprayIps[i] = SprayIps[j] => i = j
    /\ TestNet3 \cap (TestNet1 \cup TestNet2) = {}
    /\ (TestNet1 \cup TestNet2 \cup TestNet3) \cap Ips = {}
    /\ <<"p1.90", "probe">> \notin Vetted /\ <<"p1.91", "probe">> \notin Vetted

Oldest == CHOOSE a \in {Window[w] : w \in DOMAIN Window} : \A w \in DOMAIN Window : Window[w] <= a

Key(type, pattern, action) == [type |-> type, pattern |-> pattern, action |-> action]
NoRule == [active |-> FALSE, reviewed |-> FALSE, detectors |-> {}]

DetectorsTypeOK ==
    /\ \A x \in logs : /\ [x EXCEPT !.age = 0, !.id = 1] \in Requests
                       /\ x.age \in 0..Oldest /\ x.id \in 1..MaxRows
    /\ solved \in [Ips -> 0..Window.solve + 1]
    /\ \A k \in DOMAIN rules : /\ rules[k].active \in BOOLEAN
                               /\ rules[k].reviewed \in BOOLEAN
                               /\ rules[k].detectors \subseteq DETECTOR_NAMES
    /\ at \in [Runners -> 0..5]
    /\ edits \in 0..MaxEdits
    /\ crossed \in [Nets -> 0..2]

DetectorsInit ==
    /\ logs = {}
    /\ solved = [ip \in Ips |-> Window.solve + 1]
    /\ rules = <<>>
    /\ at = [r \in Runners |-> 0]
    /\ edits = 0
    /\ crossed = [n \in Nets |-> 0]

----------------------------------------------------------------------------
(* What the queries find: the keys of the rules to be written.  L is the   *)
(* request log they read.                                                  *)

Since(L, w) == {x \in L : x.age <= w}
Of(L, ip)   == {x \in L : x.ip = ip}
From(L, s)  == {x \in L : _get_subnet_prefix(x.ip) = s}
IpsIn(L)    == {x.ip : x \in L}
NetsIn(L)   == {_get_subnet_prefix(ip) : ip \in IpsIn(L)}

detect_ua_rotation(L) ==
    LET B == Since(L, Window.ua)
        distinct_ua_count(ip) == Cardinality({x.ua : x \in Of(B, ip)})
    IN  {Key("ip", ip, "CHALLENGE") :
            ip \in {i \in IpsIn(B) : distinct_ua_count(i) > Conf.distinctUas}}

\* Twice the median of the values of c, the mean of its two middle values.
TwiceMedian(c) ==
    LET n == Cardinality(DOMAIN c)
        Kth(k) == CHOOSE v \in {c[s] : s \in DOMAIN c} :
                     /\ Cardinality({s \in DOMAIN c : c[s] < v}) < k
                     /\ Cardinality({s \in DOMAIN c : c[s] <= v}) >= k
    IN  Kth((n + 1) \div 2) + Kth(n \div 2 + 1)

detect_subnet_burst(L) ==
    LET B == Since(L, Window.burst)
        subnet_counts == [s \in NetsIn(B) |-> Cardinality(From(B, s))]
        Bursting(s) == \/ subnet_counts[s] >= Conf.burstMin
                       \/ 2 * subnet_counts[s] > 3 * TwiceMedian(subnet_counts)
    IN  {Key("cidr", s, "CHALLENGE") : s \in {t \in DOMAIN subnet_counts : Bursting(t)}}

detect_challenge_farms(R) ==
    {Key("ip", rep.ip, "BLOCK") :
        rep \in {q \in R : q.age <= Window.farms /\ q.failures > 10 /\ q.passes < 2}}

\* The challenges the middleware itself recorded; rows from the nginx log would
\* count the same requests twice.
Challenged(L, w) ==
    {x \in Since(L, w) : x.verdict = "CHALLENGED" /\ x.source = "middleware"}

solved_ips == {ip \in Ips : solved[ip] <= Window.solve}

_detect_unsolved_challenges_per_ip(L) ==
    LET challenged  == Challenged(L, Window.unsolved)
        non_root(ip) == {x \in Of(Since(L, Window.unsolved), ip) : ~x.root}
        empty(ip)   == {x \in non_root(ip) : x.referer = "none"}
        Enough(ip)  == /\ non_root(ip) # {}
                       /\ 100 * Cardinality(empty(ip))
                             >= Conf.refererPct * Cardinality(non_root(ip))
        candidates  == {ip \in IpsIn(challenged) :
                           Cardinality(Of(challenged, ip)) >= Conf.minChallenged}
    IN  {Key("ip", ip, "BLOCK") : ip \in {i \in candidates \ solved_ips : Enough(i)}}

\* The subnets over both floors none of whose addresses solved a challenge.
Crossing(L) ==
    LET B == Challenged(L, Window.subnet)
        distinct_ips(s) == IpsIn(From(B, s))
    IN  {s \in NetsIn(B) :
            /\ Cardinality(From(B, s)) >= Conf.subnetChallenged
            /\ Cardinality(distinct_ips(s)) >= Conf.subnetIps
            /\ distinct_ips(s) \cap solved_ips = {}}

\* Mutant: whichever detector challenged the subnet before.
ChallengedByAny(L, R) ==
    LET already(s) == LET k == Key("cidr", s, "CHALLENGE")
                      IN  k \in DOMAIN R /\ R[k].active
    IN  {Key("cidr", s, IF already(s) THEN "BLOCK" ELSE "CHALLENGE") : s \in Crossing(L)}

\* A subnet that this detector itself has challenged already is blocked, any
\* other is challenged.  R are the rules as they stand.
_detect_unsolved_challenges_by_subnet(L, R) ==
    LET already_challenged(s) ==
            LET k == Key("cidr", s, "CHALLENGE")
            IN  k \in DOMAIN R /\ R[k].active /\ "detect_unsolved_challenges" \in R[k].detectors
    IN  {Key("cidr", s, IF already_challenged(s) THEN "BLOCK" ELSE "CHALLENGE") :
            s \in Crossing(L)}

detect_unsolved_challenges(L, R) ==
    _detect_unsolved_challenges_per_ip(L) \cup _detect_unsolved_challenges_by_subnet(L, R)

\* Rows without a referer, or with one that names a bare origin.
Unreferred(L, ua) ==
    {x \in Since(L, Window.spray) : x.ua = ua /\ x.referer \in {"none", "origin"}}
UserIps(L, ua) == IpsIn(Unreferred(L, ua))

\* The choices of the topN user agents of most addresses; ties fall either way.
spray_uas(L) ==
    LET C == {ua \in {x.ua : x \in L} \ {""} : Cardinality(UserIps(L, ua)) >= Conf.sprayIps}
    IN  {T \in SUBSET C :
            /\ Cardinality(T) <= Conf.topN
            /\ Cardinality(T) < Conf.topN => T = C
            /\ \A u \in T, v \in C \ T :
                  Cardinality(UserIps(L, u)) >= Cardinality(UserIps(L, v))}

detect_cloud_spray(L, top) ==
    LET suspicious(ua) ==
            {ip \in UserIps(L, ua) : Cardinality(Of(Unreferred(L, ua), ip)) <= Conf.sprayPerIp}
        spraying == {ua \in top : Cardinality(suspicious(ua)) >= Conf.sprayIps}
        Clustered(ua) == {s \in {_get_subnet_prefix(ip) : ip \in suspicious(ua)} :
                             Cardinality({ip \in suspicious(ua) : _get_subnet_prefix(ip) = s}) >= 2}
    IN  (IF Conf.uaRule THEN {Key("ua", ua, "CHALLENGE") : ua \in spraying} ELSE {})
            \cup {Key("cidr", s, "CHALLENGE") : s \in UNION {Clustered(ua) : ua \in spraying}}

\* Any user agent the address used in the window exempts it.
_scraper_candidate_matches_allow_rule(L, ip) ==
    \E x \in Of(Since(L, Window.scraper), ip) : <<ip, x.ua>> \in Vetted

\* An address for which it cannot be told (its check raises, or without Redis there is no
\* rule cache for any) is not flagged.
detect_scraper_404_ratio(L, unclear) ==
    LET B == {x \in Since(L, Window.scraper) : x.verdict \in {"ALLOWED", "LOGGED"}}
        total(ip)     == Cardinality(Of(B, ip))
        count_404(ip) == Cardinality({x \in Of(B, ip) : x.notFound})
        qualifying    == {ip \in IpsIn(B) : /\ total(ip) >= Conf.minRequests
                                            /\ 100 * count_404(ip) >= Conf.ratioPct * total(ip)}
    IN  {Key("ip", ip, IF Conf.block404 THEN "BLOCK" ELSE "CHALLENGE") :
            ip \in {i \in qualifying \ unclear : ~_scraper_candidate_matches_allow_rule(L, i)}}

\* The findings detector d can have.  failures are the sets of addresses whose check for
\* an exemption may fail.
Findings(d, L, reps, R, failures) ==
    CASE d = "detect_ua_rotation"         -> {detect_ua_rotation(L)}
      [] d = "detect_subnet_burst"        -> {detect_subnet_burst(L)}
      [] d = "detect_challenge_farms"     -> {detect_challenge_farms(reps)}
      [] d = "detect_unsolved_challenges" -> {detect_unsolved_challenges(L, R)}
      [] d = "detect_cloud_spray"         -> {detect_cloud_spray(L, top) : top \in spray_uas(L)}
      [] d = "detect_scraper_404_ratio"   -> {detect_scraper_404_ratio(L, unclear) : unclear \in failures}

----------------------------------------------------------------------------
(* Passes *)

Enforcing(d) == ~(Conf.quarantine \/ d \in Conf.observeOnly)

\* Mutant: the last detector to write a row is its only one.
OwnedByLast(R, found, d) ==
    [k \in DOMAIN R \cup found |->
        IF k \notin found THEN R[k]
        ELSE LET old == IF k \in DOMAIN R THEN R[k] ELSE NoRule
             IN  [old EXCEPT !.active = IF old.reviewed THEN @ ELSE Enforcing(d),
                             !.detectors = {d}]]

\* A reviewed row keeps its switch; the detectors of a row add up.
_get_or_create_auto_rule(R, found, d) ==
    [k \in DOMAIN R \cup found |->
        IF k \notin found THEN R[k]
        ELSE LET old == IF k \in DOMAIN R THEN R[k] ELSE NoRule
             IN  [old EXCEPT !.active = IF old.reviewed THEN @ ELSE Enforcing(d),
                             !.detectors = @ \cup {d}]]

\* The next detector of the pass of r; the sixth ends the pass.
run_all_detectors(r) ==
    LET d == Order[at[r] + 1]
    IN  /\ \E found \in Findings(d, logs, Reputations, rules, SUBSET Ips) :
              rules' = _get_or_create_auto_rule(rules, found, d)
        /\ at' = [at EXCEPT ![r] = (@ + 1) % 6]
        /\ crossed' = [n \in Nets |->
              IF d = "detect_unsolved_challenges" /\ n \in Crossing(logs) /\ crossed[n] < 2
              THEN crossed[n] + 1 ELSE crossed[n]]
        /\ UNCHANGED <<logs, solved, edits>>

\* A query fails, or the process dies: the pass is over.
Abort(r) ==
    /\ at[r] # 0 /\ edits < MaxEdits
    /\ at' = [at EXCEPT ![r] = 0]
    /\ edits' = edits + 1
    /\ UNCHANGED <<logs, solved, rules, crossed>>

----------------------------------------------------------------------------
(* Traffic, operators and the clock *)

LogRequest(q) ==
    /\ Cardinality(logs) < MaxRows
    /\ \E n \in 1..MaxRows :
          /\ \A x \in logs : x.id # n
          /\ \A j \in 1..n - 1 : \E x \in logs : x.id = j
          /\ logs' = logs \cup {[q EXCEPT !.id = n]}
    /\ UNCHANGED <<solved, rules, at, edits, crossed>>

\* Who solves a challenge was given one.
Solve(ip) ==
    /\ solved[ip] # 0
    /\ \E x \in logs : x.ip = ip /\ x.verdict = "CHALLENGED"
    /\ solved' = [solved EXCEPT ![ip] = 0]
    /\ UNCHANGED <<logs, rules, at, edits, crossed>>

\* Rows no window reads any more are dropped.
Tick ==
    /\ logs' = {[x EXCEPT !.age = @ + 1] : x \in {y \in logs : y.age < Oldest}}
    /\ solved' = [ip \in Ips |-> IF solved[ip] <= Window.solve THEN solved[ip] + 1 ELSE solved[ip]]
    /\ UNCHANGED <<rules, at, edits, crossed>>

Edit == edits < MaxEdits /\ edits' = edits + 1 /\ UNCHANGED <<logs, solved, at, crossed>>

Switch(k, row) == Edit /\ rules' = [rules EXCEPT ![k] = row]

\* A rule is rejected, or expires; a rule is confirmed, which makes its source
\* ADMIN, or deleted; a rule is added by hand.
Reject(k)     == Switch(k, [rules[k] EXCEPT !.active = FALSE, !.reviewed = TRUE])
Expire(k)     == rules[k].active /\ Switch(k, [rules[k] EXCEPT !.active = FALSE])
Withdraw(k)   == Edit /\ rules' = [j \in DOMAIN rules \ {k} |-> rules[j]]
AddByHand(k)  == /\ k \notin DOMAIN rules
                 /\ Edit /\ rules' = [j \in DOMAIN rules \cup {k} |->
                                         IF j = k THEN [NoRule EXCEPT !.active = TRUE] ELSE rules[j]]

DetectorsNext ==
    \/ \E r \in Runners : run_all_detectors(r) \/ Abort(r)
    \/ \E q \in Requests : LogRequest(q)
    \/ \E ip \in Ips : Solve(ip)
    \/ Tick
    \/ \E k \in DOMAIN rules : Reject(k) \/ Expire(k) \/ Withdraw(k)
    \/ \E k \in HandMade : AddByHand(k)

DetectorsSpec == DetectorsInit /\ [][DetectorsNext]_detectorVars

\* The scheduler starts pass after pass.
DetectorsFairness == \A r \in Runners : WF_detectorVars(run_all_detectors(r))

DetectorsFairSpec == DetectorsSpec /\ DetectorsFairness

----------------------------------------------------------------------------
(* The probe: fixture rows that cross every threshold, added and rolled    *)
(* back in one transaction around a pass.                                  *)

Row(id, ip, ua, root, verdict, source, notFound) ==
    [id |-> id, ip |-> ip, ua |-> ua, referer |-> "none", root |-> root, verdict |-> verdict,
     source |-> source, notFound |-> notFound, age |-> 0]

BurstIp(i) == <<"p2.10", "p2.11", "p2.12">>[1 + (i % 3)]

_build_ua_rotation_fixture ==
    {Row(i, "p1.10", ProbeUas[i], TRUE, "ALLOWED", "middleware", FALSE) :
        i \in 1..Conf.distinctUas + 1}
_build_subnet_burst_fixture ==
    {Row(i, BurstIp(i), "probe", TRUE, "ALLOWED", "middleware", FALSE) :
        i \in 1..Conf.burstMin + 1}
_build_challenge_farm_fixture ==
    {[ip |-> "p3.10", failures |-> 11, passes |-> 0, age |-> 0]}
_build_unsolved_challenge_fixture ==
    {Row(i, "p1.50", "probe", FALSE, "CHALLENGED", "middleware", FALSE) :
        i \in 1..Conf.minChallenged + 1}
_build_cloud_spray_fixture ==
    {Row(i, SprayIps[i], "spray", TRUE, "ALLOWED", "middleware", FALSE) :
        i \in 1..Conf.sprayIps + 1}
_build_scraper_404_fixture ==
    {Row(i, "p1.90", "probe", FALSE, "ALLOWED", "middleware", TRUE) :
        i \in 1..Conf.minRequests + 1}
    \cup {Row(i, "p1.91", "probe", FALSE, "ALLOWED", "nginx_log", TRUE) :
            i \in 1..Conf.minRequests + 1}

_build_fixture_traffic ==
    _build_ua_rotation_fixture \cup _build_subnet_burst_fixture
        \cup _build_unsolved_challenge_fixture \cup _build_cloud_spray_fixture
        \cup _build_scraper_404_fixture

\* Mutant: a rule that is there already does not count.
NewOnly(R, found) == found \ DOMAIN R

\* What a dry run of the probe counts: a rule it would refresh, too
\* (count_refresh_as_created).
Counted(R, found) == found

_MIN_RULES_REPORTED(d) == IF d = "detect_scraper_404_ratio" THEN 2 ELSE 1

\* The detectors that a dry run may report silent.
run_detector_probe(failures) ==
    {d \in DETECTOR_NAMES :
        \E found \in Findings(d, logs \cup _build_fixture_traffic,
                              Reputations \cup _build_challenge_farm_fixture, rules, failures) :
            Cardinality(Counted(rules, found)) < _MIN_RULES_REPORTED(d)}

----------------------------------------------------------------------------
(* Properties *)

\* Two stages: no detector blocks a subnet before detect_unsolved_challenges has
\* found it over the floors twice, whatever other detectors, passes cut short and
\* operators have done to its rules.
SubnetStaged ==
    \A n \in Nets :
        LET k == Key("cidr", n, "BLOCK")
        IN  k \in DOMAIN rules /\ rules[k].detectors # {} => crossed[n] = 2

\* The second stage is reached: a subnet that stays over the floors comes to be
\* blocked, though other detectors keep writing the same row, unless its
\* challenge rule is quarantined or under review, or an operator reviewed the
\* block rule.
PromotionReached ==
    \A n \in Nets :
        LET k == Key("cidr", n, "CHALLENGE")
            b == Key("cidr", n, "BLOCK")
        IN  <>[](/\ n \in Crossing(logs)
                 /\ \A d \in DETECTOR_NAMES : Enforcing(d)
                 /\ k \in DOMAIN rules => ~rules[k].reviewed)
                => []<>(b \in DOMAIN rules /\ (rules[b].active \/ rules[b].reviewed))

\* The probe raises no false alarm: in whatever state it runs, with whatever
\* rules on the fixtures' patterns, no detector is reported silent as long as no check
\* for an exemption fails (as all do without Redis), except the spray detector when
\* topN other user agents have as many addresses as its fixture has.
ProbeTruthful ==
    LET L == logs \cup _build_fixture_traffic
        crowding == {ua \in {x.ua : x \in L} \ {"spray"} :
                        Cardinality(UserIps(L, ua)) > Conf.sprayIps}
    IN  run_detector_probe({{}})
            \subseteq (IF Cardinality(crowding) < Conf.topN THEN {} ELSE {"detect_cloud_spray"})
=============================================================================
