# Verification of django-waf

TLA+ models of the parts of django-waf where several processes meet over Redis
and the database, checked with TLC on small instances and, where marked, proved
with TLAPS for all values of the constants. Paths below are relative to
`src/django_waf/` in the repository.

## The system and its parts

A request enters `WafMiddleware`, which after some gates (exempt path, country,
staff, pass cookie) calls `evaluate_request`. That loads the compiled rules,
applies allow rules, the blocked-IP fast path, block rules, rate limits and
scores, and returns a verdict; the middleware turns it into a response.
Everything the workers share lives in Redis (version and cache of the rules,
hit counters, challenge counters, blocked addresses, tokens) or in the database
(rules, tokens, request logs). Scheduled tasks move data from one to the other,
and detectors write new rules from the logs.

| Part | Shared state | Operations | Status |
|---|---|---|---|
| Compiled-rule cache (`services/rule_engine.py`, `handlers.py`) | rule tables, `waf:rules:version`, `waf:rules:cache:{v}`, rebuild lock, process cache | load, save, transaction, bulk update, expiry | `RuleCache`, proved |
| Auto-generated rules (`services/anomaly_detector.py`, `models.py`, dashboard, admin, `tasks.py`) | `BlockRule` rows of one key | create or refresh, review, switch, expire, prune | `AutoRule`, proved |
| Hit counters (`rule_engine`, `tasks.py`, `services/flush_probe.py`) | `waf:rule_hits:{rule}`, `hit_count` | count, flush, probe | `HitCounters`, proved |
| Challenge escalation and blocked-IP fast path (`rule_engine`, `middleware.py`) | `waf:challenged`, `waf:solved`, `waf:blocked` | verdict, count, reset, escalate, deny | `Traffic`, proved |
| Proof-of-work challenge (`services/challenge_service.py`, `views.py`) | `ChallengeToken`, `waf:challenge:{token}` | issue, verify, consume, prune | `Traffic`, proved |
| Request evaluation (`middleware.py`, `rule_engine`) | rules, `waf:blocked`, `waf:bot_fcrdns` | gates, allow rules, fast path, block rules, scores, verdict handling, fail-open | `Gates`, `Evaluation`, proved; partly `RuleCache`, `Traffic`; scoring functions are inputs |
| Rate limiter (`services/rate_limiter.py`) | `waf:rate:*` sorted sets | the three checks, Retry-After | `RateLimiter`, proved |
| Site password, trusted-user cookie, client address (`services/site_password_service.py`, `trusted_user_service.py`, `client_ip.py`) | cookies, settings | prompt, verify, log in, resolve | `Gates`, proved |
| Form protection (`forms/`) | markers, failure counters, replays in the session | render, evaluate, consume, record failure, park, replay | `FormProtection`, proved |
| Form defences (`forms/defences/`) | what one submission carries | the eight defences, score, verdict | `FormDefences` |
| nginx blocklist (`services/blocklist_generator.py`) | the included file, its `.last-good` copy | write, swap, test, roll back, reload | `Blocklist`, proved |
| Access log (`tasks.py`) | offset, `RequestLog` rows | parse, prune | `AccessLog`, proved |
| Threat feed (`services/threat_feed.py`) | rules of source feed | sync, expire | `ThreatFeed`, proved; telemetry and install id are not modelled |
| Anomaly detectors and their probe (`anomaly_detector.py`, `services/detector_probe.py`) | request log, auto rules | six detectors, passes, dry run of the probe | `Detectors`, proved |
| Admin, management commands | rule tables | write paths | partly, as actions of the modules above |
| Fingerprint and user-agent heuristics, GeoIP, Redis client, configuration, templates, API pages, test factories | none, or one request's own data | | not modelled: pure functions, I/O or pages |

`PROJECT.json` has the full list, with sources and reasons, the hazards of the
code at the line where they bite, and the map from definitions to lines.

The behaviours that are hard to test and that the models are built around:

- a value is read from Redis, something else happens, and what was derived from
  it is written back (rule cache version, challenge counter, probe snapshot);
- a Django signal fires before the transaction that caused it commits, or does
  not fire at all (`QuerySet.update()`);
- `update_or_create` applies defaults that were computed from an earlier read;
- a counter is deleted in Redis before it is added in the database;
- keys expire, locks expire while held, workers die, Redis commands fail and the
  code fails open;
- a marker is tested, the view runs, and only then is it deleted;
- a file is replaced, tested and put back by runs that share the copy;
- settings, addresses and DNS change while what was derived from them lives on.

## Modules

Every Redis command, SQL statement and assignment to a process-wide variable is
a step of its own; a `select_for_update` read that finds its row is one step with
the write it guards. Data is abstracted to what the properties tell apart.

| Module | What it is |
|---|---|
| `RuleService` | abstract: what a load of the rules promises a request |
| `RuleCache` | `load_rule_cache`, `_invalidate_rule_cache` and every kind of writer |
| `AutoRule` | `_get_or_create_auto_rule`, review views, admin actions, `expire_rules`, `prune_stale_rules` |
| `HitTally` | abstract: what becomes of a hit, without the places where it waits |
| `HitCounters` | `_record_rule_hit`, `flush_rule_hit_counts`, `run_flush_probe` |
| `Traffic` | the requests of one address, its challenges and its tokens |
| `FormDefences` | the defences as functions of a submission, the aggregate and its verdict |
| `FormProtection` | pages, tokens, submissions of one session, login failures, parked submissions |
| `Evaluation` | `evaluate_request` for one address, with times to live |
| `RateLimiter` | `check_rate_limit`, `check_path_rate_limit`, `check_verify_rate_limit` |
| `Gates` | what `WafMiddleware.__call__` asks before the evaluation, for one browser |
| `AccessLog` | `parse_access_log`, `prune_request_logs` |
| `Blocklist` | `generate_nginx_blocklist` and its reload |
| `ThreatFeed` | `sync_feed` |
| `Detectors` | the six detectors, `run_all_detectors`, `run_detector_probe` |
| `MCRuleCache`, `MCAutoRule`, `MCTraffic`, `MCForms` | symmetry sets and constant functions for TLC |
| `MCRequests`, `MCJobs` | several components that share no state, extended side by side in one instance: `focus` says in the initial state which one runs |
| `RuleCacheProofs`, `HitCountersProofs`, `TrafficProofs` | theorems and proofs about the module of that name |
| `FormProofs`, `FormVerdictProofs` | about `FormProtection` and `FormDefences` |
| `AnalysisProofs` | about `AutoRule` and `AccessLog` |
| `RequestProofs` | about `Evaluation`, `Gates` and `RateLimiter` |
| `JobProofs` | about `Blocklist`, `ThreatFeed` and `Detectors` |

### RuleCache

A table's contents are a *stamp*, the number of committed writes they reflect; a
rule set is a stamp per table. `version`, `cache`, `lock` are the Redis keys,
`pcache` and `pversion` the module variables `_process_cache` and
`_process_cache_version` of each process. `pc`, `ver`, `snap`, `locked`, `tries`
are the locals of `load_rule_cache`, whose steps are `GetVersion` …
`SetProcessVersion`. Writers are `Save` + `Announce` (autocommit: the signal
follows the commit), `AtomicWrite` + `AtomicSignal` + `AtomicCommit`
(transaction: the signal precedes it), `BulkUpdate` (no signal) and
`ExpireBlockRules` + `ExpireAllowRules`. `published[v]` is history: the tables
when version `v` was assigned. Faults, each switched by the constant `Faults`:
a lost increment, an error in a load, a crashed worker, an emptied Redis.

`RuleService` is the promise: a load returns rules that include everything
committed when the version it started from was announced, and nothing
uncommitted. The refinement mapping takes `floor` to `published[ver[t]]` while
thread `t` loads, `published` to `published[version]`.

### AutoRule

The rows of one key `(rule_type, pattern, action)`. `Detect`, `GetOrCreate`,
`Insert`, `Reget`, `Retry` are the statements of `_get_or_create_auto_rule` and of
Django's `update_or_create`, including the read that Django makes in its own
`IntegrityError` handler. `Written` is what `_auto_rule_write_defaults` computes.
Operators' actions are single statements. `expire_rules` takes two statements,
`prune_stale_rules` two as well, because a delete with receivers selects first.
`expires_at` is abstracted to its relation to the clock. The branch that
de-duplicates rows from before the unique constraint is left out: new
installations cannot reach it.

### HitCounters

A counter is the *set* of hits it counts, so a hit that is counted twice or lost
is visible. `lost` is history: hits that are in no counter and no row any more. An
error that drops a count is logged; a worker that dies with one in hand, a counter that
expires after two days (`CounterExpires`) and a probe's rollback or SET over newer hits
are not. A probe runs the same flush inside a transaction (`tx`) that it
rolls back, then restores the counters it swept up from `snapshot`; `during` is history,
the hits made since it began. Traffic goes on while a probe runs; `Overlap`
says whether a flush or another probe may run as well. GET and DEL of one key are one
step: redis-py wraps a pipeline in MULTI and EXEC unless told otherwise.

`HitTally` is the promise to whoever reads `hit_count`: a hit is made once, for one
rule, and is then counted there once or given up once. The refinement mapping takes
`counted` to the stored hits and `given_up` to the recorded ones in `lost`. Redis, the
workers' hands and the probe's snapshot are all "not yet": taking a counter, failing,
rolling back and restoring are stuttering steps.

### Traffic

One client address. `challenged`, `solved`, `blocked` are its Redis keys,
`status`, `age`, `cached` the tokens. A thread's record holds the locals of the
request it serves; `pc` names the next command. What rules, rate limit and score
make of a request is an input (`Outcomes`); so are the fingerprint (`bot`), the
proof of work (`good`) and whether the token was issued to this address (`own`).
Times to live are not counted: a key may lapse at any moment, which covers every
setting, and properties about durations are out of this model's reach. Only
`AgeToken` assumes a duration: no request lasts the 24 hours after expiry that
`prune_challenge_tokens` waits.

### FormDefences and FormProtection

A token is its nonce; `page`, `age` and `marker` say for whom it was rendered, how
long ago, and whether `waf:form:token:{nonce}` is in Redis. A submission carries the
fields that the defences read (token, honeypot, touch field, proof of work),
derived from a nonce as the templates derive them, and how it was filled in. The
payload's `form_id` is compared with nothing, so a page of either form may be submitted
to either. `Submit`, `ReadClock`, `CheckToken`, `RunChain`, `View`, `Alert`, `Consume`,
`Respond` are the steps of a protected request: the time is read before the marker is
asked for, and the failure is counted before the alert is sent. A view may raise, which
leaves the marker and the saved session as they were (Django saves no session with a
500). `RedirectToChallenge` and `Replay` park a submission in the
session and take it up again. A request has its own `copy` of the session and
saves it with its response, so the later of two responses wins. A forged token is
one that does not verify; nothing is said about the cryptography. `consumed`,
`unmarked`, `alerted`, `due` and the `late` and `blind` marks of a check are history. The
order of the chain and the sum of the scores (`_order_defences`, `Total`) are written
out for the eight defences there are, which a proof can reason about where a fold it
cannot; `TotalAddsUp` in `MCForms` has TLC compare the sum with a fold.

### Evaluation, RateLimiter, Gates and AccessLog

`Evaluation` keeps what `Traffic` leaves out: the time each key has left. What
others model (rules in the cache, limits, escalation) is an input. DNS may change
its mind, and a worker may be slow to store its answer, by at most `MaxLag`.

`RateLimiter` has one step per pipeline and lets a thread be held up between
reading the clock and using it. Stamps are members of the sorted set, so two
requests of one instant are one member, as in the code. A second has several ticks
(`Second`): stamps are finer than Retry-After, which is cut down to whole seconds and
is never below one.

`Gates` follows one browser that moves between two addresses, logs in as somebody
or staff, gives old and new passwords, and meets deployments that change under it.
A request reaches the server directly or through one or two trusted proxies, each
of which appends the address it sees, or through a local socket, where `REMOTE_ADDR` is
empty and counts as a proxy only with `DJANGO_WAF_TRUSTED_UNIX_SOCKET`; the header the client sends itself is an
input, and only the resolved address is kept. The mistyped trust level `staf` is
there because the code gives any unknown level the meaning of `staff`.

`AccessLog` lets a line be seen when only half of it is written. Positions count
halves. The file may be rotated at any time, the cached offset evicted, and a run
may stop after any step.

### Blocklist, ThreatFeed and Detectors

`Blocklist` has the seven steps of `generate_nginx_blocklist` and the task: write
a candidate, keep `.last-good`, rename, test, restore, drop the copy, reload. nginx
rejects a file with a key in `Unparsable`.

`ThreatFeed` reads and saves a row in two steps (at READ COMMITTED the transaction
keeps nobody out), and expires what is gone from the feed by a query and an update
for each table. Rows carry the date the entry gives, or `FeedLife` from the time it was
read, and `expire_rules` switches off those past it, one statement per table. A rule is
in force if it is active and not past its date, which is what the managers' `active()`
loads. An entry that makes the sync raise (a field of the wrong type) cuts it short as a
crash does. `approved` is history.

`Detectors` has the six queries over rows that carry their age. `Findings` is what a
detector would write; which spray candidates are the top N when several tie is a
choice, and so are the addresses whose exemption from the 404 detector cannot be told
because their check raises. A pass runs the detectors one step each, in order; it may be cut short.
`crossed` is history: how often `detect_unsolved_challenges` found a subnet. The
fixtures are those of the probe: one more row, user agent or address than the setting
in `Conf` asks for, at addresses of the three documentation networks. The numbered
user agents and spray addresses are constants (`ProbeUas`, `SprayIps`).

## What the runs check

| Run | Instance | Shows |
|---|---|---|
| `RuleCacheService` | two processes, one writer that saves or runs a transaction, load errors, crashes | `CacheFresh`, `ProcessCacheFresh`: what is cached for a version reflects everything committed before that version was assigned; `ImplementsRuleService` |
| `RuleCacheSync` | two writers (save, expire), one process, crashes | `NoChangeLeftUnseen`: once the writers are done, nothing cached for the current version differs from the tables |
| `RuleCacheLive` | two processes, dying workers, lost increments, Redis emptied | `LoadTerminates`: every load ends; `LoadBounded`: nothing that happens to a load leaves it as many steps to go |
| `AutoRuleSingle` | one runner, an observe-only and an enforcing detector | `DecisionsStand`; `PendingResolved` (liveness) |
| `AutoRuleQuarantine` | two runners, all rules quarantined | `QuarantineHolds`; `OverwrittenOnce`: what overlapping runs can lose, decisions and names of detectors alike |
| `HitCounters` | two flushers, a probe that no flush overlaps, two rules, two hits at any time, all faults | `HitsAccounted`, `NeverCountedTwice`, `NoFalseAlarm`, `ProbeSparesEarlierHits`; `ImplementsHitTally`; `HitsReachDatabase` (liveness) |
| `Traffic` | two threads, one token, threshold 2, failing Redis | `ChallengesBounded`, `SolvedNotEscalated`, `SpentNeverPasses`, `CachedHasRow` |
| `Forms` | two threads, one token, a login form behind the mixin and a decorated comment form that between them use every defence, failing Redis | `SpentTokenRefused`, `NoFalseReplay`, `VerdictExplained`, `AlertedOnce` |
| `Requests` | two threads each for `Evaluation`, `RateLimiter` and `AccessLog`; one browser for `Gates` | `StaleBlockChained`, `RdnsHorizon`; `LimiterExact`; `GateHolds`, `TrustEarned`, `AddressTrue`; `NoLinePassedOver` |
| `Jobs` | two overlapping runs for `Blocklist` and `ThreatFeed`, one for `Detectors`, crashes, operators | `NoBrokenFileLeft`, `EnforcedInTheEnd` (liveness); `AllowApproved`, `FeedFollowed` (liveness); `SubnetStaged`, `ProbeRight`, `PromotionReached` (liveness) |

The type invariants of `Traffic` and of the forms are checked by these runs, those of
the rule cache, the auto rules and the hit counters are proved; those of the modules
combined in `Requests` and `Jobs` document their state. `ProbeRight` and
`EnforcedInTheEnd` are `ProbeTruthful` of `Detectors` and `NginxCatchesUp` of
`Blocklist`, evaluated where that job is the one that runs.

### Where code and documentation disagree

Two runs check a property that a line of the repository states and that holds
under narrower conditions in a passing run. TLC finds both violated; the quotations
are in `PROJECT.json`.

| Run | Property | What happens |
|---|---|---|
| `AutoRuleRace` | `DecisionsStand` | a run that found no row applies its defaults, `is_active` and `review_status` included, to a row that another run created and an operator reviewed in the meantime; `OverwrittenOnce` says that this is all overlapping runs can do |
| `HitCountersProbe` | `HitsAccounted` | a scheduled flush during a probe: the probe puts back a counter that is already in the database |

Others can be seen by changing the constants of a run, or were met while
modelling:

- *Names of detectors.* `CHANGELOG.md:80-81` says of two runs that race for a row that
  "the losing run's detector name still joins the merged `detectors` set". It does in the
  `IntegrityError` branch. When the loser meets the winner's row in `update_or_create`
  itself, its defaults, computed from no row, replace the winner's name by its own.
  `OverwrittenOnce` says that a run can do this once at most.
- *GET and DEL.* `tasks.py:831-837` calls the pipeline "Not atomic against a concurrent
  INCR", with "a count dropped or double counted in that narrow window", and
  `flush_probe.py:132-141` repeats it. `redis_client.pipeline()` is a MULTI/EXEC
  transaction, so no INCR lands between the two; `Take` is one step, and `HitsAccounted` and
  `NeverCountedTwice` hold with traffic at any time. What the second comment goes on to
  say, that the probe does not widen the race, is not so either: hits made between its
  snapshot and its SET may be lost, which a flush alone would have counted.
  `ProbeSparesEarlierHits` says that these are the only ones.
- *Silent losses of hits.* A worker that dies between the DEL and the UPDATE, and a
  counter that expires because no flush has come for two days, lose hits without a line
  in the log; the models count them as lost.
- *Tokens rendered without Redis.* `forms/defences/render_token.py:121-124` says "fail-open.
  The token still works for verification", and
  `tests/forms/test_render_token_defence.py:111-115` "Worst case: replay protection weakens
  to the token's TTL". The evaluation cannot tell a marker that was never set from one
  that was spent: once Redis is back, such a token is refused as replayed after the grace
  period of 5 seconds. `NoFalseReplay` names these tokens (`unmarked`) as its exception,
  and fails without it.
- *Probe and old rows.* `conf.py:417-423` and `tasks.py:435-441` say that an expired,
  inactive row of source auto on a fixture's pattern "permanently reports that detector
  SILENT". A dry run counts a row that exists as it counts one that it would create
  (`anomaly_detector.py:1818-1829`), and `ProbeRight` holds with such rows in the table.
- *Feed rules past their date.* `docs/THREAT-FEED-DESIGN.md:178` says "Clients deactivate
  rules absent from the feed or past this timestamp". A sync sets `is_active` of a block
  rule that the feed still lists, whatever its date, until `expire_rules` clears it, and
  the next sync sets it again. It is not enforced in between, since `active()` looks at the
  date as well; `FeedFollowed` is about the rules in force.
- *Bulk updates.* `admin.py:75`, `admin.py:85` and `django_waf_unblock` use
  `QuerySet.update()`, which sends no signal, so workers keep the old rules until
  something else increments the version; `handlers.py:3-5` says "ensuring the
  middleware always re-fetches compiled rules after any change". With a writer of
  kind bulk, `NoChangeLeftUnseen` fails.
- *Quarantine.* An enforcing detector that finds the pending row of an observe-only
  one switches it on (`anomaly_detector.py:1967`); `docs/THREAT-MODEL.md:156-159`
  says it "never challenges or blocks real traffic until a superuser confirms it".
  With both kinds, `QuarantineHolds` fails.
- *Bots that solve.* `views.py:315` deletes the challenge count after every solve;
  the repository's `README.md:674-676` says that for a bot's fingerprint "it still
  counts".
- *Rule cache.* Two threads of one process that finish loads of different versions
  can pair the older rules with the newer version (`rule_engine.py:147`); an
  increment inside `transaction.atomic()` comes before the commit (`handlers.py:114`).
- *Fast path.* Every denial renews `waf:blocked:{ip}` for the default time, so an
  address that keeps asking stays blocked after its rule is gone, and the long block
  of an escalation is cut short (`middleware.py:674`). `StaleBlockChained` states
  what does hold. The key is written even where the escalation rule was not created
  or is quarantined (`rule_engine.py:907`).
- *Rate limiter.* A throttled request counts itself, and two requests of the same
  instant count as one; waiting as Retry-After says does not guarantee admission, since it
  is rounded down (`rate_limiter.py:55`), and its minimum of a second may be longer than
  needed. `CHANGELOG.md:1280` calls it accurate; `LimiterExact` says that it announces less than a
  second too much.
- *Forms.* The marker is consumed on a pass even if field validation then rejects
  the form. More than five outstanding replays push out the oldest
  (`forms/services/replay.py:169`).
- *Access log.* A log that was rotated and has grown past the offset is taken for
  the old one (`tasks.py:197`); a half-written last line is consumed (`tasks.py:264`);
  two equal requests in one second share an event id. `NoLinePassedOver` names the
  first two as its exceptions.
- *Blocklist.* Overlapping runs take each other's `.last-good`.
- *Threat feed.* The comment at `threat_feed.py:282-284` says an operator's choice is
  kept, but the full `save()` can write back the `is_active` it read earlier.
  `django_waf_sync_feed --dry-run` writes. Feed rows have no unique constraint.
- *Detectors.* The docstring at `anomaly_detector.py:149` asks for both conditions of
  a burst, the code at 235 for either. A dry run counts a key twice when burst and
  spray name the same subnet. An observe-only burst or spray detector switches the
  shared row off on every pass, so that the subnet is never promoted.
- *Detector probe.* `detector_probe.py:26-31` expects imports and feeds to leave rows
  of source AUTO, which only the admin form can do; 205-210 says that refreshed rows
  count when writes are exercised, but the flag is read only in a dry run; 15-16 calls
  zero "an unambiguous defect signal", but crowding by other user agents, or Redis
  being away, gives zero too. A leftover `IPReputation` row makes the probe raise.

### Bounds

- *Rule cache.* A stale cache takes one commit, one increment, and one load on
  each side of them. One commit and version 0 and 1 give that with two processes;
  two writers need two of each. `MaxVersion = 0` in `RuleCacheLive` means that
  every increment is lost, which does not matter to the termination of loads.
  `LockRetries = 2` there, and 0 elsewhere (the first attempt may still fail and
  give up), stands for `_REBUILD_LOCK_RETRIES`.
- *Auto rules.* Two primary keys: one row, and its successor after a deletion or
  a confirmation (which makes the first an ADMIN row). Two detectors of different
  kinds, two runners for the races.
- *Hit counters.* Two rules, so that one key can fail while another succeeds, and
  two hits, so that a counter changes between two reads of it: one before a probe begins
  and one during it.
- *Traffic.* Two threads race over one token and a threshold of 2, so that both
  may pass the gate on the last free count. `MaxCount` bounds the count that can
  grow without limit when it cannot be read.
- *Forms.* One token that two threads submit, to either form one after the other, at the
  same time to the same form (`OneStory`, which also keeps login failures and parked
  comments in separate behaviours: no code reads both); two replay records with room for
  one, so that one is pushed out; limit 1 and up to two failures, so that the limit is
  passed. The ticks tell apart too fast, in time, past the grace period and expired. js_touch may raise. The comment form has two
  kinds of clients: one logged in without scripts, and one that has moved.
- *Requests.* Times to live of 1 and 2 ticks tell the short from the long ones, with
  a lag of one. Windows of a second of 3 ticks with a maximum of 1 or 2, over 5 instants,
  let a stamp enter, count, refuse another and leave, with Retry-After between the ticks;
  a behaviour uses the path's or the verification's limit besides the general one
  (`OneLimit`). Two addresses, two proxies, five
  headers and four deployments for the gates, ages up to one more than any TTL. Two
  lines of equal content, so that de-duplication, rotation and regrowth all happen; lines
  that differ are left to `LogReadThrough`.
- *Jobs.* Three rules, one of which nginx rejects, two changes and two faults: a
  good file, a bad one, and the repair. Two feeds with an entry each that the other does
  not have, one of them with a date that passes (`MaxFeedTime`), and one below the
  threshold; two changes of feed, switches by operators or crashes (`MaxEvents`). For the detectors, two addresses of one subnet
  that is over the floors of three of them; thresholds of 1 to 3 in place of the
  settings' defaults; one edit by an operator. One pass at a time: `AutoRule` has the
  race of two.

The theorems below remove the bounds for what they state. `MaxVersion` and
`MaxCommits` stay constants there, of any size.

### Fairness

- `RuleCacheLive`: weak fairness of each started load. A thread keeps running;
  no writer, request or expiry is required to happen, not even the lock's.
- `AutoRuleSingle`: the clock advances and `expire_rules` runs on its
  schedule. Nobody has to review. `PendingResolved` assumes that detectors and
  operators stop pushing the expiry back.
- `HitCounters`: the scheduled flush is started again and again, and its workers
  run. Strong fairness of `ListKeys` and `Take` says that a Redis error does not
  recur for ever on one key and that probes do not keep every flush out.
- `Jobs`: Celery Beat starts each job again and again, and a started one goes on:
  weak fairness of a run of the blocklist, of a sync and of a pass. Crashes and
  operators' changes are finitely many (`MaxFaults`, `MaxEdits`, `MaxEvents`). `expire_rules`
  need not run: `active()` looks at the date itself. `PromotionReached` further assumes that the subnet stays over the floors and all
  detectors enforce. Traffic itself is never required.

## What is proved

TLAPS checks these for every value of the constants allowed by the named
`ASSUME` of each module.

| Theorem | Under | Statement |
|---|---|---|
| `RuleCacheProofs!TypeCorrect` | | `TypeOK` |
| `CacheNeverStale` | Redis keeps its data | `CacheFresh` |
| `ProcessCacheNeverStale` | and one thread per process | `ProcessCacheFresh` |
| `RuleCacheImplementsRuleService` | the same | `RuleCache` implements `RuleService` |
| `LoadsAreBounded` | any number of threads, any fault | `LoadBounded` |
| `EveryChangeSeen` | and only announced writes, no lost increment | `NoChangeLeftUnseen` |
| `AnalysisProofs!TypeCorrect` | | `TypeOK` |
| `QuarantineAlwaysHolds` | all detectors quarantined, any number of runners | `QuarantineHolds` |
| `DecisionsAlwaysStand` | one runner | `DecisionsStand` |
| `OverlapsOverwriteOnce` | any number of runners | `OverwrittenOnce` |
| `LogReadThrough` | any runs, lines and length of the log | `NoLinePassedOver` |
| `HitCountersProofs!TypeCorrect` | | `TypeOK` |
| `HitsAlwaysAccounted`, `NothingCountedTwice`, `ProbesSpareEarlierHits` | no other flush overlaps a probe; hits, faults and expiry may | `HitsAccounted`, `NeverCountedTwice`, `ProbeSparesEarlierHits` |
| `HitCountersImplementHitTally` | the same | `HitCounters` implements `HitTally` |
| `AlarmsAreReal` | the same | `NoFalseAlarm` |
| `TrafficProofs!TypeCorrect` | | `TypeOK` |
| `ChallengesAlwaysBounded`, `SolversNotEscalated`, `SpentTokensNeverPass`, `CachedTokensHaveRows` | | the four invariants of `Traffic` |
| `FormProofs!FormsTypeCorrect` | any forms, clients, threads and faults | `TypeOK` |
| `ReplayRefusalJustified`, `AlertExactlyOnce` | the same | `NoFalseReplay`, `AlertedOnce` |
| `SpentTokensRefused` | `render_token` does not raise | `SpentTokenRefused` |
| `FormVerdictProofs!VerdictsExplained` | the block threshold is not 0 | `VerdictExplained` |
| `RequestProofs!BlockRenewedOnly`, `RdnsAnswerRecent` | any times to live, rules and threads | `StaleBlockChained`, `RdnsHorizon` |
| `GateKept`, `TrustKept`, `AddressKept` | any settings, headers and proxies; no client has a trusted proxy's address | `GateHolds`, `TrustEarned`, `AddressTrue` |
| `LimiterCountsExactly` | any limits, threads and ticks of a second; limits of one key agree | `LimiterExact` |
| `JobProofs!BrokenFileRolledBack` | any runs, rules and rejected keys | `NoBrokenFileLeft` |
| `BlockedInTwoStages` | any traffic, thresholds and runners | `SubnetStaged` |
| `AllowRulesApproved` | any feeds and syncs | `AllowApproved` |
| `ProbeNeverMisled` | any traffic and rules, thresholds for which there are fixtures | `ProbeTruthful` |
| `ProbeAlwaysRight` | as `ProbeNeverMisled` | `ProbeRight`, of that composition |

The conditions are not conveniences: the violating runs, the list above and the
hazards show that each conclusion fails without its condition. A scheduled flush takes
the probe's own hit, and the probe reports a dead path. A defence that raises counts as
a pass, so a `render_token` that raised would let a spent token through. A block
threshold of 0 blocks what nobody complained of, and the signal then has no reason to
carry. `DetectorsConstants` states what `detector_probe.py:55-92` relies on: clients
have no documentation addresses, and no allow rule matches the scraper fixtures; it
also asks for as many spray addresses as the setting needs, of which the fixture's /24
has 236 from .20 on, and for thresholds that are not negative.

### The arguments

- **Rule cache.** `CacheFresh` is not inductive: a load in flight may be about to
  store something stale. `Fresh` adds that versions are announced in order
  (`History`), that nothing is tagged with a version that does not exist yet
  (`Tagged`), that nothing cached is ahead of the tables (`Committed`), and that
  a load which has read a table has read at least what its version announced
  (`HasRead`) – because it read the version *before* the tables. `ProcessFresh`
  adds what a thread may assume of its process between the two assignments;
  another thread of the process would break it. `Pending` says that a table that
  differs from what was announced has a writer under way. The refinement maps
  each commit, increment, first and last step of a load to the step of
  `RuleService` of that name, and all others to stuttering. `LoadBounded` is the half of
  termination that needs no fairness: `Remaining` counts the steps a load has left, the
  retries of the lock among them, and a load that does not wait (`Moves`) loses one.
- **Auto rules.** `Sanctioned`: an active row is approved. `Alone`: while the
  single runner is between a read that found nothing and its INSERT, there is no
  AUTO row, so the defaults it carries are never applied to a reviewed one. With several
  runners `Alone` fails, and `OverwrittenOnce` needs only types: a run passes the locking
  read without a write only if there is no AUTO row (`NoNewRun`), and a write with defaults
  that came from no row is its last step (`RunnerKeeps`).
- **Hit counters.** `Ledger` says where each hit is at every step: in the
  database, in Redis, in a worker's hands, in a probe's transaction or snapshot,
  or lost, with `Somewhere` (at least one) and `Once` (no two that would be added
  up). `Phases` ties these to the program counter. A hit that traffic makes while a probe
  runs may be in neither the counter nor the snapshot that replaces it: it is lost without
  a log line, but not counted twice. For `ProbeSparesEarlierHits`, `Covered` says that
  until a counter is put back, what it held when the probe began is in the snapshot: all
  of the counter, the hand and the transaction that is not (`Spared`) was made since. The
  refinement of `HitTally` needs the latter: what `Persist` adds was not
  stored before and is not in `lost`.
- **Traffic.** `Rows`: a token that is in Redis, or was when its verification
  began, has a row that is too young to prune. `Cleared`: the solved flag that
  stood when a request came still stands. `Counted`: the counter *plus the
  requests that are already due to be challenged* is at most threshold − 1 +
  threads; the counter alone is not inductive, since several threads may have
  read it below the threshold and not yet incremented it.
- **Forms.** `TokenInv`: a token that has not expired has its marker, unless a pass
  spent it or it was never set; this needs the marker to live as long as the token.
  `ClockInv`: the age a thread has read is that of a token that was rendered; it may be
  older by the time the marker is asked for, hence `Expired` in `NoFalseReplay`.
  `ThreadInv`: a thread has found nothing about its token before it looks, and a
  finding stays true, since `consumed` only grows. `CounterInv`: the alert goes by
  the result of the thread's own increment, and increments pass through every number, so
  one thread alone is ever due to send it.
- **Access log.** The saved offset alone is not inductive: a run holds a position and
  a batch that it has not stored yet. `RunInv` says that behind a run's position
  everything is recorded *or in its batch* until the batch is stored, and `OffsetInv`
  the same of the saved offset, which is a run's own position. The position is taken
  after the read, so lines that were appended since lie beyond it. A line counts as
  behind once its first half is, which is why `cut` is needed.

- **Probe of the flush path.** `PathsInv` follows the probe's own hit: in its counter
  with the key still to be taken, in hand, or written, and in exactly one of these
  unless the probe has met an error. Other counters may change meanwhile.
- **Spent tokens.** `SpentInv`: a spent token has no marker and never gets one again,
  since a nonce is rendered once; and a check that came after the spending and could
  ask Redis has refused (`Caught`). A parked submission carries no token.
- **Verdicts.** `Voiced`: whatever a defence returns, a complaint has a score above 0
  and its own name as reason. Outcomes and names are then in step whichever part of
  the chain ran, and a verdict of blocked has a complaint to name.
- **Evaluation.** `Chained` and `Confirmed` bound what an entry has left *plus the age
  of what it goes back to*; `Answered` bounds the age of an answer that a thread holds
  and has not stored by the time it has been held up.
- **Gates.** `GatesInv`: the age of the password cookie is that of the password, and a
  trusted-user cookie is no younger than the login at the address it is bound to. The
  resolved address is the last hop that is no proxy's, which the first proxy appended.
- **Rate limiter.** `StampsInv`: the sorted set holds only instants that were checked.
  `LossesInv`: what it no longer holds is older than any window that a prompt request
  may still ask for, by trimming or by expiry. `PromiseInv`: behind every announced
  Retry-After there are more instants than the maximum that stay in the window until
  then.
- **Blocklist.** `FilesAt` says what a run that is alone finds at each step: after the
  rename `.last-good` is what was there before, which was sound. One that overlaps or
  is cut short is exempted by `disturbed`.
- **Detectors.** `Staged`: a challenge rule that carries `detect_unsolved_challenges`
  has been crossed for once, and a block rule with any detector twice. Other detectors
  only write challenges for subnets (`OthersOnlyChallenge`), and operators add none.
- **Threat feed.** A sync saves what it read earlier, so `CopyInv` says of the copy
  what `AllowApproved` says of the row; approval is never taken back (`RowsKept`), so
  it stays true while other syncs and operators act.
- **Side by side.** A step of `MCJobs` is one of the job in `focus` and leaves the others'
  variables alone, which is a stuttering step of theirs; by this lemma (`JobsKeepApart`)
  every theorem about one job holds of the instance that TLC runs.
- **Detector probe.** `LogsInv` is small: the log is finite, and of clients. The work is
  in the lemmas per detector, which count the fixture in whatever else is in the log:
  the thresholds are met by different rows, user agents or addresses (`AtLeast`), and
  where a share or a maximum is measured, nobody else has the address (`OwnRows`). Only
  the top-N cut of the spray detector depends on other traffic (`SprayLookedAt`).

### Only model-checked

The liveness properties, since fairness is out of the prover's reach: `LoadTerminates`,
`PendingResolved`, `HitsReachDatabase`, `EnforcedInTheEnd`, `FeedFollowed` and
`PromotionReached`. That `Total` is a sum (`TotalAddsUp`), for eight scores of up to 2.
Every safety property that a run checks has a theorem.

## What is not modelled, and why

- Statistics, pages, serialisers, templates, submission logs: nothing depends on
  them.
- What a path, a header, a fingerprint or a user agent scores, and pattern
  validation: pure functions of strings, which enter as inputs.
- Hashes, signatures, JSON, the text of files: they enter as identities or as what
  they say.
- Confidences, names and evidence of auto rules, which no code reads back, and the
  window override of the detector command, which runs the same queries over another
  window.
- The mode of the detector probe that exercises writes, and the outcome report,
  which only reads.
- `update_ip_reputation` (one aggregate per address), the telemetry report and the
  install id of the threat feed, which two first syncs may create twice
  (`threat_feed.py:513`), and HTTP.
- GeoIP lookups, the Redis client, configuration and test factories: I/O and data.
- The length of times to live, in `Traffic`; `Evaluation` has them.
- The components of `Requests` and `Jobs` are checked side by side, not composed:
  what one leaves for another (a log row, a rule, a verdict) is an input there, taken
  from a small set.
- `RedisLoss` is modelled for termination only. After it the version counts again
  through numbers that running processes have cached rules under, and the code
  has nothing that tells the two epochs apart.
