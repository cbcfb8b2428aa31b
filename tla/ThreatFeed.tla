----------------------------- MODULE ThreatFeed -----------------------------
(***************************************************************************)
(* services/threat_feed.py: sync_feed, run by the daily task and by the    *)
(* django_waf_sync_feed command, makes the block and allow rules of source *)
(* "feed" follow the central feed, while operators switch them on and off  *)
(* and the expire_rules task those off that are past their date.           *)
(*                                                                         *)
(* A row is read and saved in one transaction, which at READ COMMITTED     *)
(* keeps no other session out.  A fetch that fails changes nothing.        *)
(***************************************************************************)
EXTENDS Integers, Sequences, FiniteSets

CONSTANTS
    Syncs,        \* syncs that may go on at the same time
    Feeds,        \* what the feed may serve: sequences of entries
    Threshold,    \* DJANGO_WAF_FEED_MIN_CONFIDENCE, in percent
    Quarantine,   \* DJANGO_WAF_FEED_QUARANTINE_ALLOW_RULES
    FeedLife,     \* how long a rule lasts that the feed gives no date, 30 days
    MaxFeedTime,  \* bound: how long the clock goes on
    MaxEvents     \* bound: changes of the feed, switches by operators, and syncs that are cut short

VARIABLES
    feedTime,     \* the clock
    feed,         \* what the feed serves
    feedRules,    \* the rows of source feed; approved is history: an operator switched it on
    syncing, todo, seen, copy, doomed,  \* of each sync
    feedEvents                          \* how many of those that MaxEvents bounds there were

feedVars == <<feedTime, feed, feedRules, syncing, todo, seen, copy, doomed, feedEvents>>

NotRead == [row |-> 0, active |-> FALSE, expires |-> 0]

\* The entries of the feeds, which are lists.
Entries == UNION {{f[i] : i \in DOMAIN f} : f \in Feeds}

\* An entry's date is a time, and 0 if it has none.
ASSUME FeedConstants ==
    /\ Feeds \subseteq Seq(Entries) /\ \A e \in Entries : e.expires \in Nat
    /\ FeedLife \in Nat \ {0}

EntryKey(e) == <<e.kind, e.key>>

FeedTypeOK ==
    /\ feedTime \in 0..MaxFeedTime /\ feed \in Feeds
    /\ \A i \in DOMAIN feedRules :
          /\ feedRules[i].expires \in Nat /\ feedRules[i].kind \in {"block", "allow"}
          /\ {feedRules[i].active, feedRules[i].approved} \subseteq BOOLEAN
    /\ syncing \in [Syncs -> {"idle", "entries", "save", "blocks", "allows"}]
    /\ \A s \in Syncs :
          /\ copy[s].row \in 0..Len(feedRules) /\ copy[s] # NotRead => syncing[s] = "save"
          /\ doomed[s] \subseteq DOMAIN feedRules
          /\ syncing[s] = "save" => todo[s] # <<>> /\ EntryKey(Head(todo[s])) \in seen[s]
    /\ feedEvents \in 0..MaxEvents

FeedInit ==
    /\ feedTime = 0 /\ feed \in Feeds /\ feedRules = <<>>
    /\ syncing = [s \in Syncs |-> "idle"] /\ todo = [s \in Syncs |-> <<>>]
    /\ seen = [s \in Syncs |-> {}] /\ copy = [s \in Syncs |-> NotRead]
    /\ doomed = [s \in Syncs |-> {}]
    /\ feedEvents = 0

----------------------------------------------------------------------------
(* The entries *)

Fetch(s) ==
    /\ syncing[s] = "idle" /\ syncing' = [syncing EXCEPT ![s] = "entries"]
    /\ todo' = [todo EXCEPT ![s] = feed]
    /\ UNCHANGED <<feedTime, feed, feedRules, seen, copy, doomed, feedEvents>>

\* An entry that cannot be parsed or is not known is skipped, and an allow entry too
\* that would not have its host name verified.
Importable(e) ==
    /\ e.confidence \in Threshold..100
    /\ e.known /\ e.safe
    /\ e.kind = "allow" => e.rdns

\* Mutant: the key of an entry that is skipped is seen all the same.
SeenFirst(s, e) == seen[s] \cup {EntryKey(e)}

Seen(s, e) == IF Importable(e) THEN seen[s] \cup {EntryKey(e)} ELSE seen[s]

ExpiresAt(e) == IF e.expires = 0 THEN feedTime + FeedLife ELSE e.expires

\* One entry is validated, the clock is read, and its row is looked up: the first in the order of the table,
\* which operators can change.
Read(s) ==
    /\ syncing[s] = "entries" /\ todo[s] # <<>>
    /\ LET e == Head(todo[s])
           found == {i \in DOMAIN feedRules : EntryKey(feedRules[i]) = EntryKey(e)}
       IN  /\ seen' = [seen EXCEPT ![s] = Seen(s, e)]
           /\ \/ ~Importable(e) /\ todo' = [todo EXCEPT ![s] = Tail(@)] /\ UNCHANGED <<syncing, copy>>
              \/ /\ Importable(e) /\ syncing' = [syncing EXCEPT ![s] = "save"] /\ UNCHANGED todo
                 /\ \E i \in IF found = {} THEN {0} ELSE found :
                       copy' = [copy EXCEPT ![s] = [row |-> i, active |-> i # 0 /\ feedRules[i].active,
                                                    expires |-> ExpiresAt(e)]]
    /\ UNCHANGED <<feedTime, feed, feedRules, doomed, feedEvents>>

\* Mutant: a new allow rule is created like a block rule.
CreatedActive(e) == TRUE

ActiveOnCreate(e) == e.kind = "block" \/ ~Quarantine

\* is_active as it is saved: every field is written, the ones left alone as they were read.
ActiveOnSave(s, e) == IF e.kind = "block" \/ ~Quarantine THEN TRUE ELSE copy[s].active

Save(s) ==
    /\ syncing[s] = "save" /\ syncing' = [syncing EXCEPT ![s] = "entries"]
    /\ LET e == Head(todo[s]) i == copy[s].row
       IN  feedRules' = IF i = 0
                    THEN Append(feedRules, [kind |-> e.kind, key |-> e.key, active |-> ActiveOnCreate(e),
                                        expires |-> copy[s].expires, approved |-> FALSE])
                    ELSE [feedRules EXCEPT ![i].active = ActiveOnSave(s, e), ![i].expires = copy[s].expires]
    /\ todo' = [todo EXCEPT ![s] = Tail(@)]
    /\ copy' = [copy EXCEPT ![s] = NotRead]
    /\ UNCHANGED <<feedTime, feed, seen, doomed, feedEvents>>

----------------------------------------------------------------------------
(* The rules that the feed no longer has *)

Absent(s, kind) ==
    {i \in DOMAIN feedRules : feedRules[i].kind = kind /\ feedRules[i].active /\ EntryKey(feedRules[i]) \notin seen[s]}

\* The active rules of one kind are read, the block rules first.
Query(s) ==
    /\ \/ syncing[s] = "entries" /\ todo[s] = <<>>
          /\ syncing' = [syncing EXCEPT ![s] = "blocks"] /\ doomed' = [doomed EXCEPT ![s] = Absent(s, "block")]
          /\ UNCHANGED seen
       \/ syncing[s] = "blocks" /\ doomed[s] = {}
          /\ syncing' = [syncing EXCEPT ![s] = "allows"] /\ doomed' = [doomed EXCEPT ![s] = Absent(s, "allow")]
          /\ UNCHANGED seen
       \/ syncing[s] = "allows" /\ doomed[s] = {}
          /\ syncing' = [syncing EXCEPT ![s] = "idle"] /\ seen' = [seen EXCEPT ![s] = {}]
          /\ UNCHANGED doomed
    /\ UNCHANGED <<feedTime, feed, feedRules, todo, copy, feedEvents>>

\* One of them is switched off.
ExpireRule(s) ==
    /\ \E i \in doomed[s] :
          /\ feedRules' = [feedRules EXCEPT ![i].active = FALSE]
          /\ doomed' = [doomed EXCEPT ![s] = @ \ {i}]
    /\ UNCHANGED <<feedTime, feed, syncing, todo, seen, copy, feedEvents>>

CrashSync(s) ==
    /\ syncing[s] # "idle" /\ feedEvents < MaxEvents /\ feedEvents' = feedEvents + 1
    /\ syncing' = [syncing EXCEPT ![s] = "idle"] /\ todo' = [todo EXCEPT ![s] = <<>>]
    /\ seen' = [seen EXCEPT ![s] = {}] /\ copy' = [copy EXCEPT ![s] = NotRead]
    /\ doomed' = [doomed EXCEPT ![s] = {}]
    /\ UNCHANGED <<feedTime, feed, feedRules>>

----------------------------------------------------------------------------
(* The world *)

Publish ==
    /\ feedEvents < MaxEvents /\ feedEvents' = feedEvents + 1
    /\ feed' \in Feeds \ {feed}
    /\ UNCHANGED <<feedTime, feedRules, syncing, todo, seen, copy, doomed>>

\* An operator switches a rule on or off in the admin.
SwitchRule ==
    /\ feedEvents < MaxEvents /\ feedEvents' = feedEvents + 1
    /\ \E i \in DOMAIN feedRules :
          feedRules' = [feedRules EXCEPT ![i].active = ~@, ![i].approved = @ \/ ~feedRules[i].active]
    /\ UNCHANGED <<feedTime, feed, syncing, todo, seen, copy, doomed>>

Past(row) == row.expires <= feedTime

\* One of the two statements of the expire_rules task, each on a table of its own.
expire_rules(kind) ==
    /\ feedRules' = [i \in DOMAIN feedRules |->
                        [feedRules[i] EXCEPT !.active = @ /\ ~(feedRules[i].kind = kind /\ Past(feedRules[i]))]]
    /\ UNCHANGED <<feedTime, feed, syncing, todo, seen, copy, doomed, feedEvents>>

TimePasses ==
    /\ feedTime < MaxFeedTime /\ feedTime' = feedTime + 1
    /\ UNCHANGED <<feed, feedRules, syncing, todo, seen, copy, doomed, feedEvents>>

Sync(s) == Fetch(s) \/ Read(s) \/ Save(s) \/ Query(s) \/ ExpireRule(s)

FeedNext ==
    \/ \E s \in Syncs : Sync(s) \/ CrashSync(s)
    \/ \E kind \in {"block", "allow"} : expire_rules(kind)
    \/ Publish \/ SwitchRule \/ TimePasses

FeedSpec == FeedInit /\ [][FeedNext]_feedVars

\* The task is started every day, and a sync that runs goes on.
FeedFairness == \A s \in Syncs : WF_feedVars(Sync(s))

FeedFairSpec == FeedSpec /\ FeedFairness

----------------------------------------------------------------------------
(* Properties *)

\* With the quarantine on, a feed's allow rule is active only if an operator once switched
\* it on, whatever syncs and operators do at the same time.
AllowApproved ==
    Quarantine => \A i \in DOMAIN feedRules :
        feedRules[i].kind = "allow" /\ feedRules[i].active => feedRules[i].approved

Named(list, kind, key) == {i \in DOMAIN list : EntryKey(list[i]) = <<kind, key>>}

\* The entries and the rows of a key, and the rows that active() has the rule engine load.
Listed(kind, key) == {i \in Named(feed, kind, key) : Importable(feed[i])}
InForce(kind, key) == {i \in Named(feedRules, kind, key) : feedRules[i].active /\ ~Past(feedRules[i])}

Patterns == UNION {{f[i].key : i \in DOMAIN f} : f \in Feeds}

\* Once the feed, the operators and the clock are at rest, the rules in force come to be
\* those of the feed, whatever syncs overlapped or were cut short before: a block rule
\* that the feed lists and that is not past its date is in force, however often it was
\* switched off; no rule is that the feed does not list; and none that it lists past its
\* date, unless overlapping syncs created a second row, which keeps the date it had.
FeedFollowed ==
    <>[](\A k \in Patterns, kind \in {"block", "allow"} :
            LET fresh == {i \in Listed(kind, k) : feed[i].expires = 0 \/ ~Past(feed[i])}
            IN  /\ kind = "block" /\ fresh # {} /\ fresh = Listed(kind, k) => InForce(kind, k) # {}
                /\ InForce(kind, k) # {} => Listed(kind, k) # {}
                /\ InForce(kind, k) # {} /\ Cardinality(Named(feedRules, kind, k)) = 1 => fresh # {})
=============================================================================
