----------------------------- MODULE Blocklist -----------------------------
(***************************************************************************)
(* services/blocklist_generator.py: runs of the generate_blocklist task,   *)
(* or of the command, write the rules that nginx can enforce to a file     *)
(* that nginx includes, test it, roll it back, and have nginx reload it.   *)
(*                                                                         *)
(* A file is what it renders, and nginx (external) rejects one that holds  *)
(* a key it cannot parse, or that is missing.                              *)
(***************************************************************************)
EXTENDS Integers, FiniteSets

CONSTANTS
    Runs,         \* runs that may go on at the same time
    Rules,        \* records of type, action and key
    Unparsable,   \* the keys that nginx rejects
    Validate,     \* DJANGO_WAF_NGINX_VALIDATE
    NginxFound,   \* the test command is on the PATH
    MaxChanges,   \* bound: how often the rules change
    MaxFaults     \* bound: overlapping starts, crashes, timeouts and failed reloads

VARIABLES
    active,       \* the rules that are active and not expired
    dest,         \* the file that nginx includes
    lastGood,     \* dest.last-good
    loaded,       \* what nginx runs with
    step, tmp, had,  \* of each runner: its step, its candidate and had_previous
    changes, faults, \* how many of each were
    disturbed     \* history: a run was cut short, or overlapped by another, since the last
                  \* candidate was accepted by a run that was not

blocklistVars == <<active, dest, lastGood, loaded, step, tmp, had, changes, faults, disturbed>>
files == <<dest, lastGood>>

None == {<<>>}   \* no file
Steps == {"idle", "write", "keep", "swap", "test", "restore", "drop", "reload"}

----------------------------------------------------------------------------
(* generate_nginx_blocklist *)

for_nginx == {r \in active : r.type \in {"ip", "cidr", "ua"} /\ r.action \in {"block", "throttle"}}

\* _render_ua_map and _render_ip_geo: the four variables, with each key once in each.
Render(rules) == {<<IF r.type = "ua" THEN "ua" ELSE "ip", r.action, r.key>> : r \in rules}

Valid(file) == file # None /\ \A entry \in file : entry[3] \notin Unparsable

BlocklistTypeOK ==
    /\ active \subseteq Rules
    /\ {dest, lastGood, loaded} \subseteq {None} \cup SUBSET Render(Rules)
    /\ step \in [Runs -> Steps] /\ had \in [Runs -> BOOLEAN] /\ disturbed \in BOOLEAN
    /\ \A r \in Runs : tmp[r] = None <=> step[r] \in {"idle", "test", "restore", "drop", "reload"}
    /\ changes \in 0..MaxChanges /\ faults \in 0..MaxFaults

BlocklistInit ==
    /\ active = {} /\ dest = None /\ lastGood = None /\ loaded = None
    /\ step = [r \in Runs |-> "idle"] /\ tmp = [r \in Runs |-> None]
    /\ had = [r \in Runs |-> FALSE]
    /\ changes = 0 /\ faults = 0 /\ disturbed = FALSE

At(r, s) == step[r] = s
Go(r, s) == step' = [step EXCEPT ![r] = s]
Alone(r) == \A q \in Runs \ {r} : step[q] = "idle"

\* The rules are read and the candidate is written next to dest.
Write(r) ==
    /\ At(r, "idle") /\ Go(r, IF Validate THEN "keep" ELSE "swap")
    /\ tmp' = [tmp EXCEPT ![r] = Render(for_nginx)]
    /\ \/ Alone(r) /\ UNCHANGED <<faults, disturbed>>
       \/ ~Alone(r) /\ faults < MaxFaults /\ faults' = faults + 1 /\ disturbed' = TRUE
    /\ UNCHANGED <<active, files, loaded, had, changes>>

----------------------------------------------------------------------------
(* _activate_candidate *)

\* isfile(dest), and the copy to .last-good.
Keep(r) ==
    /\ At(r, "keep") /\ Go(r, "swap")
    /\ had' = [had EXCEPT ![r] = dest # None]
    /\ lastGood' = IF dest # None THEN dest ELSE lastGood
    /\ UNCHANGED <<active, dest, loaded, tmp, changes, faults, disturbed>>

\* Mutant: a candidate that is what dest already holds is not worth a reload.
SkipIfSame(r) ==
    /\ At(r, "swap") /\ Go(r, IF dest = tmp[r] THEN "idle" ELSE IF Validate THEN "test" ELSE "reload")
    /\ dest' = tmp[r]
    /\ tmp' = [tmp EXCEPT ![r] = None]
    /\ UNCHANGED <<active, lastGood, loaded, had, changes, faults, disturbed>>

\* rename(tmp, dest)
Swap(r) ==
    /\ At(r, "swap") /\ Go(r, IF Validate THEN "test" ELSE "reload")
    /\ dest' = tmp[r]
    /\ tmp' = [tmp EXCEPT ![r] = None]
    /\ UNCHANGED <<active, lastGood, loaded, had, changes, faults, disturbed>>

\* Mutant: a test that times out counts as one that could not be run.
TimeoutSkips ==
    IF ~NginxFound THEN {"drop"} ELSE IF Valid(dest) THEN {"drop"} ELSE {"restore", "drop"}

\* The outcomes of the test of what is now at dest: without the command there is none,
\* and one that times out, or cannot be run, fails.
_validate_nginx_config ==
    IF ~NginxFound THEN {"drop"}
    ELSE IF ~Valid(dest) THEN {"restore"}
    ELSE IF faults < MaxFaults THEN {"drop", "restore"} ELSE {"drop"}

Test(r) ==
    /\ At(r, "test")
    /\ \E outcome \in _validate_nginx_config :
          /\ Go(r, outcome)
          /\ faults' = IF outcome = "restore" /\ Valid(dest) THEN faults + 1 ELSE faults
    /\ UNCHANGED <<active, files, loaded, tmp, had, changes, disturbed>>

\* The candidate is rejected.  If another run took .last-good away, rename raises, and
\* the task ends.
Restore(r) ==
    /\ At(r, "restore")
    /\ IF ~had[r] THEN dest' = None /\ UNCHANGED lastGood /\ Go(r, "reload")
       ELSE IF lastGood # None THEN dest' = lastGood /\ lastGood' = None /\ Go(r, "reload")
       ELSE UNCHANGED files /\ Go(r, "idle")
    /\ had' = [had EXCEPT ![r] = FALSE]
    /\ UNCHANGED <<active, loaded, tmp, changes, faults, disturbed>>

\* It is accepted.
Drop(r) ==
    /\ At(r, "drop") /\ Go(r, "reload")
    /\ lastGood' = IF had[r] THEN None ELSE lastGood
    /\ disturbed' = (disturbed /\ ~(Alone(r) /\ Valid(dest)))
    /\ UNCHANGED <<active, dest, loaded, tmp, had, changes, faults>>

\* reload_nginx, after a rollback too.  nginx keeps what it has if it is told to load
\* a file that it rejects.
Reload(r) ==
    /\ At(r, "reload") /\ Go(r, "idle")
    /\ \/ loaded' = (IF Valid(dest) THEN dest ELSE loaded) /\ UNCHANGED faults
       \/ faults < MaxFaults /\ faults' = faults + 1 /\ UNCHANGED loaded
    /\ had' = [had EXCEPT ![r] = FALSE]
    /\ UNCHANGED <<active, files, tmp, changes, disturbed>>

----------------------------------------------------------------------------
\* The worker dies, or a file operation raises: the run ends where it is.
CrashRun(r) ==
    /\ ~At(r, "idle") /\ faults < MaxFaults
    /\ Go(r, "idle") /\ faults' = faults + 1 /\ disturbed' = TRUE
    /\ tmp' = [tmp EXCEPT ![r] = None]
    /\ had' = [had EXCEPT ![r] = FALSE]
    /\ UNCHANGED <<active, files, loaded, changes>>

Change ==
    /\ changes < MaxChanges
    /\ active' \in SUBSET Rules /\ changes' = changes + 1
    /\ UNCHANGED <<files, loaded, step, tmp, had, faults, disturbed>>

Run(r) == Write(r) \/ Keep(r) \/ Swap(r) \/ Test(r) \/ Restore(r) \/ Drop(r) \/ Reload(r)

BlocklistNext == (\E r \in Runs : Run(r) \/ CrashRun(r)) \/ Change

BlocklistSpec == BlocklistInit /\ [][BlocklistNext]_blocklistVars

\* Celery Beat starts the task every five minutes, and a worker goes on with it.
BlocklistFairness == \A r \in Runs : WF_blocklistVars(Run(r))

BlocklistFairSpec == BlocklistSpec /\ BlocklistFairness

----------------------------------------------------------------------------
(* Properties *)

\* A candidate that nginx rejects does not stay at dest when no run is under way,
\* unless a run was cut short, or overlapped another with which it shares .last-good.
NoBrokenFileLeft ==
    Validate /\ NginxFound /\ (\A r \in Runs : step[r] = "idle") /\ dest # None => Valid(dest) \/ disturbed

\* Once the rules stay as they are, nginx comes to enforce exactly those that it can,
\* if it can parse them, whatever crashes and overlaps came before.
NginxCatchesUp == <>[](Valid(Render(for_nginx)) => loaded = Render(for_nginx))
=============================================================================
