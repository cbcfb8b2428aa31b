----------------------------- MODULE JobProofs ------------------------------
(***************************************************************************)
(* Proofs about the scheduled jobs: what is left at the nginx include      *)
(* file, which of a feed's rules are active, the stages in which a subnet  *)
(* is blocked, and what the probe of the detectors reports.                *)
(***************************************************************************)
EXTENDS MCJobs, FiniteSetTheorems, TLAPS

(* The nginx include file *)

Sound(file) == file = None \/ Valid(file)

\* What a run that no other overlaps, and that is not cut short, finds at its steps.
FilesAt(r) ==
    /\ step[r] \in {"idle", "keep", "swap", "reload"} => Sound(dest)
    /\ step[r] = "swap" => had[r] = (dest # None) /\ (had[r] => lastGood = dest)
    /\ step[r] \in {"test", "restore"} => (had[r] => Valid(lastGood))
    /\ step[r] = "drop" => Valid(dest)

BlocklistInv ==
    /\ step \in [Runs -> Steps] /\ had \in [Runs -> BOOLEAN]
    /\ disturbed \in BOOLEAN
    /\ disturbed \/ ((\A r \in Runs : step[r] # "idle" => Alone(r))
                      /\ ((\A r \in Runs : step[r] = "idle") => Sound(dest))
                      /\ \A r \in Runs : step[r] # "idle" => FilesAt(r))

\* Nothing is under way, and there is no file.
LEMMA BlocklistStart == BlocklistInit => BlocklistInv
BY Zenon DEF BlocklistInit, BlocklistInv, Sound, Steps

\* A step of a run that nothing disturbs: what the other runs, being idle, need of it.
LEMMA AloneStep ==
    ASSUME Validate, NginxFound, BlocklistInv, NEW r \in Runs, NEW s \in Steps, Go(r, s),
           had' \in [Runs -> BOOLEAN], disturbed' \in BOOLEAN,
           disturbed' \/ (Alone(r) /\ FilesAt(r)' /\ (s = "idle" => Sound(dest')))
    PROVE  BlocklistInv'
<1>1. step' \in [Runs -> Steps] /\ step'[r] = s /\ \A q \in Runs \ {r} : step'[q] = step[q]
  BY Zenon DEF BlocklistInv, Go
<1>2. CASE disturbed'
  BY <1>1, <1>2, Zenon DEF BlocklistInv
<1>3. CASE Alone(r) /\ FilesAt(r)' /\ (s = "idle" => Sound(dest'))
  <2>1. \A q \in Runs \ {r} : step'[q] = "idle"
    BY <1>1, <1>3, Zenon DEF Alone
  <2>2. \A q \in Runs : step'[q] # "idle" => q = r
    BY <2>1, Zenon
  <2>3. \A q \in Runs : step'[q] # "idle" => Alone(q)' /\ FilesAt(q)'
    BY <1>3, <2>1, <2>2, Zenon DEF Alone
  <2>4. (\A q \in Runs : step'[q] = "idle") => Sound(dest)'
    BY <1>1, <1>3, Zenon DEF Sound, Valid
  <2> QED
    BY <1>1, <2>3, <2>4, Zenon DEF BlocklistInv
<1> QED
  BY <1>2, <1>3, Zenon

\* A run that nothing disturbed is alone and finds the files as they should be.
LEMMA Undisturbed ==
    ASSUME BlocklistInv, ~disturbed, NEW r \in Runs, step[r] # "idle"
    PROVE  Alone(r) /\ FilesAt(r)
BY Zenon DEF BlocklistInv

\* A run that starts by itself finds a sound file.
LEMMA WriteStep ==
    ASSUME Validate, NginxFound, BlocklistInv, NEW r \in Runs, Write(r) PROVE BlocklistInv'
<1>1. /\ Go(r, "keep") /\ had' = had /\ dest' = dest /\ lastGood' = lastGood /\ step[r] = "idle"
      /\ (Alone(r) \/ disturbed') /\ (disturbed => disturbed') /\ disturbed' \in BOOLEAN
  <2>1. Go(r, "keep") /\ step[r] = "idle"
    BY Zenon DEF Write, At
  <2>2. had' = had /\ dest' = dest /\ lastGood' = lastGood
    BY Zenon DEF Write, files
  <2>3. (Alone(r) \/ disturbed') /\ (disturbed => disturbed') /\ disturbed' \in BOOLEAN
    <3>1. disturbed \in BOOLEAN
      BY Zenon DEF BlocklistInv
    <3>2. CASE Alone(r) /\ disturbed' = disturbed
      BY <3>1, <3>2, Zenon
    <3>3. CASE disturbed' = TRUE
      BY <3>1, <3>3, Zenon
    <3> QED
      BY <3>2, <3>3, Zenon DEF Write
  <2> QED
    BY <2>1, <2>2, <2>3, Zenon
<1>2. disturbed' \in BOOLEAN /\ had' \in [Runs -> BOOLEAN] /\ "keep" \in Steps /\ "keep" # "idle"
  BY <1>1, Zenon DEF BlocklistInv, Steps
<1>3. step'[r] = "keep"
  BY <1>1, Zenon DEF Go, BlocklistInv
<1>4. CASE ~disturbed'
  <2>1. Alone(r) /\ ~disturbed
    BY <1>1, <1>4, Zenon
  <2>2. \A q \in Runs : step[q] = "idle"
    BY <1>1, <2>1, Zenon DEF Alone
  <2>3. Sound(dest)
    BY <2>1, <2>2, Zenon DEF BlocklistInv
  <2>4. FilesAt(r)'
    BY <1>1, <1>3, <2>3, Zenon DEF FilesAt, Sound, Valid
  <2> QED
    BY <1>1, <1>2, <2>1, <2>4, AloneStep, Zenon
<1> QED
  BY <1>1, <1>2, <1>4, AloneStep, Zenon

\* The file that is kept is the one that was at dest.
LEMMA KeepStep ==
    ASSUME Validate, NginxFound, BlocklistInv, NEW r \in Runs, Keep(r) PROVE BlocklistInv'
<1>1. /\ Go(r, "swap") /\ had' = [had EXCEPT ![r] = dest # None] /\ dest' = dest /\ step[r] = "keep"
      /\ lastGood' = (IF dest # None THEN dest ELSE lastGood) /\ disturbed' = disturbed
  BY Zenon DEF Keep, At
<1>2. /\ disturbed' \in BOOLEAN /\ had' \in [Runs -> BOOLEAN] /\ "swap" \in Steps /\ "swap" # "idle"
      /\ had'[r] = (dest # None)
  BY <1>1, Zenon DEF BlocklistInv, Steps
<1>3. step'[r] = "swap"
  BY <1>1, Zenon DEF Go, BlocklistInv
<1>4. CASE ~disturbed
  <2>1. Alone(r) /\ Sound(dest)
    BY <1>1, <1>4, Undisturbed, Zenon DEF FilesAt
  <2>2. FilesAt(r)'
    BY <1>1, <1>2, <1>3, <2>1, Zenon DEF FilesAt, Sound, Valid
  <2> QED
    BY <1>1, <1>2, <2>1, <2>2, AloneStep, Zenon
<1> QED
  BY <1>1, <1>2, <1>4, AloneStep, Zenon

\* The candidate comes to dest, and what was there is still in .last-good.
LEMMA SwapStep ==
    ASSUME Validate, NginxFound, BlocklistInv, NEW r \in Runs, Swap(r) PROVE BlocklistInv'
<1>1. /\ Go(r, "test") /\ had' = had /\ lastGood' = lastGood /\ step[r] = "swap" /\ disturbed' = disturbed
  BY Zenon DEF Swap, At
<1>2. disturbed' \in BOOLEAN /\ had' \in [Runs -> BOOLEAN] /\ "test" \in Steps /\ "test" # "idle"
  BY <1>1, Zenon DEF BlocklistInv, Steps
<1>3. step'[r] = "test"
  BY <1>1, Zenon DEF Go, BlocklistInv
<1>4. CASE ~disturbed
  <2>1. Alone(r) /\ Sound(dest) /\ had[r] = (dest # None) /\ (had[r] => lastGood = dest)
    BY <1>1, <1>4, Undisturbed, Zenon DEF FilesAt
  <2>2. had[r] => Valid(lastGood)
    BY <2>1, Zenon DEF Sound
  <2>3. FilesAt(r)'
    BY <1>1, <1>3, <2>2, Zenon DEF FilesAt, Valid
  <2> QED
    BY <1>1, <1>2, <2>1, <2>3, AloneStep, Zenon
<1> QED
  BY <1>1, <1>2, <1>4, AloneStep, Zenon

\* Only a file that nginx accepts passes the test.
LEMMA TestStep ==
    ASSUME Validate, NginxFound, BlocklistInv, NEW r \in Runs, Test(r) PROVE BlocklistInv'
<1>1. PICK o \in {"drop", "restore"} : Go(r, o) /\ (o = "drop" => Valid(dest))
  BY Zenon DEF Test, _validate_nginx_config
<1>2. /\ had' = had /\ dest' = dest /\ lastGood' = lastGood /\ step[r] = "test" /\ disturbed' = disturbed
  BY Zenon DEF Test, At, files
<1>3. disturbed' \in BOOLEAN /\ had' \in [Runs -> BOOLEAN] /\ o \in Steps /\ o # "idle"
  BY <1>1, <1>2, Zenon DEF BlocklistInv, Steps
<1>4. step'[r] = o
  BY <1>1, Zenon DEF Go, BlocklistInv
<1>5. CASE ~disturbed
  <2>1. Alone(r) /\ (had[r] => Valid(lastGood))
    BY <1>2, <1>5, Undisturbed, Zenon DEF FilesAt
  <2>2. FilesAt(r)'
    BY <1>1, <1>2, <1>4, <2>1, Zenon DEF FilesAt, Valid
  <2> QED
    BY <1>1, <1>3, <2>1, <2>2, AloneStep, Zenon
<1> QED
  BY <1>1, <1>2, <1>3, <1>5, AloneStep, Zenon

\* A rejected candidate gives way to the file before it, or to none.
LEMMA RestoreStep ==
    ASSUME Validate, NginxFound, BlocklistInv, NEW r \in Runs, Restore(r) PROVE BlocklistInv'
<1>1. /\ had' = [had EXCEPT ![r] = FALSE] /\ step[r] = "restore" /\ disturbed' = disturbed
  BY Zenon DEF Restore, At
<1>2. disturbed' \in BOOLEAN /\ had' \in [Runs -> BOOLEAN] /\ {"reload", "idle"} \subseteq Steps
  BY <1>1, Zenon DEF BlocklistInv, Steps
<1>3. CASE ~disturbed
  <2>1. Alone(r) /\ (had[r] => Valid(lastGood))
    BY <1>1, <1>3, Undisturbed, Zenon DEF FilesAt
  <2>2. Go(r, "reload") /\ (dest' = None \/ (dest' = lastGood /\ Valid(lastGood)))
    BY <2>1, Zenon DEF Restore, Valid
  <2>3. step'[r] = "reload" /\ "reload" # "idle"
    BY <2>2, Zenon DEF Go, BlocklistInv
  <2>4. FilesAt(r)'
    BY <2>2, <2>3, Zenon DEF FilesAt, Sound, Valid
  <2> QED
    BY <1>2, <2>1, <2>2, <2>3, <2>4, AloneStep, Zenon
<1>4. CASE disturbed
  <2>1. PICK s \in {"reload", "idle"} : Go(r, s)
    BY Zenon DEF Restore
  <2> QED
    BY <1>1, <1>2, <1>4, <2>1, AloneStep, Zenon
<1> QED
  BY <1>3, <1>4, Zenon

\* An accepted candidate is sound; a run that is alone and accepts one makes up for
\* whatever was disturbed before.
LEMMA DropStep ==
    ASSUME Validate, NginxFound, BlocklistInv, NEW r \in Runs, Drop(r) PROVE BlocklistInv'
<1>1. /\ Go(r, "reload") /\ had' = had /\ dest' = dest /\ step[r] = "drop"
      /\ disturbed' = (disturbed /\ ~(Alone(r) /\ Valid(dest)))
  BY Zenon DEF Drop, At
<1>2. disturbed' \in BOOLEAN /\ had' \in [Runs -> BOOLEAN] /\ "reload" \in Steps /\ "reload" # "idle"
  BY <1>1, Zenon DEF BlocklistInv, Steps
<1>3. step'[r] = "reload"
  BY <1>1, Zenon DEF Go, BlocklistInv
<1>4. CASE ~disturbed'
  <2>1. Alone(r) /\ Valid(dest)
    BY <1>1, <1>4, Undisturbed, Zenon DEF FilesAt
  <2>2. FilesAt(r)'
    BY <1>1, <1>3, <2>1, Zenon DEF FilesAt, Sound, Valid
  <2> QED
    BY <1>1, <1>2, <2>1, <2>2, AloneStep, Zenon
<1> QED
  BY <1>1, <1>2, <1>4, AloneStep, Zenon

\* The run ends and leaves a sound file.
LEMMA ReloadStep ==
    ASSUME Validate, NginxFound, BlocklistInv, NEW r \in Runs, Reload(r) PROVE BlocklistInv'
<1>1. /\ Go(r, "idle") /\ had' = [had EXCEPT ![r] = FALSE] /\ dest' = dest /\ lastGood' = lastGood
      /\ step[r] = "reload" /\ disturbed' = disturbed
  BY Zenon DEF Reload, At, files
<1>2. disturbed' \in BOOLEAN /\ had' \in [Runs -> BOOLEAN] /\ "idle" \in Steps
  BY <1>1, Zenon DEF BlocklistInv, Steps
<1>3. step'[r] = "idle"
  BY <1>1, Zenon DEF Go, BlocklistInv
<1>4. CASE ~disturbed
  <2>1. Alone(r) /\ Sound(dest)
    BY <1>1, <1>4, Undisturbed, Zenon DEF FilesAt
  <2>2. Sound(dest') /\ FilesAt(r)'
    BY <1>1, <1>3, <2>1, Zenon DEF FilesAt, Sound, Valid
  <2> QED
    BY <1>1, <1>2, <2>1, <2>2, AloneStep, Zenon
<1> QED
  BY <1>1, <1>2, <1>4, AloneStep, Zenon

\* The invariant is inductive.
LEMMA BlocklistStep ==
    ASSUME Validate, NginxFound PROVE BlocklistInv /\ [BlocklistNext]_blocklistVars => BlocklistInv'
<1> SUFFICES ASSUME BlocklistInv, [BlocklistNext]_blocklistVars PROVE BlocklistInv'
  OBVIOUS
<1>1. ASSUME NEW r \in Runs, Run(r) PROVE BlocklistInv'
  BY <1>1, WriteStep, KeepStep, SwapStep, TestStep, RestoreStep, DropStep, ReloadStep, Zenon DEF Run
<1>2. ASSUME NEW r \in Runs, CrashRun(r) PROVE BlocklistInv'
  <2>1. /\ Go(r, "idle") /\ disturbed' = TRUE /\ had' = [had EXCEPT ![r] = FALSE]
    BY <1>2, Zenon DEF CrashRun
  <2>2. had' \in [Runs -> BOOLEAN] /\ "idle" \in Steps
    BY <2>1, Zenon DEF BlocklistInv, Steps
  <2> QED
    BY <2>1, <2>2, AloneStep, Zenon
<1>3. ASSUME step' = step, had' = had, dest' = dest, lastGood' = lastGood, disturbed' = disturbed
      PROVE  BlocklistInv'
  BY <1>3, Zenon DEF BlocklistInv, FilesAt, Alone, Sound, Valid
<1>4. Change => BlocklistInv'
  BY <1>3, Zenon DEF Change, files
<1>5. UNCHANGED blocklistVars => BlocklistInv'
  BY <1>3, Zenon DEF blocklistVars
<1> QED
  BY <1>1, <1>2, <1>4, <1>5, Zenon DEF BlocklistNext

\* A candidate that nginx rejects does not stay behind: for any number of runs, crashes,
\* timeouts and rule changes, and whichever keys nginx rejects.
THEOREM BrokenFileRolledBack == BlocklistSpec => []NoBrokenFileLeft
<1>1. CASE Validate /\ NginxFound
  <2>1. BlocklistInv => NoBrokenFileLeft
    BY Zenon DEF BlocklistInv, NoBrokenFileLeft, Sound
  <2> QED
    BY <1>1, <2>1, BlocklistStart, BlocklistStep, PTL DEF BlocklistSpec
<1>2. CASE ~(Validate /\ NginxFound)
  <2>1. NoBrokenFileLeft
    BY <1>2, Zenon DEF NoBrokenFileLeft
  <2> QED
    BY <2>1, PTL
<1> QED
  BY <1>1, <1>2

----------------------------------------------------------------------------
(* The stages of a subnet *)

RuleRows == [active : BOOLEAN, reviewed : BOOLEAN, detectors : SUBSET DETECTOR_NAMES]

\* A subnet that detect_unsolved_challenges has challenged was over the floors once, and
\* one that a detector has blocked, twice.
Staged(n) ==
    /\ LET k == Key("cidr", n, "CHALLENGE")
       IN  k \in DOMAIN rules /\ "detect_unsolved_challenges" \in rules[k].detectors => crossed[n] # 0
    /\ LET k == Key("cidr", n, "BLOCK")
       IN  k \in DOMAIN rules /\ rules[k].detectors # {} => crossed[n] = 2

DetectorsInv ==
    /\ \A k \in DOMAIN rules : rules[k] \in RuleRows
    /\ at \in [Runners -> 0..5] /\ crossed \in [Nets -> 0..2]
    /\ \A n \in Nets : Staged(n)

\* A row with another switch and other detectors is a row.
LEMMA RowChanged ==
    ASSUME NEW row \in RuleRows, NEW on \in BOOLEAN, NEW ds \in SUBSET DETECTOR_NAMES
    PROVE  /\ [row EXCEPT !.active = on, !.detectors = ds] \in RuleRows
           /\ [row EXCEPT !.active = on, !.detectors = ds].detectors = ds
<1> DEFINE one == [row EXCEPT !.active = on]
           changed == [row EXCEPT !.active = on, !.detectors = ds]
<1>1. one \in RuleRows
  BY Zenon DEF RuleRows
<1>2. changed = [one EXCEPT !.detectors = ds]
  BY Zenon
<1> HIDE DEF one, changed
<1>3. changed \in RuleRows /\ changed.detectors = ds
  BY <1>1, <1>2, Zenon DEF RuleRows
<1> QED
  BY <1>3, Zenon DEF changed

\* One that is only switched keeps its detectors.
LEMMA RowSwitched ==
    ASSUME NEW row \in RuleRows, NEW on \in BOOLEAN
    PROVE  /\ [row EXCEPT !.active = on] \in RuleRows
           /\ [row EXCEPT !.active = on].detectors = row.detectors
           /\ [row EXCEPT !.active = on, !.reviewed = TRUE] \in RuleRows
           /\ [row EXCEPT !.active = on, !.reviewed = TRUE].detectors = row.detectors
<1> DEFINE one == [row EXCEPT !.active = on]
           two == [row EXCEPT !.active = on, !.reviewed = TRUE]
<1>1. one \in RuleRows /\ one.detectors = row.detectors
  BY Zenon DEF RuleRows
<1>2. two = [one EXCEPT !.reviewed = TRUE]
  BY Zenon
<1> HIDE DEF one, two
<1>3. two \in RuleRows /\ two.detectors = one.detectors
  BY <1>1, <1>2, Zenon DEF RuleRows
<1> QED
  BY <1>1, <1>3, Zenon DEF one, two

\* What detector d makes of the rows by writing what it found.
RowsAfter(R, found, d, S) ==
    /\ DOMAIN S = DOMAIN R \cup found
    /\ \A k \in DOMAIN S : S[k] \in RuleRows
    /\ \A k \in DOMAIN S \ found : S[k] = R[k]
    /\ \A k \in found : S[k].detectors = (IF k \in DOMAIN R THEN R[k].detectors ELSE {}) \cup {d}

\* Writing the findings of d makes just that of them.
LEMMA RowsWritten ==
    ASSUME NEW R, \A k \in DOMAIN R : R[k] \in RuleRows, NEW found, NEW d \in DETECTOR_NAMES
    PROVE  RowsAfter(R, found, d, _get_or_create_auto_rule(R, found, d))
<1> DEFINE S == _get_or_create_auto_rule(R, found, d)
<1>1. DOMAIN S = DOMAIN R \cup found
  BY Zenon DEF _get_or_create_auto_rule
<1>2. ASSUME NEW k \in DOMAIN S, k \notin found PROVE S[k] = R[k] /\ S[k] \in RuleRows
  BY <1>1, <1>2, Zenon DEF _get_or_create_auto_rule
<1>3. ASSUME NEW k \in found
      PROVE  /\ S[k] \in RuleRows
             /\ S[k].detectors = (IF k \in DOMAIN R THEN R[k].detectors ELSE {}) \cup {d}
  <2> DEFINE old == IF k \in DOMAIN R THEN R[k] ELSE NoRule
             on == IF old.reviewed THEN old.active ELSE Enforcing(d)
             ds == old.detectors \cup {d}
  <2>1. NoRule \in RuleRows /\ NoRule.detectors = {}
    BY Zenon DEF NoRule, RuleRows
  <2>2. old \in RuleRows /\ old.detectors = (IF k \in DOMAIN R THEN R[k].detectors ELSE {})
    BY <2>1, Zenon
  <2>3. S[k] = [old EXCEPT !.active = on, !.detectors = ds]
    BY <1>1, Zenon DEF _get_or_create_auto_rule
  <2>4. on \in BOOLEAN /\ ds \in SUBSET DETECTOR_NAMES
    <3>1. old.active \in BOOLEAN /\ old.detectors \in SUBSET DETECTOR_NAMES
      BY <2>2, Zenon DEF RuleRows
    <3>2. Enforcing(d) \in BOOLEAN
      BY Zenon DEF Enforcing
    <3> HIDE DEF old
    <3> QED
      BY <3>1, <3>2, Zenon
  <2> HIDE DEF old, on, ds
  <2>5. S[k] \in RuleRows /\ S[k].detectors = ds
    <3>1. /\ [old EXCEPT !.active = on, !.detectors = ds] \in RuleRows
          /\ [old EXCEPT !.active = on, !.detectors = ds].detectors = ds
      BY <2>2, <2>4, RowChanged
    <3> QED
      BY <2>3, <3>1
  <2> QED
    BY <2>2, <2>5, Zenon DEF ds
<1> QED
  BY <1>1, <1>2, <1>3, Zenon DEF RowsAfter

\* The names of the detectors, and which of them runs at each place of a pass.
LEMMA OrderOfPass ==
    ASSUME NEW i \in 0..5
    PROVE  /\ Order[i + 1] \in DETECTOR_NAMES
           /\ Order[i + 1] \in {"detect_ua_rotation", "detect_subnet_burst", "detect_challenge_farms",
                                "detect_unsolved_challenges", "detect_cloud_spray", "detect_scraper_404_ratio"}
<1>1. i + 1 \in 1..6
  BY SMT
<1>2. Order[i + 1] \in DETECTOR_NAMES
  BY <1>1, Zenon DEF DETECTOR_NAMES
<1>3. i + 1 \in {1, 2, 3, 4, 5, 6}
  BY <1>1, SMT
<1> QED
  BY <1>2, <1>3, SMT DEF Order

\* Only detect_unsolved_challenges blocks subnets.
LEMMA OthersOnlyChallenge ==
    ASSUME NEW d \in {"detect_ua_rotation", "detect_subnet_burst", "detect_challenge_farms",
                      "detect_cloud_spray", "detect_scraper_404_ratio"},
           NEW L, NEW reps, NEW R, NEW failures, NEW found \in Findings(d, L, reps, R, failures), NEW n
    PROVE  Key("cidr", n, "BLOCK") \notin found
<1> SUFFICES ASSUME Key("cidr", n, "BLOCK") \in found PROVE FALSE
  OBVIOUS
<1>1. CASE d = "detect_ua_rotation"
  <2>1. found = detect_ua_rotation(L)
    BY <1>1, Zenon DEF Findings
  <2>2. PICK ip : Key("cidr", n, "BLOCK") = Key("ip", ip, "CHALLENGE")
    BY <2>1, Zenon DEF detect_ua_rotation
  <2> QED
    BY <2>2, SMT DEF Key
<1>2. CASE d = "detect_subnet_burst"
  <2>1. found = detect_subnet_burst(L)
    BY <1>2, Zenon DEF Findings
  <2>2. PICK s : Key("cidr", n, "BLOCK") = Key("cidr", s, "CHALLENGE")
    BY <2>1, Zenon DEF detect_subnet_burst
  <2> QED
    BY <2>2, SMT DEF Key
<1>3. CASE d = "detect_challenge_farms"
  <2>1. found = detect_challenge_farms(reps)
    BY <1>3, Zenon DEF Findings
  <2>2. PICK ip : Key("cidr", n, "BLOCK") = Key("ip", ip, "BLOCK")
    BY <2>1, Zenon DEF detect_challenge_farms
  <2> QED
    BY <2>2, SMT DEF Key
<1>4. CASE d = "detect_cloud_spray"
  <2>1. PICK top : found = detect_cloud_spray(L, top)
    BY <1>4, Zenon DEF Findings
  <2>2. PICK type, pattern : Key("cidr", n, "BLOCK") = Key(type, pattern, "CHALLENGE")
    BY <2>1, Zenon DEF detect_cloud_spray
  <2> QED
    BY <2>2, SMT DEF Key
<1>5. CASE d = "detect_scraper_404_ratio"
  <2>1. PICK unclear : found = detect_scraper_404_ratio(L, unclear)
    BY <1>5, Zenon DEF Findings
  <2>2. PICK ip, action : Key("cidr", n, "BLOCK") = Key("ip", ip, action)
    BY <2>1, Zenon DEF detect_scraper_404_ratio
  <2> QED
    BY <2>2, SMT DEF Key
<1> QED
  BY <1>1, <1>2, <1>3, <1>4, <1>5, Zenon

\* It writes rules on subnets that are over the floors, and blocks those that it has
\* challenged.
LEMMA SubnetFound ==
    ASSUME NEW L, NEW reps, NEW R, NEW failures, NEW n,
           NEW found \in Findings("detect_unsolved_challenges", L, reps, R, failures)
    PROVE  /\ Key("cidr", n, "CHALLENGE") \in found => n \in Crossing(L)
           /\ Key("cidr", n, "BLOCK") \in found =>
                 /\ n \in Crossing(L) /\ Key("cidr", n, "CHALLENGE") \in DOMAIN R
                 /\ "detect_unsolved_challenges" \in R[Key("cidr", n, "CHALLENGE")].detectors
<1> DEFINE k == Key("cidr", n, "CHALLENGE")
           Already(s) == LET j == Key("cidr", s, "CHALLENGE")
                         IN  j \in DOMAIN R /\ R[j].active /\ "detect_unsolved_challenges" \in R[j].detectors
<1>1. found = detect_unsolved_challenges(L, R)
  BY Zenon DEF Findings
<1>2. ASSUME NEW a, Key("cidr", n, a) \in found
      PROVE  n \in Crossing(L) /\ a = (IF Already(n) THEN "BLOCK" ELSE "CHALLENGE")
  <2>1. CASE Key("cidr", n, a) \in _detect_unsolved_challenges_per_ip(L)
    <3>1. PICK ip : Key("cidr", n, a) = Key("ip", ip, "BLOCK")
      BY <2>1, Zenon DEF _detect_unsolved_challenges_per_ip
    <3> QED
      BY <3>1, SMT DEF Key
  <2>2. CASE Key("cidr", n, a) \in _detect_unsolved_challenges_by_subnet(L, R)
    <3>1. PICK s \in Crossing(L) : Key("cidr", n, a) = Key("cidr", s, IF Already(s) THEN "BLOCK" ELSE "CHALLENGE")
      BY <2>2, Zenon DEF _detect_unsolved_challenges_by_subnet
    <3> HIDE DEF Already
    <3>2. n = s /\ a = (IF Already(s) THEN "BLOCK" ELSE "CHALLENGE")
      BY <3>1, SMT DEF Key
    <3> QED
      BY <3>2, Zenon
  <2> QED
    BY <1>1, <1>2, <2>1, <2>2, Zenon DEF detect_unsolved_challenges
<1>3. Already(n) => k \in DOMAIN R /\ "detect_unsolved_challenges" \in R[k].detectors
  BY Zenon
<1> HIDE DEF Already
<1>4. k \in found => n \in Crossing(L)
  BY <1>2, Zenon
<1>5. Key("cidr", n, "BLOCK") \in found => n \in Crossing(L) /\ "BLOCK" = (IF Already(n) THEN "BLOCK" ELSE "CHALLENGE")
  BY <1>2, Zenon
<1>6. "BLOCK" # "CHALLENGE"
  OBVIOUS
<1> QED
  BY <1>3, <1>4, <1>5, <1>6, Zenon

\* There are no rules at first.
LEMMA DetectorsStart == DetectorsInit => DetectorsInv
<1> SUFFICES ASSUME DetectorsInit PROVE DetectorsInv
  OBVIOUS
<1>1. 0 \in 0..5 /\ 0 \in 0..2 /\ DOMAIN rules = {}
  <2>1. DOMAIN <<>> = {}
    BY SMT
  <2> QED
    BY <2>1, SMT DEF DetectorsInit
<1> QED
  BY <1>1, Zenon DEF DetectorsInit, DetectorsInv, Staged

\* The counts of the crossings go up to 2.
LEMMA CrossingCounted ==
    ASSUME DetectorsInv, NEW d, NEW n \in Nets,
           crossed' = [m \in Nets |-> IF d = "detect_unsolved_challenges" /\ m \in Crossing(logs) /\ crossed[m] < 2
                                      THEN crossed[m] + 1 ELSE crossed[m]]
    PROVE  /\ crossed'[n] \in 0..2 /\ (crossed[n] # 0 => crossed'[n] # 0) /\ (crossed[n] = 2 => crossed'[n] = 2)
           /\ d = "detect_unsolved_challenges" /\ n \in Crossing(logs) =>
                 crossed'[n] # 0 /\ (crossed[n] # 0 => crossed'[n] = 2)
<1>1. crossed[n] \in 0..2
  BY Zenon DEF DetectorsInv
<1>2. crossed'[n] = IF d = "detect_unsolved_challenges" /\ n \in Crossing(logs) /\ crossed[n] < 2
                    THEN crossed[n] + 1 ELSE crossed[n]
  BY Zenon
<1> QED
  BY <1>1, <1>2, SMT

\* A detector of a pass keeps the stages.
LEMMA DetectorRuns ==
    ASSUME DetectorsInv, NEW r \in Runners, run_all_detectors(r) PROVE DetectorsInv'
<1> DEFINE d == Order[at[r] + 1]
<1>1. at[r] \in 0..5
  BY Zenon DEF DetectorsInv
<1>2. d \in DETECTOR_NAMES
      /\ d \in {"detect_ua_rotation", "detect_subnet_burst", "detect_challenge_farms",
                "detect_unsolved_challenges", "detect_cloud_spray", "detect_scraper_404_ratio"}
  BY <1>1, OrderOfPass, Zenon
<1>3. PICK found \in Findings(d, logs, Reputations, rules, SUBSET Ips) :
         rules' = _get_or_create_auto_rule(rules, found, d)
  BY Zenon DEF run_all_detectors
<1>4. /\ at' = [at EXCEPT ![r] = (at[r] + 1) % 6]
      /\ crossed' = [n \in Nets |->
              IF d = "detect_unsolved_challenges" /\ n \in Crossing(logs) /\ crossed[n] < 2
              THEN crossed[n] + 1 ELSE crossed[n]]
  BY Zenon DEF run_all_detectors
<1> HIDE DEF d
<1>5. /\ DOMAIN rules' = DOMAIN rules \cup found
      /\ \A k \in DOMAIN rules' : rules'[k] \in RuleRows
      /\ \A k \in DOMAIN rules' \ found : rules'[k] = rules[k]
      /\ \A k \in found : rules'[k].detectors = (IF k \in DOMAIN rules THEN rules[k].detectors ELSE {}) \cup {d}
  <2>0. d \in DETECTOR_NAMES
    BY <1>2, Zenon
  <2>1. \A k \in DOMAIN rules : rules[k] \in RuleRows
    BY Zenon DEF DetectorsInv
  <2>2. RowsAfter(rules, found, d, _get_or_create_auto_rule(rules, found, d))
    BY <2>0, <2>1, RowsWritten, Zenon
  <2>3. RowsAfter(rules, found, d, rules')
    BY <1>3, <2>2, Zenon
  <2> QED
    BY <2>3, Zenon DEF RowsAfter
<1>6. at' \in [Runners -> 0..5]
  <2>1. (at[r] + 1) % 6 \in 0..5
    BY <1>1, SMT
  <2> QED
    BY <1>4, <2>1, Zenon DEF DetectorsInv
<1>7. crossed' \in [Nets -> 0..2]
  <2>1. \A n \in Nets : crossed'[n] \in 0..2
    BY <1>4, CrossingCounted, Zenon
  <2> QED
    BY <1>4, <2>1, Zenon
<1>8. ASSUME NEW n \in Nets PROVE Staged(n)'
  <2> DEFINE c == Key("cidr", n, "CHALLENGE")
             b == Key("cidr", n, "BLOCK")
  <2>1. /\ (crossed[n] # 0 => crossed'[n] # 0) /\ (crossed[n] = 2 => crossed'[n] = 2)
        /\ d = "detect_unsolved_challenges" /\ n \in Crossing(logs) =>
              crossed'[n] # 0 /\ (crossed[n] # 0 => crossed'[n] = 2)
    BY <1>4, CrossingCounted, Zenon
  <2>2. /\ c \in DOMAIN rules /\ "detect_unsolved_challenges" \in rules[c].detectors => crossed[n] # 0
        /\ b \in DOMAIN rules /\ rules[b].detectors # {} => crossed[n] = 2
    BY Zenon DEF DetectorsInv, Staged
  <2>3. CASE d = "detect_unsolved_challenges"
    <3>1. /\ c \in found => n \in Crossing(logs)
          /\ b \in found => n \in Crossing(logs) /\ c \in DOMAIN rules
                              /\ "detect_unsolved_challenges" \in rules[c].detectors
      BY <1>3, <2>3, SubnetFound, Zenon
    <3> HIDE DEF c, b
    <3>2. c \in DOMAIN rules' /\ "detect_unsolved_challenges" \in rules'[c].detectors => crossed'[n] # 0
      BY <1>5, <2>1, <2>2, <2>3, <3>1, Zenon
    <3>3. b \in DOMAIN rules' /\ rules'[b].detectors # {} => crossed'[n] = 2
      BY <1>5, <2>1, <2>2, <2>3, <3>1, Zenon
    <3> QED
      BY <3>2, <3>3, Zenon DEF Staged, c, b, Key
  <2>4. CASE d # "detect_unsolved_challenges"
    <3>1. b \notin found
      BY <1>2, <1>3, <2>4, OthersOnlyChallenge, Zenon
    <3> HIDE DEF c, b
    <3>2. c \in DOMAIN rules' /\ "detect_unsolved_challenges" \in rules'[c].detectors =>
             c \in DOMAIN rules /\ "detect_unsolved_challenges" \in rules[c].detectors
      BY <1>5, <2>4, ZenonT(60)
    <3>3. b \in DOMAIN rules' /\ rules'[b].detectors # {} => b \in DOMAIN rules /\ rules[b].detectors # {}
      BY <1>5, <3>1, Zenon
    <3> QED
      BY <2>1, <2>2, <3>2, <3>3, Zenon DEF Staged, c, b, Key
  <2> QED
    BY <2>3, <2>4, Zenon
<1> QED
  BY <1>5, <1>6, <1>7, <1>8, Zenon DEF DetectorsInv

\* Rules are changed without any detector being added to one.
LEMMA RulesEdited ==
    ASSUME DetectorsInv, at' = at, crossed' = crossed,
           \A k \in DOMAIN rules' :
              /\ rules'[k] \in RuleRows
              /\ rules'[k].detectors = {} \/ (k \in DOMAIN rules /\ rules'[k].detectors = rules[k].detectors)
    PROVE  DetectorsInv'
<1> ASSUME NEW n \in Nets PROVE Staged(n)'
  <2> DEFINE c == Key("cidr", n, "CHALLENGE")
             b == Key("cidr", n, "BLOCK")
  <2>1. /\ c \in DOMAIN rules /\ "detect_unsolved_challenges" \in rules[c].detectors => crossed[n] # 0
        /\ b \in DOMAIN rules /\ rules[b].detectors # {} => crossed[n] = 2
    BY Zenon DEF DetectorsInv, Staged
  <2> HIDE DEF c, b
  <2>2. /\ c \in DOMAIN rules' /\ "detect_unsolved_challenges" \in rules'[c].detectors => crossed'[n] # 0
        /\ b \in DOMAIN rules' /\ rules'[b].detectors # {} => crossed'[n] = 2
    BY <2>1, Zenon
  <2> QED
    BY <2>2, Zenon DEF Staged, c, b, Key
<1> QED
  BY Zenon DEF DetectorsInv

\* A rule that is switched keeps its detectors.
LEMMA RuleSwitched ==
    ASSUME DetectorsInv, NEW k \in DOMAIN rules, NEW row \in RuleRows, row.detectors = rules[k].detectors,
           Switch(k, row)
    PROVE  DetectorsInv'
<1>1. rules' = [rules EXCEPT ![k] = row] /\ at' = at /\ crossed' = crossed
  BY Zenon DEF Switch, Edit
<1>2. /\ DOMAIN rules' = DOMAIN rules /\ rules'[k] = row
      /\ \A j \in DOMAIN rules : j # k => rules'[j] = rules[j]
  BY <1>1, Zenon
<1>3. \A j \in DOMAIN rules' : rules'[j] \in RuleRows /\ rules'[j].detectors = rules[j].detectors
  BY <1>2, Zenon DEF DetectorsInv
<1> QED
  BY <1>1, <1>2, <1>3, RulesEdited, Zenon

\* The invariant is inductive.
LEMMA DetectorsStep == DetectorsInv /\ [DetectorsNext]_detectorVars => DetectorsInv'
<1> SUFFICES ASSUME DetectorsInv, [DetectorsNext]_detectorVars PROVE DetectorsInv'
  OBVIOUS
<1>1. ASSUME NEW r \in Runners, Abort(r) PROVE DetectorsInv'
  <2>1. at' = [at EXCEPT ![r] = 0] /\ rules' = rules /\ crossed' = crossed
    BY <1>1, Zenon DEF Abort
  <2>2. 0 \in 0..5
    BY SMT
  <2>3. at' \in [Runners -> 0..5]
    BY <2>1, <2>2, Zenon DEF DetectorsInv
  <2> QED
    BY <2>1, <2>3, Zenon DEF DetectorsInv, Staged
<1>2. ASSUME at' = at, rules' = rules, crossed' = crossed PROVE DetectorsInv'
  BY <1>2, Zenon DEF DetectorsInv, Staged
<1>3. (\E q \in Requests : LogRequest(q)) \/ (\E ip \in Ips : Solve(ip)) \/ Tick \/ UNCHANGED detectorVars => DetectorsInv'
  BY <1>2, Zenon DEF LogRequest, Solve, Tick, detectorVars
<1>4. ASSUME NEW k \in DOMAIN rules, Reject(k) PROVE DetectorsInv'
  <2>1. rules[k] \in RuleRows
    BY Zenon DEF DetectorsInv
  <2>2. /\ [rules[k] EXCEPT !.active = FALSE, !.reviewed = TRUE] \in RuleRows
        /\ [rules[k] EXCEPT !.active = FALSE, !.reviewed = TRUE].detectors = rules[k].detectors
    BY <2>1, RowSwitched, Zenon
  <2> QED
    BY <1>4, <2>2, RuleSwitched, Zenon DEF Reject
<1>5. ASSUME NEW k \in DOMAIN rules, Expire(k) PROVE DetectorsInv'
  <2>1. rules[k] \in RuleRows
    BY Zenon DEF DetectorsInv
  <2>2. /\ [rules[k] EXCEPT !.active = FALSE] \in RuleRows
        /\ [rules[k] EXCEPT !.active = FALSE].detectors = rules[k].detectors
    BY <2>1, RowSwitched, Zenon
  <2> QED
    BY <1>5, <2>2, RuleSwitched, Zenon DEF Expire
<1>6. ASSUME NEW k \in DOMAIN rules, Withdraw(k) PROVE DetectorsInv'
  <2>1. rules' = [j \in DOMAIN rules \ {k} |-> rules[j]] /\ at' = at /\ crossed' = crossed
    BY <1>6, Zenon DEF Withdraw, Edit
  <2>2. \A j \in DOMAIN rules' : j \in DOMAIN rules /\ rules'[j] = rules[j]
    BY <2>1, Zenon
  <2>3. \A j \in DOMAIN rules' : rules'[j] \in RuleRows /\ j \in DOMAIN rules /\ rules'[j].detectors = rules[j].detectors
    BY <2>2, Zenon DEF DetectorsInv
  <2> QED
    BY <2>1, <2>3, RulesEdited, Zenon
<1>7. ASSUME NEW k \in HandMade, AddByHand(k) PROVE DetectorsInv'
  <2> DEFINE new == [NoRule EXCEPT !.active = TRUE]
  <2>1. new \in RuleRows /\ new.detectors = {}
    <3>1. NoRule \in RuleRows /\ NoRule.detectors = {}
      BY Zenon DEF NoRule, RuleRows
    <3> QED
      BY <3>1, RowSwitched, Zenon
  <2>2. rules' = [j \in DOMAIN rules \cup {k} |-> IF j = k THEN new ELSE rules[j]] /\ at' = at /\ crossed' = crossed
    BY <1>7, Zenon DEF AddByHand, Edit
  <2> HIDE DEF new
  <2>3. \A j \in DOMAIN rules' : rules'[j] = new \/ (j \in DOMAIN rules /\ rules'[j] = rules[j])
    BY <2>2, Zenon
  <2>4. \A j \in DOMAIN rules' :
           /\ rules'[j] \in RuleRows
           /\ rules'[j].detectors = {} \/ (j \in DOMAIN rules /\ rules'[j].detectors = rules[j].detectors)
    BY <2>1, <2>3, Zenon DEF DetectorsInv
  <2> QED
    BY <2>2, <2>4, RulesEdited, Zenon
<1> QED
  BY DetectorRuns, <1>1, <1>3, <1>4, <1>5, <1>6, <1>7, Zenon DEF DetectorsNext

\* No detector blocks a subnet that was not twice over the floors: for all traffic, windows
\* and thresholds, any number of passes at the same time and whatever operators do.
THEOREM BlockedInTwoStages == DetectorsSpec => []SubnetStaged
<1>1. DetectorsInv => SubnetStaged
  BY Zenon DEF DetectorsInv, Staged, SubnetStaged
<1> QED
  BY <1>1, DetectorsStart, DetectorsStep, PTL DEF DetectorsSpec

----------------------------------------------------------------------------
(* The rules of the feed *)

FeedRows == [kind : {e.kind : e \in Entries}, key : {e.key : e \in Entries}, active : BOOLEAN, expires : Nat,
             approved : BOOLEAN]
Copies == [row : Nat, active : BOOLEAN, expires : Nat]

\* What a sync read of a row is of the kind of the entry it saves, and an allow row that
\* it read active is approved, in quarantine.
CopyInv(s) ==
    copy[s].row # 0 =>
        /\ copy[s].row \in DOMAIN feedRules
        /\ feedRules[copy[s].row].kind = Head(todo[s]).kind
        /\ Quarantine /\ copy[s].active /\ feedRules[copy[s].row].kind = "allow" =>
              feedRules[copy[s].row].approved

FeedInv ==
    /\ feedRules \in Seq(FeedRows) /\ AllowApproved
    /\ feedTime \in Nat /\ feed \in Seq(Entries) /\ todo \in [Syncs -> Seq(Entries)]
    /\ copy \in [Syncs -> Copies]
    /\ syncing \in [Syncs -> {"idle", "entries", "save", "blocks", "allows"}]
    /\ doomed \in [Syncs -> SUBSET Nat]
    /\ \A s \in Syncs : doomed[s] \subseteq DOMAIN feedRules
    /\ \A s \in Syncs : syncing[s] = "save" => todo[s] # <<>> /\ CopyInv(s)

\* No rows, and no sync under way.
LEMMA FeedStart == FeedInit => FeedInv
<1> SUFFICES ASSUME FeedInit PROVE FeedInv
  OBVIOUS
<1>1. feedRules \in Seq(FeedRows) /\ DOMAIN feedRules = {} /\ <<>> \in Seq(Entries) /\ 0 \in Nat
  BY SMT DEF FeedInit
<1>2. feed \in Seq(Entries)
  BY FeedConstants, Zenon DEF FeedInit
<1>3. NotRead \in Copies
  BY <1>1, Zenon DEF NotRead, Copies
<1> QED
  BY <1>1, <1>2, <1>3, Zenon DEF FeedInit, FeedInv, AllowApproved

\* One row of the table changes.
LEMMA OneRow ==
    ASSUME NEW R \in Seq(FeedRows), NEW i \in DOMAIN R, NEW row \in FeedRows
    PROVE  LET S == [R EXCEPT ![i] = row]
           IN  /\ S \in Seq(FeedRows) /\ DOMAIN S = DOMAIN R
               /\ S[i] = row /\ \A j \in DOMAIN R : j # i => S[j] = R[j]
BY SMT

\* A row is added to it.
LEMMA NewRow ==
    ASSUME NEW R \in Seq(FeedRows), NEW row \in FeedRows
    PROVE  LET S == Append(R, row)
           IN  /\ S \in Seq(FeedRows) /\ DOMAIN R \subseteq DOMAIN S
               /\ \A j \in DOMAIN R : S[j] = R[j]
               /\ \A j \in DOMAIN S \ DOMAIN R : S[j] = row
BY SMT

\* A row is switched.
LEMMA FeedRowSwitched ==
    ASSUME NEW row \in FeedRows, NEW on \in BOOLEAN
    PROVE  /\ [row EXCEPT !.active = on] \in FeedRows
           /\ [row EXCEPT !.active = on].kind = row.kind
           /\ [row EXCEPT !.active = on].active = on
           /\ [row EXCEPT !.active = on].approved = row.approved
BY Zenon DEF FeedRows

\* A row is saved with another date.
SavedRow(row, on, date) == [row EXCEPT !.active = on, !.expires = date]

LEMMA FeedRowSaved ==
    ASSUME NEW row \in FeedRows, NEW on \in BOOLEAN, NEW date \in Nat
    PROVE  /\ SavedRow(row, on, date) \in FeedRows /\ SavedRow(row, on, date).kind = row.kind
           /\ SavedRow(row, on, date).active = on /\ SavedRow(row, on, date).approved = row.approved
<1> DEFINE one == [row EXCEPT !.active = on]
           new == SavedRow(row, on, date)
<1>1. one \in FeedRows /\ one.kind = row.kind /\ one.active = on /\ one.approved = row.approved
  BY FeedRowSwitched, Zenon
<1>2. new = [one EXCEPT !.expires = date]
  BY Zenon DEF SavedRow
<1> HIDE DEF one, new
<1>3. new \in FeedRows
  BY <1>1, <1>2, Zenon DEF FeedRows
<1>4. new.kind = one.kind /\ new.active = one.active /\ new.approved = one.approved
  BY <1>1, <1>2, Zenon DEF FeedRows
<1> QED
  BY <1>1, <1>3, <1>4, Zenon DEF new

\* A row is switched, and perhaps approved.
LEMMA FeedRowApproved ==
    ASSUME NEW row \in FeedRows, NEW on \in BOOLEAN, NEW ok \in BOOLEAN
    PROVE  /\ [row EXCEPT !.active = on, !.approved = ok] \in FeedRows
           /\ [row EXCEPT !.active = on, !.approved = ok].kind = row.kind
           /\ [row EXCEPT !.active = on, !.approved = ok].active = on
           /\ [row EXCEPT !.active = on, !.approved = ok].approved = ok
<1> DEFINE one == [row EXCEPT !.active = on]
           two == [row EXCEPT !.active = on, !.approved = ok]
<1>1. one \in FeedRows /\ one.kind = row.kind /\ one.active = on
  BY FeedRowSwitched, Zenon
<1>2. two = [one EXCEPT !.approved = ok]
  BY Zenon
<1> HIDE DEF one, two
<1>3. two \in FeedRows
  BY <1>1, <1>2, Zenon DEF FeedRows
<1>4. two.kind = one.kind /\ two.active = one.active /\ two.approved = ok
  BY <1>1, <1>2, Zenon DEF FeedRows
<1> QED
  BY <1>1, <1>3, <1>4, Zenon DEF two

\* The rows keep their kind, and stay approved: so what other syncs have read stays true.
RowsKept ==
    /\ feedRules' \in Seq(FeedRows)
    /\ \A i \in DOMAIN feedRules :
          /\ i \in DOMAIN feedRules' /\ feedRules'[i].kind = feedRules[i].kind
          /\ feedRules[i].approved => feedRules'[i].approved

\* What a sync has read is as good after a step of another.
LEMMA CopyKept ==
    ASSUME NEW s \in Syncs, CopyInv(s), RowsKept, copy'[s] = copy[s], todo'[s] = todo[s]
    PROVE  CopyInv(s)'
<1> SUFFICES ASSUME copy[s].row # 0
             PROVE  /\ copy[s].row \in DOMAIN feedRules'
                    /\ feedRules'[copy[s].row].kind = Head(todo[s]).kind
                    /\ Quarantine /\ copy[s].active /\ feedRules'[copy[s].row].kind = "allow" =>
                          feedRules'[copy[s].row].approved
  BY Zenon DEF CopyInv
<1> QED
  BY Zenon DEF CopyInv, RowsKept

\* Steps that leave the rows alone, and what each other sync is doing.
LEMMA RowsUntouched ==
    ASSUME FeedInv, feedRules' = feedRules, feedTime' \in Nat, feed' \in Seq(Entries), todo' \in [Syncs -> Seq(Entries)],
           copy' \in [Syncs -> Copies],
           syncing' \in [Syncs -> {"idle", "entries", "save", "blocks", "allows"}],
           doomed' \in [Syncs -> SUBSET Nat],
           \A q \in Syncs : doomed'[q] \subseteq DOMAIN feedRules,
           \A q \in Syncs :
              \/ syncing'[q] # "save"
              \/ todo'[q] # <<>> /\ CopyInv(q)'
              \/ syncing'[q] = syncing[q] /\ todo'[q] = todo[q] /\ copy'[q] = copy[q]
    PROVE  FeedInv'
<1>1. RowsKept
  BY Zenon DEF RowsKept, FeedInv
<1>2. \A q \in Syncs : syncing'[q] = "save" => todo'[q] # <<>> /\ CopyInv(q)'
  BY <1>1, CopyKept, Zenon DEF FeedInv
<1> QED
  BY <1>2, Zenon DEF FeedInv, AllowApproved

\* Steps that change one row, or add one, and nothing but what the sync itself is doing.
LEMMA RowsTouched ==
    ASSUME FeedInv, RowsKept, AllowApproved', feedTime' = feedTime, feed' = feed, todo' \in [Syncs -> Seq(Entries)],
           copy' \in [Syncs -> Copies],
           syncing' \in [Syncs -> {"idle", "entries", "save", "blocks", "allows"}],
           doomed' \in [Syncs -> SUBSET Nat], \A q \in Syncs : doomed'[q] \subseteq doomed[q],
           \A q \in Syncs :
              \/ syncing'[q] # "save"
              \/ syncing'[q] = syncing[q] /\ todo'[q] = todo[q] /\ copy'[q] = copy[q]
    PROVE  FeedInv'
<1>1. \A q \in Syncs : syncing'[q] = "save" => todo'[q] # <<>> /\ CopyInv(q)'
  BY CopyKept, Zenon DEF FeedInv
<1>2. \A q \in Syncs : doomed'[q] \subseteq DOMAIN feedRules'
  BY Zenon DEF FeedInv, RowsKept
<1>3. feedRules' \in Seq(FeedRows) /\ feed' \in Seq(Entries)
  BY Zenon DEF FeedInv, RowsKept
<1> QED
  BY <1>1, <1>2, <1>3, Zenon DEF FeedInv

\* An entry is read: the copy is of a row of its key.
LEMMA ReadStep ==
    ASSUME FeedInv, NEW s \in Syncs, Read(s) PROVE FeedInv'
<1> DEFINE e == Head(todo[s])
           found == {i \in DOMAIN feedRules : EntryKey(feedRules[i]) = EntryKey(e)}
<1>1. /\ feedRules' = feedRules /\ feedTime' = feedTime /\ feed' = feed /\ doomed' = doomed
      /\ todo[s] # <<>> /\ syncing[s] = "entries"
  BY Zenon DEF Read
<1>2. todo[s] \in Seq(Entries) /\ feedRules \in Seq(FeedRows) /\ feedTime \in Nat
  BY Zenon DEF FeedInv
<1>3. CASE todo' = [todo EXCEPT ![s] = Tail(todo[s])] /\ syncing' = syncing /\ copy' = copy
  <2>1. Tail(todo[s]) \in Seq(Entries)
    BY <1>1, <1>2, SMT
  <2>2. todo' \in [Syncs -> Seq(Entries)] /\ \A q \in Syncs : q = s \/ todo'[q] = todo[q]
    BY <1>3, <2>1, Zenon DEF FeedInv
  <2>3. "entries" # "save"
    OBVIOUS
  <2>4. \A q \in Syncs :
           \/ syncing'[q] # "save"
           \/ syncing'[q] = syncing[q] /\ todo'[q] = todo[q] /\ copy'[q] = copy[q]
    BY <1>1, <1>3, <2>2, <2>3, Zenon
  <2> QED
    BY <1>1, <1>3, <2>2, <2>4, RowsUntouched, Zenon DEF FeedInv
<1>4. ASSUME NEW i \in IF found = {} THEN {0} ELSE found,
             copy' = [copy EXCEPT ![s] = [row |-> i, active |-> i # 0 /\ feedRules[i].active,
                                          expires |-> ExpiresAt(e)]],
             syncing' = [syncing EXCEPT ![s] = "save"], todo' = todo
      PROVE  FeedInv'
  <2> DEFINE c == [row |-> i, active |-> i # 0 /\ feedRules[i].active, expires |-> ExpiresAt(e)]
  <2>1. i # 0 => i \in found
    BY <1>4, Zenon
  <2>2. i # 0 => i \in DOMAIN feedRules /\ EntryKey(feedRules[i]) = EntryKey(e)
    BY <2>1, Zenon
  <2>3. i # 0 => feedRules[i].kind = e.kind
    BY <2>2, SMT DEF EntryKey
  <2>4. i \in Nat
    <3>1. i = 0 \/ i \in DOMAIN feedRules
      BY <2>2, Zenon
    <3> QED
      BY <1>2, <3>1, SMT
  <2>5. (i # 0 /\ feedRules[i].active) \in BOOLEAN
    BY Zenon
  <2>6. c \in Copies /\ c.row = i /\ c.active = (i # 0 /\ feedRules[i].active)
    <3>1. e \in Entries
      BY <1>1, <1>2, SMT
    <3>2. ExpiresAt(e) \in Nat
      BY <1>2, <3>1, FeedConstants, SMT DEF ExpiresAt
    <3> HIDE DEF e
    <3> QED
      BY <2>4, <2>5, <3>2, Zenon DEF Copies
  <2>7. /\ copy' \in [Syncs -> Copies] /\ copy'[s] = c
        /\ \A q \in Syncs : q # s => copy'[q] = copy[q]
    BY <1>4, <2>6, Zenon DEF FeedInv
  <2> HIDE DEF c, e
  <2>8. Quarantine /\ i # 0 /\ feedRules[i].active /\ feedRules[i].kind = "allow" => feedRules[i].approved
    BY <2>2, Zenon DEF FeedInv, AllowApproved
  <2>9. CopyInv(s)'
    BY <1>1, <1>4, <2>2, <2>3, <2>6, <2>7, <2>8, Zenon DEF CopyInv, e
  <2>10. syncing' \in [Syncs -> {"idle", "entries", "save", "blocks", "allows"}]
         /\ \A q \in Syncs : q # s => syncing'[q] = syncing[q]
    BY <1>4, Zenon DEF FeedInv
  <2>11. \A q \in Syncs :
            \/ todo'[q] # <<>> /\ CopyInv(q)'
            \/ syncing'[q] = syncing[q] /\ todo'[q] = todo[q] /\ copy'[q] = copy[q]
    BY <1>1, <1>4, <2>7, <2>9, <2>10, Zenon
  <2> QED
    BY <1>1, <1>4, <2>7, <2>10, <2>11, RowsUntouched, Zenon DEF FeedInv
<1> QED
  BY <1>3, <1>4, Zenon DEF Read

\* A row changes so that it stays approved if it is an active allow row in quarantine.
LEMMA RowApproved ==
    ASSUME FeedInv, NEW i \in DOMAIN feedRules, NEW row \in FeedRows, feedRules' = [feedRules EXCEPT ![i] = row],
           row.kind = feedRules[i].kind, feedRules[i].approved => row.approved,
           Quarantine /\ row.kind = "allow" /\ row.active => row.approved
    PROVE  RowsKept /\ AllowApproved'
<1>1. feedRules \in Seq(FeedRows)
  BY Zenon DEF FeedInv
<1>2. /\ feedRules' \in Seq(FeedRows) /\ DOMAIN feedRules' = DOMAIN feedRules
      /\ feedRules'[i] = row /\ \A j \in DOMAIN feedRules : j # i => feedRules'[j] = feedRules[j]
  BY <1>1, OneRow
<1>3. RowsKept
  BY <1>2, Zenon DEF RowsKept
<1>4. AllowApproved'
  BY <1>2, Zenon DEF FeedInv, AllowApproved
<1> QED
  BY <1>3, <1>4

\* A rule is created inactive if it is an allow rule in quarantine; one that is there is
\* saved as it was read.
LEMMA SaveStep ==
    ASSUME FeedInv, NEW s \in Syncs, Save(s) PROVE FeedInv'
<1> DEFINE e == Head(todo[s])
           i == copy[s].row
<1>1. /\ feedTime' = feedTime /\ feed' = feed /\ doomed' = doomed
      /\ syncing[s] = "save" /\ syncing' = [syncing EXCEPT ![s] = "entries"]
      /\ todo' = [todo EXCEPT ![s] = Tail(todo[s])] /\ copy' = [copy EXCEPT ![s] = NotRead]
      /\ feedRules' = IF i = 0
                      THEN Append(feedRules, [kind |-> e.kind, key |-> e.key, active |-> ActiveOnCreate(e),
                                              expires |-> copy[s].expires, approved |-> FALSE])
                      ELSE [feedRules EXCEPT ![i].active = ActiveOnSave(s, e), ![i].expires = copy[s].expires]
  BY Zenon DEF Save
<1>2. todo[s] \in Seq(Entries) /\ feedRules \in Seq(FeedRows) /\ todo[s] # <<>> /\ CopyInv(s)
      /\ copy[s] \in Copies /\ copy[s].active \in BOOLEAN /\ copy[s].expires \in Nat
  BY <1>1, Zenon DEF FeedInv, Copies
<1>3. Tail(todo[s]) \in Seq(Entries) /\ e \in Entries
  BY <1>2, SMT
<1>4. NotRead \in Copies
  <2>1. 0 \in Nat
    BY SMT
  <2> QED
    BY <2>1, Zenon DEF NotRead, Copies
<1>5. RowsKept /\ AllowApproved'
  <2>1. CASE i = 0
    <3> DEFINE row == [kind |-> e.kind, key |-> e.key, active |-> ActiveOnCreate(e),
                       expires |-> copy[s].expires, approved |-> FALSE]
    <3>1. ActiveOnCreate(e) \in BOOLEAN /\ (Quarantine /\ e.kind = "allow" => ~ActiveOnCreate(e))
      BY Zenon DEF ActiveOnCreate
    <3>2. row \in FeedRows /\ row.kind = e.kind /\ row.active = ActiveOnCreate(e)
      BY <1>2, <1>3, <3>1, Zenon DEF FeedRows
    <3>3. feedRules' = Append(feedRules, row)
      BY <1>1, <2>1, Zenon
    <3> HIDE DEF row, e
    <3>4. /\ feedRules' \in Seq(FeedRows) /\ DOMAIN feedRules \subseteq DOMAIN feedRules'
          /\ \A j \in DOMAIN feedRules : feedRules'[j] = feedRules[j]
          /\ \A j \in DOMAIN feedRules' \ DOMAIN feedRules : feedRules'[j] = row
      BY <1>2, <3>2, <3>3, NewRow
    <3>5. RowsKept
      BY <3>4, Zenon DEF RowsKept
    <3>6. ASSUME Quarantine, NEW j \in DOMAIN feedRules', feedRules'[j].kind = "allow", feedRules'[j].active
          PROVE  feedRules'[j].approved
      BY <3>1, <3>2, <3>4, <3>6, Zenon DEF FeedInv, AllowApproved
    <3> QED
      BY <3>5, <3>6, Zenon DEF AllowApproved
  <2>2. CASE i # 0
    <3> DEFINE on == ActiveOnSave(s, e)
               date == copy[s].expires
               row == [feedRules[i] EXCEPT !.active = on, !.expires = date]
    <3>1. /\ i \in DOMAIN feedRules /\ feedRules[i].kind = e.kind
          /\ Quarantine /\ copy[s].active /\ feedRules[i].kind = "allow" => feedRules[i].approved
      BY <1>2, <2>2, Zenon DEF CopyInv
    <3>2. on \in BOOLEAN /\ date \in Nat
      BY <1>2, Zenon DEF ActiveOnSave
    <3>3. Quarantine /\ e.kind = "allow" /\ on => copy[s].active
      BY Zenon DEF ActiveOnSave
    <3>4. feedRules[i] \in FeedRows
      BY <1>2, <3>1, SMT
    <3>5. feedRules' = [feedRules EXCEPT ![i] = row]
      BY <1>1, <2>2, Zenon
    <3>6. row \in FeedRows /\ row.kind = feedRules[i].kind /\ row.active = on
          /\ row.approved = feedRules[i].approved
      <4>1. row = SavedRow(feedRules[i], on, date)
        BY DEF SavedRow
      <4> HIDE DEF on, date, row
      <4>2. /\ SavedRow(feedRules[i], on, date) \in FeedRows
            /\ SavedRow(feedRules[i], on, date).kind = feedRules[i].kind
            /\ SavedRow(feedRules[i], on, date).active = on
            /\ SavedRow(feedRules[i], on, date).approved = feedRules[i].approved
        BY <3>2, <3>4, FeedRowSaved
      <4> QED
        BY <4>1, <4>2
    <3> HIDE DEF row, e, i, on
    <3>7. Quarantine /\ row.kind = "allow" /\ row.active => row.approved
      BY <3>1, <3>3, <3>6, Zenon
    <3> QED
      BY <3>1, <3>5, <3>6, <3>7, RowApproved, Zenon
  <2> QED
    BY <2>1, <2>2, Zenon
<1> HIDE DEF e, i
<1>6. /\ syncing' \in [Syncs -> {"idle", "entries", "save", "blocks", "allows"}]
      /\ todo' \in [Syncs -> Seq(Entries)] /\ copy' \in [Syncs -> Copies]
      /\ syncing'[s] = "entries"
      /\ \A q \in Syncs : q # s => syncing'[q] = syncing[q] /\ todo'[q] = todo[q] /\ copy'[q] = copy[q]
  BY <1>1, <1>3, <1>4, Zenon DEF FeedInv
<1>7. doomed' \in [Syncs -> SUBSET Nat] /\ \A q \in Syncs : doomed'[q] \subseteq doomed[q]
  BY <1>1, Zenon DEF FeedInv
<1>8. \A q \in Syncs :
         \/ syncing'[q] # "save"
         \/ syncing'[q] = syncing[q] /\ todo'[q] = todo[q] /\ copy'[q] = copy[q]
  BY <1>6, Zenon
<1> QED
  BY <1>1, <1>5, <1>6, <1>7, <1>8, RowsTouched, Zenon

\* A rule that the feed no longer has is switched off.
LEMMA ExpireRuleStep ==
    ASSUME FeedInv, NEW s \in Syncs, ExpireRule(s) PROVE FeedInv'
<1>1. PICK i \in doomed[s] :
         feedRules' = [feedRules EXCEPT ![i].active = FALSE] /\ doomed' = [doomed EXCEPT ![s] = doomed[s] \ {i}]
  BY Zenon DEF ExpireRule
<1>2. feedTime' = feedTime /\ feed' = feed /\ syncing' = syncing /\ todo' = todo /\ copy' = copy
  BY Zenon DEF ExpireRule
<1>3. i \in DOMAIN feedRules /\ feedRules \in Seq(FeedRows) /\ doomed[s] \in SUBSET Nat
  BY <1>1, Zenon DEF FeedInv
<1>4. feedRules[i] \in FeedRows
  BY <1>3, SMT
<1> DEFINE row == [feedRules[i] EXCEPT !.active = FALSE]
<1>5. feedRules' = [feedRules EXCEPT ![i] = row]
  BY <1>1, Zenon
<1>6. row \in FeedRows /\ row.kind = feedRules[i].kind /\ row.active = FALSE /\ row.approved = feedRules[i].approved
  BY <1>4, FeedRowSwitched, Zenon
<1> HIDE DEF row
<1>7. RowsKept /\ AllowApproved'
  BY <1>3, <1>5, <1>6, RowApproved, Zenon
<1>8. doomed' \in [Syncs -> SUBSET Nat] /\ \A q \in Syncs : doomed'[q] \subseteq doomed[q]
  BY <1>1, <1>3, Zenon DEF FeedInv
<1> QED
  BY <1>2, <1>7, <1>8, RowsTouched, Zenon DEF FeedInv

\* An operator who switches a rule on approves it.
LEMMA SwitchRuleStep ==
    ASSUME FeedInv, SwitchRule PROVE FeedInv'
<1>1. PICK i \in DOMAIN feedRules :
         feedRules' = [feedRules EXCEPT ![i].active = ~@, ![i].approved = @ \/ ~feedRules[i].active]
  BY Zenon DEF SwitchRule
<1>2. /\ feedTime' = feedTime /\ feed' = feed /\ syncing' = syncing /\ todo' = todo /\ copy' = copy
      /\ doomed' = doomed
  BY Zenon DEF SwitchRule
<1>3. feedRules \in Seq(FeedRows)
  BY Zenon DEF FeedInv
<1>4. feedRules[i] \in FeedRows
  BY <1>3, SMT
<1> DEFINE on == ~feedRules[i].active
           ok == feedRules[i].approved \/ ~feedRules[i].active
           row == [feedRules[i] EXCEPT !.active = on, !.approved = ok]
<1>5. feedRules' = [feedRules EXCEPT ![i] = row]
  BY <1>1, <1>3, <1>4, Zenon DEF FeedRows
<1>6. on \in BOOLEAN /\ ok \in BOOLEAN /\ (on => ok) /\ (feedRules[i].approved => ok)
  BY Zenon
<1> HIDE DEF on, ok
<1>7. row \in FeedRows /\ row.kind = feedRules[i].kind /\ row.active = on /\ row.approved = ok
  BY <1>4, <1>6, FeedRowApproved, ZenonT(60)
<1> HIDE DEF row
<1>8. RowsKept /\ AllowApproved'
  BY <1>5, <1>6, <1>7, RowApproved, Zenon
<1>9. doomed' \in [Syncs -> SUBSET Nat] /\ \A q \in Syncs : doomed'[q] \subseteq doomed[q]
  BY <1>2, Zenon DEF FeedInv
<1> QED
  BY <1>2, <1>8, <1>9, RowsTouched, Zenon DEF FeedInv

\* The rows of the table change, one by one, and none is added.
LEMMA AllRows ==
    ASSUME NEW R \in Seq(FeedRows), NEW S, DOMAIN S = DOMAIN R, S = [i \in DOMAIN R |-> S[i]],
           \A i \in DOMAIN R : S[i] \in FeedRows
    PROVE  S \in Seq(FeedRows)
<1>1. DOMAIN R = 1..Len(R) /\ Len(R) \in Nat
  BY SMT
<1>2. S \in [1..Len(R) -> FeedRows]
  BY <1>1, Zenon
<1> QED
  BY <1>1, <1>2, SMT

\* The expire_rules task switches rules off, and none on.
LEMMA ExpireRulesStep ==
    ASSUME FeedInv, NEW kind, expire_rules(kind) PROVE FeedInv'
<1> DEFINE on(i) == feedRules[i].active /\ ~(feedRules[i].kind = kind /\ Past(feedRules[i]))
<1>1. /\ feedRules' = [i \in DOMAIN feedRules |-> [feedRules[i] EXCEPT !.active = on(i)]]
      /\ feedTime' = feedTime /\ feed' = feed /\ syncing' = syncing /\ todo' = todo /\ copy' = copy
      /\ doomed' = doomed
  BY Zenon DEF expire_rules
<1>2. feedRules \in Seq(FeedRows)
  BY Zenon DEF FeedInv
<1>3. \A i \in DOMAIN feedRules : feedRules[i] \in FeedRows
  BY <1>2, SMT
<1>4. \A i \in DOMAIN feedRules : on(i) \in BOOLEAN /\ (on(i) => feedRules[i].active)
  BY Zenon
<1> HIDE DEF on
<1>5. \A i \in DOMAIN feedRules :
         /\ feedRules'[i] \in FeedRows /\ feedRules'[i].kind = feedRules[i].kind
         /\ feedRules'[i].active => feedRules[i].active
         /\ feedRules'[i].approved = feedRules[i].approved
  BY <1>1, <1>3, <1>4, FeedRowSwitched, Zenon
<1>6. feedRules' \in Seq(FeedRows) /\ DOMAIN feedRules' = DOMAIN feedRules
  BY <1>1, <1>2, <1>5, AllRows, Zenon
<1>7. RowsKept /\ AllowApproved'
  BY <1>5, <1>6, Zenon DEF RowsKept, FeedInv, AllowApproved
<1>8. doomed' \in [Syncs -> SUBSET Nat] /\ \A q \in Syncs : doomed'[q] \subseteq doomed[q]
  BY <1>1, Zenon DEF FeedInv
<1> QED
  BY <1>1, <1>7, <1>8, RowsTouched, Zenon DEF FeedInv

\* The steps that only move a sync on, or end it.
LEMMA SyncMoved ==
    ASSUME FeedInv, NEW s \in Syncs, NEW to \in {"idle", "entries", "blocks", "allows"},
           NEW rest \in Seq(Entries), NEW read \in Copies, NEW absent \in SUBSET DOMAIN feedRules,
           syncing' = [syncing EXCEPT ![s] = to], todo' = [todo EXCEPT ![s] = rest],
           copy' = [copy EXCEPT ![s] = read], doomed' = [doomed EXCEPT ![s] = absent],
           feedRules' = feedRules, feedTime' = feedTime, feed' = feed
    PROVE  FeedInv'
<1>1. feedRules \in Seq(FeedRows) /\ feed' \in Seq(Entries) /\ feedTime' \in Nat
  BY Zenon DEF FeedInv
<1>2. absent \in SUBSET Nat
  BY <1>1, SMT
<1>3. /\ syncing' \in [Syncs -> {"idle", "entries", "save", "blocks", "allows"}]
      /\ todo' \in [Syncs -> Seq(Entries)] /\ copy' \in [Syncs -> Copies]
  BY Zenon DEF FeedInv
<1>4. doomed' \in [Syncs -> SUBSET Nat] /\ \A q \in Syncs : doomed'[q] \subseteq DOMAIN feedRules
  BY <1>2, Zenon DEF FeedInv
<1>5. \A q \in Syncs :
         \/ syncing'[q] # "save"
         \/ syncing'[q] = syncing[q] /\ todo'[q] = todo[q] /\ copy'[q] = copy[q]
  BY Zenon DEF FeedInv
<1> QED
  BY <1>1, <1>3, <1>4, <1>5, RowsUntouched, Zenon

\* Such steps that leave a part of the sync alone.
LEMMA Unmoved ==
    ASSUME FeedInv, NEW s \in Syncs
    PROVE  /\ todo = [todo EXCEPT ![s] = todo[s]] /\ todo[s] \in Seq(Entries)
           /\ copy = [copy EXCEPT ![s] = copy[s]] /\ copy[s] \in Copies
           /\ doomed = [doomed EXCEPT ![s] = doomed[s]] /\ doomed[s] \in SUBSET DOMAIN feedRules
<1>1. todo = [todo EXCEPT ![s] = todo[s]] /\ todo[s] \in Seq(Entries)
  BY Zenon DEF FeedInv
<1>2. copy = [copy EXCEPT ![s] = copy[s]] /\ copy[s] \in Copies
  BY Zenon DEF FeedInv
<1>3. doomed = [doomed EXCEPT ![s] = doomed[s]] /\ doomed[s] \in SUBSET DOMAIN feedRules
  BY Zenon DEF FeedInv
<1> QED
  BY <1>1, <1>2, <1>3

\* The invariant is inductive.
LEMMA FeedStep == FeedInv /\ [FeedNext]_feedVars => FeedInv'
<1> SUFFICES ASSUME FeedInv, [FeedNext]_feedVars PROVE FeedInv'
  OBVIOUS
<1>1. ASSUME NEW s \in Syncs, Fetch(s) PROVE FeedInv'
  <2>1. /\ syncing' = [syncing EXCEPT ![s] = "entries"] /\ todo' = [todo EXCEPT ![s] = feed]
        /\ feedTime' = feedTime /\ feed' = feed /\ feedRules' = feedRules /\ copy' = copy /\ doomed' = doomed
    BY <1>1, Zenon DEF Fetch
  <2>2. feed \in Seq(Entries)
    BY Zenon DEF FeedInv
  <2>3. copy' = [copy EXCEPT ![s] = copy[s]] /\ doomed' = [doomed EXCEPT ![s] = doomed[s]]
    BY <2>1, Unmoved, Zenon
  <2> QED
    BY <2>1, <2>2, <2>3, Unmoved, SyncMoved, ZenonT(60)
<1>2. ASSUME NEW s \in Syncs, Query(s) PROVE FeedInv'
  <2>1. PICK to \in {"blocks", "allows", "idle"} : syncing' = [syncing EXCEPT ![s] = to]
    BY <1>2, Zenon DEF Query
  <2>2. PICK absent \in SUBSET DOMAIN feedRules : doomed' = [doomed EXCEPT ![s] = absent]
    <3>1. \A kind : Absent(s, kind) \in SUBSET DOMAIN feedRules
      BY Zenon DEF Absent
    <3> QED
      BY <1>2, <3>1, Unmoved, Zenon DEF Query
  <2>3. feedTime' = feedTime /\ feed' = feed /\ feedRules' = feedRules /\ todo' = todo /\ copy' = copy
    BY <1>2, Zenon DEF Query
  <2>4. todo' = [todo EXCEPT ![s] = todo[s]] /\ copy' = [copy EXCEPT ![s] = copy[s]]
    BY <2>3, Unmoved, Zenon
  <2>5. todo[s] \in Seq(Entries) /\ copy[s] \in Copies
    BY Unmoved, Zenon
  <2>6. to \in {"idle", "entries", "blocks", "allows"}
    BY <2>1, Zenon
  <2> QED
    BY <2>1, <2>2, <2>3, <2>4, <2>5, <2>6, SyncMoved
<1>3. ASSUME NEW s \in Syncs, CrashSync(s) PROVE FeedInv'
  <2>1. /\ syncing' = [syncing EXCEPT ![s] = "idle"] /\ todo' = [todo EXCEPT ![s] = <<>>]
        /\ copy' = [copy EXCEPT ![s] = NotRead] /\ doomed' = [doomed EXCEPT ![s] = {}]
        /\ feedTime' = feedTime /\ feed' = feed /\ feedRules' = feedRules
    BY <1>3, Zenon DEF CrashSync
  <2>2. <<>> \in Seq(Entries) /\ 0 \in Nat
    BY SMT
  <2>3. NotRead \in Copies /\ {} \in SUBSET DOMAIN feedRules
    BY <2>2, Zenon DEF NotRead, Copies
  <2> QED
    BY <2>1, <2>2, <2>3, SyncMoved
<1>4. ASSUME feedRules' = feedRules, syncing' = syncing, todo' = todo, copy' = copy, doomed' = doomed,
             feedTime' \in Nat, feed' \in Seq(Entries)
      PROVE  FeedInv'
  BY <1>4, RowsUntouched, Zenon DEF FeedInv
<1>5. Publish => FeedInv'
  BY <1>4, FeedConstants, Zenon DEF Publish, FeedInv
<1>7. TimePasses => FeedInv'
  <2>1. feedTime + 1 \in Nat
    BY SMT DEF FeedInv
  <2> QED
    BY <1>4, <2>1, Zenon DEF TimePasses, FeedInv
<1>6. UNCHANGED feedVars => FeedInv'
  BY <1>4, Zenon DEF feedVars, FeedInv
<1> QED
  BY <1>1, <1>2, <1>3, <1>5, <1>6, <1>7, ReadStep, SaveStep, ExpireRuleStep, ExpireRulesStep, SwitchRuleStep,
     Zenon DEF FeedNext, Sync

\* In quarantine no allow rule of the feed is active that no operator ever switched on: for
\* every feed, however many syncs overlap or are cut short, whatever operators do and
\* whenever the expire_rules task runs.
THEOREM AllowRulesApproved == FeedSpec => []AllowApproved
<1>1. FeedInv => AllowApproved
  BY DEF FeedInv
<1> QED
  BY <1>1, FeedStart, FeedStep, PTL DEF FeedSpec

----------------------------------------------------------------------------
(* The probe *)

\* A set that holds n different things has at least n elements.
LEMMA AtLeast ==
    ASSUME NEW S, IsFiniteSet(S), NEW n \in Nat, NEW g \in [1..n -> S],
           \A i, j \in 1..n : g[i] = g[j] => i = j
    PROVE  Cardinality(S) \in Nat /\ Cardinality(S) >= n
<1>1. g \in Injection(1..n, S)
  BY Zenon DEF Injection, IsInjective
<1>2. Cardinality(1..n) <= Cardinality(S)
  BY <1>1, FS_Injection, Zenon
<1>3. Cardinality(1..n) = n
  BY FS_Interval, SMT
<1>4. Cardinality(S) \in Nat
  BY FS_CardinalityType, Zenon
<1> QED
  BY <1>2, <1>3, <1>4, SMT

\* A function has no more values than arguments.
LEMMA FiniteImage ==
    ASSUME NEW S, IsFiniteSet(S), NEW f, DOMAIN f = S, f = [x \in S |-> f[x]]
    PROVE  IsFiniteSet({f[x] : x \in S})
<1> DEFINE T == {f[x] : x \in S}
<1>1. f \in Surjection(S, T)
  BY Zenon DEF Surjection
<1> HIDE DEF T
<1>2. IsFiniteSet(T)
  BY <1>1, FS_Surjection, Zenon
<1> QED
  BY <1>2, Zenon DEF T

\* The addresses, networks and user agents of finitely many rows are finitely many, and
\* so are the rules about them.
LEMMA FiniteIps == ASSUME NEW L, IsFiniteSet(L) PROVE IsFiniteSet(IpsIn(L))
<1> DEFINE f == [x \in L |-> x.ip]
<1>1. DOMAIN f = L /\ f = [x \in L |-> f[x]] /\ {f[x] : x \in L} = IpsIn(L)
  BY Zenon DEF IpsIn
<1> HIDE DEF f
<1>2. IsFiniteSet({f[x] : x \in L})
  BY <1>1, FiniteImage
<1> QED
  BY <1>1, <1>2, Zenon

LEMMA FiniteNets == ASSUME NEW I, IsFiniteSet(I) PROVE IsFiniteSet({_get_subnet_prefix(ip) : ip \in I})
<1> DEFINE f == [ip \in I |-> _get_subnet_prefix(ip)]
<1>1. DOMAIN f = I /\ f = [x \in I |-> f[x]] /\ {f[x] : x \in I} = {_get_subnet_prefix(ip) : ip \in I}
  BY Zenon
<1> HIDE DEF f
<1>2. IsFiniteSet({f[x] : x \in I})
  BY <1>1, FiniteImage
<1> QED
  BY <1>1, <1>2, Zenon

LEMMA FiniteUas == ASSUME NEW L, IsFiniteSet(L) PROVE IsFiniteSet({x.ua : x \in L})
<1> DEFINE f == [x \in L |-> x.ua]
<1>1. DOMAIN f = L /\ f = [x \in L |-> f[x]] /\ {f[x] : x \in L} = {x.ua : x \in L}
  BY Zenon
<1> HIDE DEF f
<1>2. IsFiniteSet({f[x] : x \in L})
  BY <1>1, FiniteImage
<1> QED
  BY <1>1, <1>2, Zenon

LEMMA FiniteKeys ==
    ASSUME NEW P, IsFiniteSet(P), NEW type, NEW action
    PROVE  IsFiniteSet({Key(type, p, action) : p \in P})
<1> DEFINE f == [p \in P |-> Key(type, p, action)]
<1>1. DOMAIN f = P /\ f = [x \in P |-> f[x]] /\ {f[x] : x \in P} = {Key(type, p, action) : p \in P}
  BY Zenon
<1> HIDE DEF f
<1>2. IsFiniteSet({f[x] : x \in P})
  BY <1>1, FiniteImage
<1> QED
  BY <1>1, <1>2, Zenon

\* What is found is not nothing.
LEMMA OneFound ==
    ASSUME NEW S, IsFiniteSet(S), NEW x \in S
    PROVE  Cardinality(S) \in Nat /\ Cardinality(S) >= 1
<1>1. Cardinality(S) \in Nat
  BY FS_CardinalityType, Zenon
<1>2. Cardinality(S) # 0
  BY FS_EmptySet, Zenon
<1> QED
  BY <1>1, <1>2, SMT

\* A log the probe reads: the fixtures, and rows of other addresses.
ProbeIps == TestNet1 \cup TestNet2 \cup TestNet3
Probed(L) ==
    /\ IsFiniteSet(L) /\ _build_fixture_traffic \subseteq L
    /\ \A x \in L : x \in _build_fixture_traffic \/ x.ip \notin ProbeIps

\* A fixture row is in every window.
LEMMA RowRecent ==
    ASSUME NEW L, NEW x \in L, x.age = 0
    PROVE  /\ x \in Since(L, Window.ua) /\ x \in Since(L, Window.burst) /\ x \in Since(L, Window.unsolved)
           /\ x \in Since(L, Window.spray) /\ x \in Since(L, Window.scraper)
<1>1. \A w \in Nat : 0 <= w
  BY SMT
<1> QED
  BY <1>1, DetectorsConstants, Zenon DEF Since

\* What is read of a finite log is finite.
LEMMA FiniteReads ==
    ASSUME NEW L, IsFiniteSet(L), NEW w, NEW ip, NEW s
    PROVE  IsFiniteSet(Since(L, w)) /\ IsFiniteSet(Of(L, ip)) /\ IsFiniteSet(From(L, s))
<1>1. Since(L, w) \in SUBSET L /\ Of(L, ip) \in SUBSET L /\ From(L, s) \in SUBSET L
  BY Zenon DEF Since, Of, From
<1> QED
  BY <1>1, FS_Subset, Zenon

\* The rotation fixture's address has used more user agents than the threshold.
LEMMA RotationFound ==
    ASSUME NEW L, Probed(L), NEW found, found = detect_ua_rotation(L)
    PROVE  Cardinality(found) \in Nat /\ Cardinality(found) >= 1
<1> DEFINE B == Since(L, Window.ua)
           n == Conf.distinctUas + 1
           row(i) == Row(i, "p1.10", ProbeUas[i], TRUE, "ALLOWED", "middleware", FALSE)
           uas == {x.ua : x \in Of(B, "p1.10")}
           over == {i \in IpsIn(B) : Cardinality({x.ua : x \in Of(B, i)}) > Conf.distinctUas}
<1>1. found = {Key("ip", ip, "CHALLENGE") : ip \in over}
  BY Zenon DEF detect_ua_rotation
<1>2. n \in Nat /\ \A i, j \in 1..n : ProbeUas[i] = ProbeUas[j] => i = j
  <2>1. Conf.distinctUas \in Nat /\ 1..Conf.distinctUas + 1 \subseteq DOMAIN ProbeUas
    BY DetectorsConstants, Zenon
  <2>2. n \in Nat
    BY <2>1, SMT
  <2> QED
    BY <2>1, <2>2, DetectorsConstants, Zenon
<1>3. ASSUME NEW i \in 1..n PROVE row(i) \in Of(B, "p1.10") /\ row(i).ua = ProbeUas[i]
  <2>1. row(i) \in L
    BY Zenon DEF Probed, _build_fixture_traffic, _build_ua_rotation_fixture
  <2>2. row(i).age = 0 /\ row(i).ip = "p1.10" /\ row(i).ua = ProbeUas[i]
    BY Zenon DEF Row
  <2> HIDE DEF row
  <2>3. row(i) \in Since(L, Window.ua)
    BY <2>1, <2>2, RowRecent, Zenon
  <2> QED
    BY <2>2, <2>3, Zenon DEF Of
<1>4. IsFiniteSet(B) /\ IsFiniteSet(Of(B, "p1.10")) /\ IsFiniteSet(uas) /\ IsFiniteSet(IpsIn(B))
  BY FiniteReads, FiniteUas, FiniteIps, Zenon DEF Probed
<1>5. Cardinality(uas) \in Nat /\ Cardinality(uas) >= n
  <2> DEFINE g == [i \in 1..n |-> ProbeUas[i]]
  <2>1. g \in [1..n -> uas]
    BY <1>3, Zenon
  <2>2. \A i, j \in 1..n : g[i] = g[j] => i = j
    BY <1>2, Zenon
  <2> HIDE DEF g, n, uas
  <2> QED
    BY <1>2, <1>4, <2>1, <2>2, AtLeast
<1>6. "p1.10" \in over
  <2>1. Cardinality(uas) > Conf.distinctUas
    <3>1. Conf.distinctUas \in Nat
      BY DetectorsConstants, Zenon
    <3> HIDE DEF uas
    <3> QED
      BY <1>5, <3>1, SMT
  <2>2. 1 \in 1..n
    BY DetectorsConstants, SMT
  <2>3. row(1).ip = "p1.10" /\ row(1) \in B
    BY <1>3, <2>2, Zenon DEF Of
  <2> HIDE DEF row, n, B
  <2>4. "p1.10" \in IpsIn(B)
    BY <2>3, Zenon DEF IpsIn
  <2> QED
    BY <2>1, <2>4, Zenon DEF B
<1>7. IsFiniteSet(found)
  <2>1. IsFiniteSet(over)
    BY <1>4, FS_Subset, Zenon
  <2> HIDE DEF over
  <2> QED
    BY <1>1, <2>1, FiniteKeys
<1> HIDE DEF over
<1> QED
  BY <1>1, <1>6, <1>7, OneFound, Zenon

\* The networks of the fixtures.
LEMMA FixtureNets ==
    /\ \A ip \in TestNet2 : _get_subnet_prefix(ip) = "p2"
    /\ \A ip \in TestNet3 : _get_subnet_prefix(ip) = "p3"
<1>1. \A ip \in TestNet2 : ip \notin TestNet1
  BY SMT DEF TestNet1, TestNet2
<1>2. \A ip \in TestNet3 : ip \notin TestNet1 /\ ip \notin TestNet2
  BY DetectorsConstants, Zenon
<1> QED
  BY <1>1, <1>2, Zenon DEF _get_subnet_prefix, Networks

\* The burst fixture's network has more rows than the floor.
LEMMA BurstFound ==
    ASSUME NEW L, Probed(L), NEW found, found = detect_subnet_burst(L)
    PROVE  Cardinality(found) \in Nat /\ Cardinality(found) >= 1
<1> DEFINE B == Since(L, Window.burst)
           n == Conf.burstMin + 1
           row(i) == Row(i, BurstIp(i), "probe", TRUE, "ALLOWED", "middleware", FALSE)
           counts == [s \in NetsIn(B) |-> Cardinality(From(B, s))]
           bursting == {s \in NetsIn(B) : counts[s] >= Conf.burstMin
                                            \/ 2 * counts[s] > 3 * TwiceMedian(counts)}
<1>1. found = {Key("cidr", s, "CHALLENGE") : s \in bursting}
  BY Zenon DEF detect_subnet_burst
<1>2. Conf.burstMin \in Nat /\ n \in Nat
  BY DetectorsConstants, SMT
<1>3. ASSUME NEW i \in 1..n PROVE row(i) \in B /\ row(i) \in From(B, "p2") /\ row(i).id = i /\ row(i).ip \in TestNet2
  <2>1. row(i) \in L
    BY Zenon DEF Probed, _build_fixture_traffic, _build_subnet_burst_fixture
  <2>2. row(i).age = 0 /\ row(i).ip = BurstIp(i) /\ row(i).id = i
    BY Zenon DEF Row
  <2>3. BurstIp(i) \in TestNet2
    <3>1. i % 3 \in {0, 1, 2}
      BY <1>2, SMT
    <3> QED
      BY <3>1, SMT DEF BurstIp, TestNet2
  <2> HIDE DEF row
  <2>4. row(i) \in B
    BY <2>1, <2>2, RowRecent, Zenon
  <2> QED
    BY <2>2, <2>3, <2>4, FixtureNets, Zenon DEF From
<1>4. IsFiniteSet(B) /\ IsFiniteSet(From(B, "p2")) /\ IsFiniteSet(NetsIn(B))
  BY FiniteReads, FiniteIps, FiniteNets, Zenon DEF Probed, NetsIn
<1>5. Cardinality(From(B, "p2")) \in Nat /\ Cardinality(From(B, "p2")) >= n
  <2> DEFINE g == [i \in 1..n |-> row(i)]
  <2>1. g \in [1..n -> From(B, "p2")]
    BY <1>3, Zenon
  <2>2. \A i, j \in 1..n : g[i] = g[j] => i = j
    BY <1>3, Zenon
  <2> HIDE DEF g, n, B
  <2> QED
    BY <1>2, <1>4, <2>1, <2>2, AtLeast
<1>6. "p2" \in bursting
  <2>1. 1 \in 1..n
    BY <1>2, SMT
  <2>2. row(1) \in B /\ row(1).ip \in TestNet2
    BY <1>3, <2>1, Zenon
  <2> HIDE DEF row, B
  <2>3. "p2" \in NetsIn(B)
    BY <2>2, FixtureNets, Zenon DEF NetsIn, IpsIn
  <2>4. counts["p2"] = Cardinality(From(B, "p2"))
    BY <2>3, Zenon
  <2> HIDE DEF counts
  <2>5. counts["p2"] >= Conf.burstMin
    BY <1>2, <1>5, <2>4, SMT
  <2> QED
    BY <2>3, <2>5, Zenon
<1>7. IsFiniteSet(found)
  <2>1. IsFiniteSet(bursting)
    BY <1>4, FS_Subset, Zenon
  <2> HIDE DEF bursting
  <2> QED
    BY <1>1, <2>1, FiniteKeys
<1> HIDE DEF bursting
<1> QED
  BY <1>1, <1>6, <1>7, OneFound, Zenon

\* The farm fixture's address has failed often enough.
LEMMA FarmFound ==
    ASSUME NEW found, found = detect_challenge_farms(Reputations \cup _build_challenge_farm_fixture)
    PROVE  Cardinality(found) \in Nat /\ Cardinality(found) >= 1
<1> DEFINE R == Reputations \cup _build_challenge_farm_fixture
           over == {q \in R : q.age <= Window.farms /\ q.failures > 10 /\ q.passes < 2}
           row == [ip |-> "p3.10", failures |-> 11, passes |-> 0, age |-> 0]
           f == [q \in over |-> Key("ip", q.ip, "BLOCK")]
<1>1. found = {f[q] : q \in over}
  BY Zenon DEF detect_challenge_farms
<1>2. row \in over
  <2>1. row \in R
    BY Zenon DEF _build_challenge_farm_fixture
  <2>2. row.age <= Window.farms /\ row.failures > 10 /\ row.passes < 2
    BY DetectorsConstants, SMT
  <2> QED
    BY <2>1, <2>2, Zenon
<1>3. IsFiniteSet(over)
  <2>1. IsFiniteSet(R)
    BY DetectorsConstants, FS_AddElement, Zenon DEF _build_challenge_farm_fixture
  <2> QED
    BY <2>1, FS_Subset, Zenon
<1>4. DOMAIN f = over /\ f = [q \in over |-> f[q]]
  BY Zenon
<1> HIDE DEF over, row, f
<1>5. IsFiniteSet(found)
  BY <1>1, <1>3, <1>4, FiniteImage
<1> QED
  BY <1>1, <1>2, <1>5, OneFound, Zenon

\* The addresses of the fixtures' rows.
LEMMA FixtureIps ==
    /\ \A x \in _build_ua_rotation_fixture : x.ip = "p1.10"
    /\ \A x \in _build_subnet_burst_fixture : x.ip \in TestNet2
    /\ \A x \in _build_unsolved_challenge_fixture : x.ip = "p1.50"
    /\ \A x \in _build_cloud_spray_fixture : x.ip \in TestNet3
    /\ \A x \in _build_scraper_404_fixture : x.ip \in {"p1.90", "p1.91"}
<1>1. ASSUME NEW x \in _build_ua_rotation_fixture PROVE x.ip = "p1.10"
  <2>1. PICK i : x = Row(i, "p1.10", ProbeUas[i], TRUE, "ALLOWED", "middleware", FALSE)
    BY Zenon DEF _build_ua_rotation_fixture
  <2> QED
    BY <2>1, Zenon DEF Row
<1>2. ASSUME NEW x \in _build_subnet_burst_fixture PROVE x.ip \in TestNet2
  <2>1. PICK i \in 1..Conf.burstMin + 1 : x = Row(i, BurstIp(i), "probe", TRUE, "ALLOWED", "middleware", FALSE)
    BY Zenon DEF _build_subnet_burst_fixture
  <2>2. x.ip = BurstIp(i)
    BY <2>1, Zenon DEF Row
  <2>3. i % 3 \in {0, 1, 2}
    BY DetectorsConstants, SMT
  <2> QED
    BY <2>2, <2>3, SMT DEF BurstIp, TestNet2
<1>3. ASSUME NEW x \in _build_unsolved_challenge_fixture PROVE x.ip = "p1.50"
  <2>1. PICK i : x = Row(i, "p1.50", "probe", FALSE, "CHALLENGED", "middleware", FALSE)
    BY Zenon DEF _build_unsolved_challenge_fixture
  <2> QED
    BY <2>1, Zenon DEF Row
<1>4. ASSUME NEW x \in _build_cloud_spray_fixture PROVE x.ip \in TestNet3
  <2>1. PICK i \in 1..Conf.sprayIps + 1 : x = Row(i, SprayIps[i], "spray", TRUE, "ALLOWED", "middleware", FALSE)
    BY Zenon DEF _build_cloud_spray_fixture
  <2>2. x.ip = SprayIps[i]
    BY <2>1, Zenon DEF Row
  <2>3. i \in DOMAIN SprayIps
    BY DetectorsConstants, Zenon
  <2> QED
    BY <2>2, <2>3, Zenon DEF TestNet3
<1>5. ASSUME NEW x \in _build_scraper_404_fixture PROVE x.ip \in {"p1.90", "p1.91"}
  <2>1. PICK i : \/ x = Row(i, "p1.90", "probe", FALSE, "ALLOWED", "middleware", TRUE)
                 \/ x = Row(i, "p1.91", "probe", FALSE, "ALLOWED", "nginx_log", TRUE)
    BY Zenon DEF _build_scraper_404_fixture
  <2>2. CASE x = Row(i, "p1.90", "probe", FALSE, "ALLOWED", "middleware", TRUE)
    BY <2>2, Zenon DEF Row
  <2>3. CASE x = Row(i, "p1.91", "probe", FALSE, "ALLOWED", "nginx_log", TRUE)
    BY <2>3, Zenon DEF Row
  <2> QED
    BY <2>1, <2>2, <2>3, Zenon
<1> QED
  BY <1>1, <1>2, <1>3, <1>4, <1>5, Zenon

\* No other row has the address of a fixture that its detector measures a share of.
LEMMA OwnRows ==
    ASSUME NEW L, Probed(L), NEW x \in L
    PROVE  /\ x.ip = "p1.50" => x \in _build_unsolved_challenge_fixture
           /\ x.ip \in {"p1.90", "p1.91"} => x \in _build_scraper_404_fixture
           /\ x.ip \in TestNet3 => x \in _build_cloud_spray_fixture
<1>1. /\ {"p1.10", "p1.50", "p1.90", "p1.91"} \cap TestNet2 = {}
      /\ "p1.50" # "p1.10" /\ "p1.50" \notin {"p1.90", "p1.91"} /\ "p1.10" \notin {"p1.90", "p1.91"}
  BY SMT DEF TestNet2
<1>2. {"p1.10", "p1.50", "p1.90", "p1.91"} \cap TestNet3 = {} /\ TestNet2 \cap TestNet3 = {}
  BY DetectorsConstants, Zenon DEF TestNet1
<1>3. x.ip \in {"p1.50", "p1.90", "p1.91"} \cup TestNet3 => x \in _build_fixture_traffic
  BY Zenon DEF Probed, ProbeIps, TestNet1
<1>4. x \in _build_fixture_traffic =>
         \/ x \in _build_ua_rotation_fixture \/ x \in _build_subnet_burst_fixture
         \/ x \in _build_unsolved_challenge_fixture \/ x \in _build_cloud_spray_fixture
         \/ x \in _build_scraper_404_fixture
  BY Zenon DEF _build_fixture_traffic
<1> QED
  BY <1>1, <1>2, <1>3, <1>4, FixtureIps, Zenon

\* A share of everything is no less than any percentage of it.
LEMMA WholeShare ==
    ASSUME NEW S, IsFiniteSet(S), NEW pct \in 0..100
    PROVE  100 * Cardinality(S) >= pct * Cardinality(S)
<1>1. ASSUME NEW c \in Nat PROVE 100 * c >= pct * c
  BY <1>1, SMT
<1> QED
  BY <1>1, FS_CardinalityType, Zenon

\* The unsolved fixture's address was challenged often enough, never with a referer.
LEMMA UnsolvedFound ==
    ASSUME NEW L, Probed(L), NEW R, NEW found, found = detect_unsolved_challenges(L, R)
    PROVE  Cardinality(found) \in Nat /\ Cardinality(found) >= 1
<1> DEFINE C == Challenged(L, Window.unsolved)
           n == Conf.minChallenged + 1
           row(i) == Row(i, "p1.50", "probe", FALSE, "CHALLENGED", "middleware", FALSE)
           mine(ip) == {x \in Of(Since(L, Window.unsolved), ip) : ~x.root}
           empty(ip) == {x \in mine(ip) : x.referer = "none"}
           candidates == {ip \in IpsIn(C) : Cardinality(Of(C, ip)) >= Conf.minChallenged}
           flagged == {ip \in candidates \ solved_ips :
                          mine(ip) # {} /\ 100 * Cardinality(empty(ip)) >= Conf.refererPct * Cardinality(mine(ip))}
           f == [s \in Crossing(L) |->
                    Key("cidr", s,
                        IF LET k == Key("cidr", s, "CHALLENGE")
                           IN  k \in DOMAIN R /\ R[k].active /\ "detect_unsolved_challenges" \in R[k].detectors
                        THEN "BLOCK" ELSE "CHALLENGE")]
<1>1. found = {Key("ip", ip, "BLOCK") : ip \in flagged} \cup {f[s] : s \in Crossing(L)}
  BY Zenon DEF detect_unsolved_challenges, _detect_unsolved_challenges_per_ip, _detect_unsolved_challenges_by_subnet
<1>2. Conf.minChallenged \in Nat /\ n \in Nat /\ Conf.refererPct \in 0..100
  BY DetectorsConstants, SMTT(60)
<1>3. ASSUME NEW i \in 1..n
      PROVE  row(i) \in Of(C, "p1.50") /\ row(i) \in mine("p1.50") /\ row(i).id = i /\ row(i).ip = "p1.50" /\ row(i) \in C
  <2>1. row(i) \in L
    BY Zenon DEF Probed, _build_fixture_traffic, _build_unsolved_challenge_fixture
  <2>2. /\ row(i).age = 0 /\ row(i).ip = "p1.50" /\ row(i).id = i /\ ~row(i).root
        /\ row(i).verdict = "CHALLENGED" /\ row(i).source = "middleware"
    BY Zenon DEF Row
  <2> HIDE DEF row
  <2>3. row(i) \in Since(L, Window.unsolved)
    BY <2>1, <2>2, RowRecent, Zenon
  <2> QED
    BY <2>2, <2>3, Zenon DEF Of, Challenged
<1>4. IsFiniteSet(C) /\ IsFiniteSet(Of(C, "p1.50")) /\ IsFiniteSet(IpsIn(C)) /\ IsFiniteSet(mine("p1.50"))
  <2>1. C \in SUBSET L /\ mine("p1.50") \in SUBSET L
    BY Zenon DEF Challenged, Since, Of
  <2>2. IsFiniteSet(C) /\ IsFiniteSet(mine("p1.50"))
    BY <2>1, FS_Subset, Zenon DEF Probed
  <2> HIDE DEF C
  <2> QED
    BY <2>2, FiniteReads, FiniteIps, Zenon
<1>5. Cardinality(Of(C, "p1.50")) \in Nat /\ Cardinality(Of(C, "p1.50")) >= n
  <2> DEFINE g == [i \in 1..n |-> row(i)]
  <2>1. g \in [1..n -> Of(C, "p1.50")]
    BY <1>3, Zenon
  <2>2. \A i, j \in 1..n : g[i] = g[j] => i = j
    BY <1>3, Zenon
  <2> HIDE DEF g, n, C
  <2> QED
    BY <1>2, <1>4, <2>1, <2>2, AtLeast
<1>6. "p1.50" \in candidates
  <2>1. 1 \in 1..n
    BY <1>2, SMT
  <2>2. row(1) \in C /\ row(1).ip = "p1.50"
    BY <1>3, <2>1, Zenon
  <2> HIDE DEF row, C
  <2>3. Cardinality(Of(C, "p1.50")) >= Conf.minChallenged
    BY <1>2, <1>5, SMT
  <2> QED
    BY <2>2, <2>3, Zenon DEF IpsIn
<1>7. "p1.50" \notin solved_ips
  BY DetectorsConstants, Zenon DEF solved_ips, TestNet1
<1>8. mine("p1.50") # {} /\ empty("p1.50") = mine("p1.50")
  <2>1. 1 \in 1..n
    BY <1>2, SMT
  <2>2. ASSUME NEW x \in mine("p1.50") PROVE x.referer = "none"
    <3>1. x \in L /\ x.ip = "p1.50"
      BY Zenon DEF Since, Of
    <3>2. x \in _build_unsolved_challenge_fixture
      BY <3>1, OwnRows, Zenon
    <3>3. PICK i : x = Row(i, "p1.50", "probe", FALSE, "CHALLENGED", "middleware", FALSE)
      BY <3>2, Zenon DEF _build_unsolved_challenge_fixture
    <3> QED
      BY <3>3, Zenon DEF Row
  <2> QED
    BY <1>3, <2>1, <2>2, Zenon
<1>9. "p1.50" \in flagged
  <2>1. 100 * Cardinality(mine("p1.50")) >= Conf.refererPct * Cardinality(mine("p1.50"))
    BY <1>2, <1>4, WholeShare, Zenon
  <2> HIDE DEF candidates, mine, empty
  <2> QED
    BY <1>6, <1>7, <1>8, <2>1, Zenon
<1>10. IsFiniteSet(found)
  <2>1. IsFiniteSet(flagged)
    BY <1>4, FS_Subset, Zenon
  <2> HIDE DEF flagged
  <2>2. IsFiniteSet({Key("ip", ip, "BLOCK") : ip \in flagged})
    BY <2>1, FiniteKeys
  <2>3. IsFiniteSet(Crossing(L))
    <3> DEFINE D == Challenged(L, Window.subnet)
    <3>1. D \in SUBSET L
      BY Zenon DEF Challenged, Since
    <3>2. IsFiniteSet(D)
      BY <3>1, FS_Subset, Zenon DEF Probed
    <3>3. Crossing(L) \in SUBSET NetsIn(D)
      BY Zenon DEF Crossing
    <3> HIDE DEF D
    <3>4. IsFiniteSet(NetsIn(D))
      BY <3>2, FiniteIps, FiniteNets, Zenon DEF NetsIn
    <3> QED
      BY <3>3, <3>4, FS_Subset, Zenon
  <2>4. DOMAIN f = Crossing(L) /\ f = [s \in Crossing(L) |-> f[s]]
    BY Zenon
  <2> HIDE DEF f
  <2>5. IsFiniteSet({f[s] : s \in Crossing(L)})
    BY <2>3, <2>4, FiniteImage
  <2> DEFINE one == {Key("ip", ip, "BLOCK") : ip \in flagged}
             two == {f[s] : s \in Crossing(L)}
  <2>6. IsFiniteSet(one) /\ IsFiniteSet(two) /\ found = one \cup two
    BY <1>1, <2>2, <2>5
  <2> HIDE DEF one, two
  <2> QED
    BY <2>6, FS_Union
<1> HIDE DEF flagged, f
<1> QED
  BY <1>1, <1>9, <1>10, OneFound, Zenon

\* What is read of the scraper fixture's addresses: enough rows, all of them 404s of a
\* user agent that no allow rule matches.
ScraperRows(L) == {x \in Since(L, Window.scraper) : x.verdict \in {"ALLOWED", "LOGGED"}}
Qualifies(L, ip) ==
    /\ ip \in IpsIn(ScraperRows(L))
    /\ Cardinality(Of(ScraperRows(L), ip)) >= Conf.minRequests
    /\ 100 * Cardinality({x \in Of(ScraperRows(L), ip) : x.notFound})
          >= Conf.ratioPct * Cardinality(Of(ScraperRows(L), ip))

LEMMA ScraperQualifies ==
    ASSUME NEW L, Probed(L), NEW ip \in {"p1.90", "p1.91"}
    PROVE  Qualifies(L, ip) /\ ~_scraper_candidate_matches_allow_rule(L, ip)
<1> DEFINE B == ScraperRows(L)
           n == Conf.minRequests + 1
           source == IF ip = "p1.90" THEN "middleware" ELSE "nginx_log"
           row(i) == Row(i, ip, "probe", FALSE, "ALLOWED", source, TRUE)
<1>1. Conf.minRequests \in Nat /\ n \in Nat /\ Conf.ratioPct \in 0..100
  BY DetectorsConstants, SMT
<1>2. ASSUME NEW i \in 1..n PROVE row(i) \in L
  <2>1. CASE ip = "p1.90"
    <3>1. row(i) = Row(i, "p1.90", "probe", FALSE, "ALLOWED", "middleware", TRUE)
      BY <2>1
    <3> HIDE DEF row
    <3> QED
      BY <3>1, Zenon DEF Probed, _build_fixture_traffic, _build_scraper_404_fixture
  <2>2. CASE ip # "p1.90"
    <3>1. row(i) = Row(i, "p1.91", "probe", FALSE, "ALLOWED", "nginx_log", TRUE)
      BY <2>2
    <3> HIDE DEF row
    <3> QED
      BY <3>1, Zenon DEF Probed, _build_fixture_traffic, _build_scraper_404_fixture
  <2> QED
    BY <2>1, <2>2, Zenon
<1>3. ASSUME NEW i \in 1..n PROVE row(i) \in B /\ row(i) \in Of(B, ip) /\ row(i).id = i /\ row(i).ip = ip
  <2>1. row(i).age = 0 /\ row(i).ip = ip /\ row(i).id = i /\ row(i).verdict = "ALLOWED"
    BY Zenon DEF Row
  <2> HIDE DEF row
  <2>2. row(i) \in Since(L, Window.scraper)
    BY <1>2, <2>1, RowRecent, Zenon
  <2> QED
    BY <2>1, <2>2, Zenon DEF Of, ScraperRows
<1>4. IsFiniteSet(Of(B, ip))
  <2>1. Of(B, ip) \in SUBSET L
    BY Zenon DEF ScraperRows, Since, Of
  <2> QED
    BY <2>1, FS_Subset, Zenon DEF Probed
<1>5. Cardinality(Of(B, ip)) \in Nat /\ Cardinality(Of(B, ip)) >= n
  <2> DEFINE g == [i \in 1..n |-> row(i)]
  <2>1. g \in [1..n -> Of(B, ip)]
    BY <1>3, Zenon
  <2>2. \A i, j \in 1..n : g[i] = g[j] => i = j
    BY <1>3, Zenon
  <2> HIDE DEF g, n, B
  <2> QED
    BY <1>1, <1>4, <2>1, <2>2, AtLeast
<1>6. Cardinality(Of(B, ip)) >= Conf.minRequests
  <2> HIDE DEF B
  <2> QED
    BY <1>1, <1>5, SMT
<1>7. ip \in IpsIn(B)
  <2>1. 1 \in 1..n
    BY <1>1, SMT
  <2>2. row(1) \in B /\ row(1).ip = ip
    BY <1>3, <2>1, Zenon
  <2> HIDE DEF row, B
  <2> QED
    BY <2>2, Zenon DEF IpsIn
<1>8. ASSUME NEW x \in L, x.ip = ip PROVE x.notFound /\ x.ua = "probe"
  <2>1. x \in _build_scraper_404_fixture
    BY <1>8, OwnRows, Zenon
  <2>2. PICK i : \/ x = Row(i, "p1.90", "probe", FALSE, "ALLOWED", "middleware", TRUE)
                 \/ x = Row(i, "p1.91", "probe", FALSE, "ALLOWED", "nginx_log", TRUE)
    BY <2>1, Zenon DEF _build_scraper_404_fixture
  <2>3. CASE x = Row(i, "p1.90", "probe", FALSE, "ALLOWED", "middleware", TRUE)
    BY <2>3, Zenon DEF Row
  <2>4. CASE x = Row(i, "p1.91", "probe", FALSE, "ALLOWED", "nginx_log", TRUE)
    BY <2>4, Zenon DEF Row
  <2> QED
    BY <2>2, <2>3, <2>4, Zenon
<1>9. {x \in Of(B, ip) : x.notFound} = Of(B, ip)
  BY <1>8, Zenon DEF ScraperRows, Since, Of
<1>10. 100 * Cardinality(Of(B, ip)) >= Conf.ratioPct * Cardinality(Of(B, ip))
  <2> HIDE DEF B
  <2> QED
    BY <1>1, <1>4, WholeShare, Zenon
<1>11. <<ip, "probe">> \notin Vetted
  BY DetectorsConstants, Zenon
<1>12. ~_scraper_candidate_matches_allow_rule(L, ip)
  BY <1>8, <1>11, Zenon DEF _scraper_candidate_matches_allow_rule, Since, Of
<1> QED
  BY <1>6, <1>7, <1>9, <1>10, <1>12, Zenon DEF Qualifies

\* Both of the scraper fixture's addresses are found, whichever source their rows have.
LEMMA ScrapersFound ==
    ASSUME NEW L, Probed(L), NEW found, found = detect_scraper_404_ratio(L, {})
    PROVE  Cardinality(found) \in Nat /\ Cardinality(found) >= 2
<1> DEFINE action == IF Conf.block404 THEN "BLOCK" ELSE "CHALLENGE"
           flagged == {ip \in {i \in IpsIn(ScraperRows(L)) : Qualifies(L, i)} :
                          ~_scraper_candidate_matches_allow_rule(L, ip)}
           g == [i \in 1..2 |-> Key("ip", IF i = 1 THEN "p1.90" ELSE "p1.91", action)]
<1>1. found = {Key("ip", ip, action) : ip \in flagged}
  BY Zenon DEF detect_scraper_404_ratio, Qualifies, ScraperRows
<1>2. "p1.90" \in flagged /\ "p1.91" \in flagged
  <2>1. ASSUME NEW ip \in {"p1.90", "p1.91"} PROVE ip \in flagged
    <3>1. Qualifies(L, ip) /\ ~_scraper_candidate_matches_allow_rule(L, ip)
      BY ScraperQualifies, Zenon
    <3>2. ip \in IpsIn(ScraperRows(L))
      BY <3>1, Zenon DEF Qualifies
    <3> QED
      BY <3>1, <3>2, Zenon
  <2> QED
    BY <2>1, Zenon
<1>3. IsFiniteSet(found)
  <2>1. ScraperRows(L) \in SUBSET L
    BY Zenon DEF ScraperRows, Since
  <2>2. IsFiniteSet(ScraperRows(L))
    BY <2>1, FS_Subset, Zenon DEF Probed
  <2>3. IsFiniteSet(IpsIn(ScraperRows(L)))
    BY <2>2, FiniteIps, Zenon
  <2>4. IsFiniteSet(flagged)
    BY <2>3, FS_Subset, Zenon
  <2> HIDE DEF flagged, action
  <2>5. IsFiniteSet({Key("ip", ip, action) : ip \in flagged})
    BY <2>4, FiniteKeys
  <2> QED
    BY <1>1, <2>5
<1> HIDE DEF flagged, action
<1>4. g \in [1..2 -> found]
  BY <1>1, <1>2, Zenon
<1>5. \A i, j \in 1..2 : g[i] = g[j] => i = j
  <2>1. \A i \in 1..2 : g[i].pattern = IF i = 1 THEN "p1.90" ELSE "p1.91"
    BY Zenon DEF Key
  <2> HIDE DEF g
  <2> QED
    BY <2>1, SMT
<1> HIDE DEF g
<1> QED
  BY <1>3, <1>4, <1>5, AtLeast

\* Unless topN other user agents have as many addresses as the spray fixture, its user
\* agent is among those looked at.
LEMMA SprayLookedAt ==
    ASSUME NEW L, IsFiniteSet(L), NEW top \in spray_uas(L),
           "spray" \in {x.ua : x \in L}, Cardinality(UserIps(L, "spray")) > Conf.sprayIps,
           Cardinality({ua \in {x.ua : x \in L} \ {"spray"} : Cardinality(UserIps(L, ua)) > Conf.sprayIps}) < Conf.topN
    PROVE  "spray" \in top
<1> DEFINE uas == {x.ua : x \in L}
           count(ua) == Cardinality(UserIps(L, ua))
           C == {ua \in uas \ {""} : count(ua) >= Conf.sprayIps}
           crowding == {ua \in uas \ {"spray"} : count(ua) > Conf.sprayIps}
<1> SUFFICES ASSUME "spray" \notin top PROVE FALSE
  OBVIOUS
<1>1. Conf.sprayIps \in Nat /\ Conf.topN \in Nat
  BY DetectorsConstants, Zenon
<1>2. \A ua : count(ua) \in Nat
  <2> TAKE ua
  <2>1. Unreferred(L, ua) \in SUBSET L
    BY Zenon DEF Unreferred, Since
  <2>2. IsFiniteSet(UserIps(L, ua))
    BY <2>1, FS_Subset, FiniteIps, Zenon DEF UserIps
  <2> QED
    BY <2>2, FS_CardinalityType, Zenon
<1>3. /\ top \in SUBSET C /\ (Cardinality(top) < Conf.topN => top = C)
      /\ \A u \in top, v \in C \ top : count(u) >= count(v)
  BY Zenon DEF spray_uas
<1>4. IsFiniteSet(uas)
  BY FiniteUas, Zenon
<1>5. Cardinality(crowding) < Conf.topN
  OBVIOUS
<1>6. count("spray") > Conf.sprayIps /\ "spray" \in uas
  OBVIOUS
<1> HIDE DEF count, uas
<1>7. "spray" \in C
  <2>1. count("spray") >= Conf.sprayIps
    BY <1>1, <1>2, <1>6, SMT
  <2> QED
    BY <1>6, <2>1, Zenon
<1>8. top \in SUBSET crowding
  <2>1. ASSUME NEW u \in top PROVE u \in crowding
    <3>1. u \in uas /\ u # "spray" /\ count(u) >= count("spray")
      BY <1>3, <1>7, Zenon
    <3>2. count(u) > Conf.sprayIps
      BY <1>1, <1>2, <1>6, <3>1, SMT
    <3> QED
      BY <3>1, <3>2, Zenon
  <2> QED
    BY <2>1, Zenon
<1>9. IsFiniteSet(crowding)
  BY <1>4, FS_Subset, Zenon
<1> HIDE DEF crowding, C
<1>10. Cardinality(top) < Conf.topN
  <2>1. IsFiniteSet(top) /\ Cardinality(top) <= Cardinality(crowding)
    BY <1>8, <1>9, FS_Subset, Zenon
  <2>2. Cardinality(top) \in Nat /\ Cardinality(crowding) \in Nat
    BY <1>9, <2>1, FS_CardinalityType, Zenon
  <2> QED
    BY <1>1, <1>5, <2>1, <2>2, SMT
<1> QED
  BY <1>3, <1>7, <1>10, Zenon

\* The addresses the spray detector suspects of a user agent.
Suspicious(L, ua) ==
    {ip \in UserIps(L, ua) : Cardinality(Of(Unreferred(L, ua), ip)) <= Conf.sprayPerIp}

\* Every address of the spray fixture is suspected: it has no other row.
LEMMA SpraySuspected ==
    ASSUME NEW L, Probed(L), NEW i \in 1..Conf.sprayIps + 1
    PROVE  /\ SprayIps[i] \in Suspicious(L, "spray") /\ SprayIps[i] \in UserIps(L, "spray")
           /\ SprayIps[i] \in TestNet3 /\ "spray" \in {x.ua : x \in L}
<1> DEFINE row(j) == Row(j, SprayIps[j], "spray", TRUE, "ALLOWED", "middleware", FALSE)
           mine == Of(Unreferred(L, "spray"), SprayIps[i])
<1>1. row(i) \in L
  BY Zenon DEF Probed, _build_fixture_traffic, _build_cloud_spray_fixture
<1>2. row(i).age = 0 /\ row(i).ip = SprayIps[i] /\ row(i).ua = "spray" /\ row(i).referer = "none"
  BY Zenon DEF Row
<1>3. i \in DOMAIN SprayIps /\ SprayIps[i] \in TestNet3
  BY DetectorsConstants, Zenon DEF TestNet3
<1>4. ASSUME NEW x \in mine PROVE x = row(i)
  <2>1. x \in L /\ x.ip = SprayIps[i]
    BY Zenon DEF Of, Unreferred, Since
  <2>2. x \in _build_cloud_spray_fixture
    BY <1>3, <2>1, OwnRows, Zenon
  <2>3. PICK j \in 1..Conf.sprayIps + 1 : x = row(j)
    BY <2>2, Zenon DEF _build_cloud_spray_fixture
  <2>4. x.ip = SprayIps[j] /\ j \in DOMAIN SprayIps
    BY <2>3, DetectorsConstants, Zenon DEF Row
  <2>5. i = j
    BY <1>3, <2>1, <2>4, DetectorsConstants, Zenon
  <2> QED
    BY <2>3, <2>5, Zenon
<1> HIDE DEF row
<1>5. row(i) \in Unreferred(L, "spray")
  <2>1. row(i) \in Since(L, Window.spray)
    BY <1>1, <1>2, RowRecent, Zenon
  <2> QED
    BY <1>2, <2>1, Zenon DEF Unreferred
<1>6. mine = {row(i)}
  <2>1. row(i) \in mine
    BY <1>2, <1>5, Zenon DEF Of
  <2> QED
    BY <1>4, <2>1, Zenon
<1>7. Cardinality(mine) <= Conf.sprayPerIp
  <2>1. Cardinality(mine) = 1
    BY <1>6, FS_Singleton
  <2>2. Conf.sprayPerIp \in Nat \ {0}
    BY DetectorsConstants, Zenon
  <2> HIDE DEF mine
  <2> QED
    BY <2>1, <2>2, SMT
<1>8. SprayIps[i] \in UserIps(L, "spray")
  BY <1>2, <1>5, Zenon DEF UserIps, IpsIn
<1>9. "spray" \in {x.ua : x \in L}
  BY <1>1, <1>2, Zenon
<1> QED
  BY <1>3, <1>7, <1>8, <1>9, Zenon DEF Suspicious

\* The spray fixture's user agent has more addresses than the threshold, and so many of
\* them suspicious; they lie in one network, which is found.
LEMMA SprayCounted ==
    ASSUME NEW L, Probed(L)
    PROVE  /\ Cardinality(UserIps(L, "spray")) > Conf.sprayIps
           /\ Cardinality(Suspicious(L, "spray")) >= Conf.sprayIps
           /\ Cardinality({ip \in Suspicious(L, "spray") : _get_subnet_prefix(ip) = "p3"}) >= 2
<1> DEFINE n == Conf.sprayIps + 1
           users == UserIps(L, "spray")
           suspects == Suspicious(L, "spray")
           near == {ip \in suspects : _get_subnet_prefix(ip) = "p3"}
           g == [i \in 1..n |-> SprayIps[i]]
<1>1. Conf.sprayIps \in Nat \ {0} /\ n \in Nat
  BY DetectorsConstants, SMT
<1>2. g \in [1..n -> users] /\ g \in [1..n -> suspects] /\ g \in [1..n -> near]
  <2>1. ASSUME NEW i \in 1..n PROVE g[i] \in users /\ g[i] \in suspects /\ g[i] \in near
    BY SpraySuspected, FixtureNets, Zenon
  <2> QED
    BY <2>1, Zenon
<1>3. \A i, j \in 1..n : g[i] = g[j] => i = j
  <2>1. 1..n \subseteq DOMAIN SprayIps
    BY DetectorsConstants, Zenon
  <2> QED
    BY <2>1, DetectorsConstants, Zenon
<1>4. IsFiniteSet(users) /\ IsFiniteSet(suspects) /\ IsFiniteSet(near)
  <2>1. Unreferred(L, "spray") \in SUBSET L
    BY Zenon DEF Unreferred, Since
  <2>2. IsFiniteSet(users)
    BY <2>1, FS_Subset, FiniteIps, Zenon DEF UserIps, Probed
  <2>3. suspects \in SUBSET users /\ near \in SUBSET users
    BY Zenon DEF Suspicious
  <2> QED
    BY <2>2, <2>3, FS_Subset, Zenon
<1> HIDE DEF g, users, suspects, near
<1>5. /\ Cardinality(users) \in Nat /\ Cardinality(users) >= n
      /\ Cardinality(suspects) \in Nat /\ Cardinality(suspects) >= n
      /\ Cardinality(near) \in Nat /\ Cardinality(near) >= n
  <2> HIDE DEF n
  <2> QED
    BY <1>1, <1>2, <1>3, <1>4, AtLeast
<1>6. Cardinality(users) > Conf.sprayIps /\ Cardinality(suspects) >= Conf.sprayIps /\ Cardinality(near) >= 2
  BY <1>1, <1>5, SMT
<1> QED
  BY <1>6 DEF users, suspects, near

LEMMA SprayFound ==
    ASSUME NEW L, Probed(L), NEW top \in spray_uas(L), "spray" \in top,
           NEW found, found = detect_cloud_spray(L, top)
    PROVE  Cardinality(found) \in Nat /\ Cardinality(found) >= 1
<1> DEFINE spraying == {ua \in top : Cardinality(Suspicious(L, ua)) >= Conf.sprayIps}
           Near(ua, s) == {ip \in Suspicious(L, ua) : _get_subnet_prefix(ip) = s}
           Clustered(ua) == {s \in {_get_subnet_prefix(ip) : ip \in Suspicious(L, ua)} : Cardinality(Near(ua, s)) >= 2}
           nets == UNION {Clustered(ua) : ua \in spraying}
           named == IF Conf.uaRule THEN {Key("ua", ua, "CHALLENGE") : ua \in spraying} ELSE {}
           placed == {Key("cidr", s, "CHALLENGE") : s \in nets}
<1>1. found = named \cup placed
  BY Zenon DEF detect_cloud_spray, Suspicious
<1>2. "p3" \in nets
  <2>1. "spray" \in spraying
    BY SprayCounted, Zenon
  <2>2. 1 \in 1..Conf.sprayIps + 1
    BY DetectorsConstants, SMT
  <2>3. SprayIps[1] \in Suspicious(L, "spray") /\ _get_subnet_prefix(SprayIps[1]) = "p3"
    BY <2>2, SpraySuspected, FixtureNets, Zenon
  <2>4. "p3" \in Clustered("spray")
    BY <2>3, SprayCounted, Zenon
  <2> HIDE DEF Clustered, spraying
  <2> QED
    BY <2>1, <2>4, Zenon
<1>3. Key("cidr", "p3", "CHALLENGE") \in found
  <2> HIDE DEF nets, named
  <2> QED
    BY <1>1, <1>2, Zenon
<1>4. IsFiniteSet(named)
  <2>1. IsFiniteSet({x.ua : x \in L})
    BY FiniteUas, Zenon DEF Probed
  <2>2. spraying \in SUBSET {x.ua : x \in L}
    BY Zenon DEF spray_uas
  <2>3. IsFiniteSet(spraying)
    BY <2>1, <2>2, FS_Subset, Zenon
  <2> HIDE DEF spraying
  <2>4. IsFiniteSet({Key("ua", ua, "CHALLENGE") : ua \in spraying})
    BY <2>3, FiniteKeys
  <2> QED
    BY <2>4, FS_EmptySet, Zenon
<1>5. IsFiniteSet(placed)
  <2>1. IsFiniteSet(NetsIn(L))
    BY FiniteIps, FiniteNets, Zenon DEF NetsIn, Probed
  <2>2. ASSUME NEW ua PROVE Suspicious(L, ua) \subseteq IpsIn(L)
    BY Zenon DEF Suspicious, UserIps, IpsIn, Unreferred, Since
  <2>3. ASSUME NEW s \in nets PROVE s \in NetsIn(L)
    <3>1. PICK ua \in spraying : s \in Clustered(ua)
      BY Zenon
    <3>2. PICK ip \in Suspicious(L, ua) : s = _get_subnet_prefix(ip)
      BY <3>1, Zenon
    <3> QED
      BY <2>2, <3>2, Zenon DEF NetsIn
  <2> HIDE DEF nets
  <2>4. IsFiniteSet(nets)
    BY <2>1, <2>3, FS_Subset, Zenon
  <2> QED
    BY <2>4, FiniteKeys
<1> HIDE DEF named, placed
<1>6. IsFiniteSet(found)
  BY <1>1, <1>4, <1>5, FS_Union
<1> QED
  BY <1>3, <1>6, OneFound, Zenon

\* The fixtures are finitely many rows.
LEMMA FixturesFinite == IsFiniteSet(_build_fixture_traffic)
<1>1. ASSUME NEW n \in Nat, NEW h, DOMAIN h = 1..n, h = [i \in 1..n |-> h[i]]
      PROVE  IsFiniteSet({h[i] : i \in 1..n})
  <2>1. IsFiniteSet(1..n)
    BY FS_Interval, SMT
  <2> QED
    BY <1>1, <2>1, FiniteImage
<1>2. {Conf.distinctUas + 1, Conf.burstMin + 1, Conf.minChallenged + 1, Conf.sprayIps + 1, Conf.minRequests + 1}
         \subseteq Nat
  BY DetectorsConstants, SMTT(60)
<1>3. IsFiniteSet(_build_ua_rotation_fixture)
  <2> DEFINE n == Conf.distinctUas + 1
             h == [i \in 1..n |-> Row(i, "p1.10", ProbeUas[i], TRUE, "ALLOWED", "middleware", FALSE)]
  <2>1. n \in Nat /\ DOMAIN h = 1..n /\ h = [i \in 1..n |-> h[i]] /\ _build_ua_rotation_fixture = {h[i] : i \in 1..n}
    BY <1>2, Zenon DEF _build_ua_rotation_fixture
  <2> HIDE DEF n, h
  <2> QED
    BY <1>1, <2>1
<1>4. IsFiniteSet(_build_subnet_burst_fixture)
  <2> DEFINE n == Conf.burstMin + 1
             h == [i \in 1..n |-> Row(i, BurstIp(i), "probe", TRUE, "ALLOWED", "middleware", FALSE)]
  <2>1. n \in Nat /\ DOMAIN h = 1..n /\ h = [i \in 1..n |-> h[i]] /\ _build_subnet_burst_fixture = {h[i] : i \in 1..n}
    BY <1>2, Zenon DEF _build_subnet_burst_fixture
  <2> HIDE DEF n, h
  <2> QED
    BY <1>1, <2>1
<1>5. IsFiniteSet(_build_unsolved_challenge_fixture)
  <2> DEFINE n == Conf.minChallenged + 1
             h == [i \in 1..n |-> Row(i, "p1.50", "probe", FALSE, "CHALLENGED", "middleware", FALSE)]
  <2>1. n \in Nat /\ DOMAIN h = 1..n /\ h = [i \in 1..n |-> h[i]] /\ _build_unsolved_challenge_fixture = {h[i] : i \in 1..n}
    BY <1>2, Zenon DEF _build_unsolved_challenge_fixture
  <2> HIDE DEF n, h
  <2> QED
    BY <1>1, <2>1
<1>6. IsFiniteSet(_build_cloud_spray_fixture)
  <2> DEFINE n == Conf.sprayIps + 1
             h == [i \in 1..n |-> Row(i, SprayIps[i], "spray", TRUE, "ALLOWED", "middleware", FALSE)]
  <2>1. n \in Nat /\ DOMAIN h = 1..n /\ h = [i \in 1..n |-> h[i]] /\ _build_cloud_spray_fixture = {h[i] : i \in 1..n}
    BY <1>2, Zenon DEF _build_cloud_spray_fixture
  <2> HIDE DEF n, h
  <2> QED
    BY <1>1, <2>1
<1>7. IsFiniteSet(_build_scraper_404_fixture)
  <2> DEFINE n == Conf.minRequests + 1
             h == [i \in 1..n |-> Row(i, "p1.90", "probe", FALSE, "ALLOWED", "middleware", TRUE)]
             k == [i \in 1..n |-> Row(i, "p1.91", "probe", FALSE, "ALLOWED", "nginx_log", TRUE)]
             one == {h[i] : i \in 1..n}
             two == {k[i] : i \in 1..n}
  <2>1. /\ n \in Nat /\ DOMAIN h = 1..n /\ h = [i \in 1..n |-> h[i]]
        /\ DOMAIN k = 1..n /\ k = [i \in 1..n |-> k[i]]
        /\ _build_scraper_404_fixture = one \cup two
    BY <1>2, Zenon DEF _build_scraper_404_fixture
  <2> HIDE DEF n, h, k
  <2>2. IsFiniteSet(one) /\ IsFiniteSet(two)
    BY <1>1, <2>1
  <2> HIDE DEF one, two
  <2> QED
    BY <2>1, <2>2, FS_Union
<1> QED
  BY <1>3, <1>4, <1>5, <1>6, <1>7, FS_Union, Zenon DEF _build_fixture_traffic

\* The request log is finite, and its rows are of clients.
LogsInv == IsFiniteSet(logs) /\ \A x \in logs : "ip" \in DOMAIN x /\ x.ip \in Ips

LEMMA LogsStart == DetectorsInit => LogsInv
BY FS_EmptySet, Zenon DEF DetectorsInit, LogsInv

\* A row changed in another field keeps its address.
LEMMA AddressStays ==
    ASSUME NEW x, "ip" \in DOMAIN x, x.ip \in Ips, NEW v
    PROVE  /\ "ip" \in DOMAIN [x EXCEPT !.id = v] /\ [x EXCEPT !.id = v].ip \in Ips
           /\ "ip" \in DOMAIN [x EXCEPT !.age = v] /\ [x EXCEPT !.age = v].ip \in Ips
BY SMT

LEMMA LogsStep == LogsInv /\ [DetectorsNext]_detectorVars => LogsInv'
<1> SUFFICES ASSUME LogsInv, [DetectorsNext]_detectorVars PROVE LogsInv'
  OBVIOUS
<1>1. ASSUME logs' = logs PROVE LogsInv'
  BY <1>1, Zenon DEF LogsInv
<1>2. ASSUME NEW q \in Requests, LogRequest(q) PROVE LogsInv'
  <2>1. PICK n : logs' = logs \cup {[q EXCEPT !.id = n]}
    BY <1>2, Zenon DEF LogRequest
  <2>2. "ip" \in DOMAIN q /\ q.ip \in Ips
    BY DetectorsConstants, Zenon DEF Ips
  <2>3. "ip" \in DOMAIN [q EXCEPT !.id = n] /\ [q EXCEPT !.id = n].ip \in Ips
    BY <2>2, AddressStays, Zenon
  <2>4. IsFiniteSet(logs')
    BY <2>1, FS_AddElement, Zenon DEF LogsInv
  <2> QED
    BY <2>1, <2>3, <2>4, Zenon DEF LogsInv
<1>3. ASSUME Tick PROVE LogsInv'
  <2> DEFINE S == {y \in logs : y.age < Oldest}
             f == [x \in S |-> [x EXCEPT !.age = @ + 1]]
  <2>1. logs' = {f[x] : x \in S}
    BY <1>3, Zenon DEF Tick
  <2>2. IsFiniteSet(S)
    BY FS_Subset, Zenon DEF LogsInv
  <2>3. ASSUME NEW x \in S PROVE "ip" \in DOMAIN f[x] /\ f[x].ip \in Ips
    <3>1. f[x] = [x EXCEPT !.age = x.age + 1] /\ "ip" \in DOMAIN x /\ x.ip \in Ips
      BY Zenon DEF LogsInv
    <3> HIDE DEF f
    <3> QED
      BY <3>1, AddressStays, Zenon
  <2>4. DOMAIN f = S /\ f = [x \in S |-> f[x]]
    BY Zenon
  <2> HIDE DEF S, f
  <2>5. IsFiniteSet(logs')
    BY <2>1, <2>2, <2>4, FiniteImage
  <2> QED
    BY <2>1, <2>3, <2>5, Zenon DEF LogsInv
<1>4. ASSUME NEW r \in Runners, run_all_detectors(r) \/ Abort(r) PROVE logs' = logs
  BY <1>4, Zenon DEF run_all_detectors, Abort
<1>5. ASSUME NEW ip \in Ips, Solve(ip) PROVE logs' = logs
  BY <1>5, Zenon DEF Solve
<1>6. ASSUME NEW k, Reject(k) \/ Expire(k) \/ Withdraw(k) \/ AddByHand(k) PROVE logs' = logs
  BY <1>6, Zenon DEF Reject, Expire, Withdraw, AddByHand, Switch, Edit
<1>7. UNCHANGED detectorVars => logs' = logs
  BY Zenon DEF detectorVars
<1> QED
  BY <1>1, <1>2, <1>3, <1>4, <1>5, <1>6, <1>7, Zenon DEF DetectorsNext

\* The fixtures stand out in every such log.
LEMMA ProbeSound == LogsInv => ProbeTruthful
<1> SUFFICES ASSUME LogsInv PROVE ProbeTruthful
  OBVIOUS
<1> DEFINE L == logs \cup _build_fixture_traffic
           reps == Reputations \cup _build_challenge_farm_fixture
           crowding == {ua \in {x.ua : x \in L} \ {"spray"} : Cardinality(UserIps(L, ua)) > Conf.sprayIps}
<1>1. Probed(L)
  <2>1. IsFiniteSet(L)
    BY FixturesFinite, FS_Union, Zenon DEF LogsInv
  <2>2. \A x \in logs : x.ip \notin ProbeIps
    BY DetectorsConstants, Zenon DEF LogsInv, ProbeIps
  <2> QED
    BY <2>1, <2>2, Zenon DEF Probed
<1> HIDE DEF L
<1>2. ASSUME NEW d \in DETECTOR_NAMES, NEW found \in Findings(d, L, reps, rules, {{}}),
             Cardinality(found) < _MIN_RULES_REPORTED(d)
      PROVE  d = "detect_cloud_spray" /\ ~(Cardinality(crowding) < Conf.topN)
  <2>1. d \in {"detect_ua_rotation", "detect_subnet_burst", "detect_challenge_farms",
               "detect_unsolved_challenges", "detect_cloud_spray", "detect_scraper_404_ratio"}
    <3>1. PICK i \in 1..6 : d = Order[i]
      BY Zenon DEF DETECTOR_NAMES
    <3>2. i - 1 \in 0..5 /\ (i - 1) + 1 = i
      BY SMT
    <3> QED
      BY <3>1, <3>2, OrderOfPass, Zenon
  <2>2. ASSUME d # "detect_scraper_404_ratio", Cardinality(found) \in Nat, Cardinality(found) >= 1 PROVE FALSE
    <3>1. Cardinality(found) < 1
      BY <1>2, <2>2, Zenon DEF _MIN_RULES_REPORTED
    <3> QED
      BY <2>2, <3>1, SMT
  <2>3. CASE d = "detect_ua_rotation"
    <3>1. found = detect_ua_rotation(L)
      BY <2>3, Zenon DEF Findings
    <3> QED
      BY <1>1, <2>2, <2>3, <3>1, RotationFound
  <2>4. CASE d = "detect_subnet_burst"
    <3>1. found = detect_subnet_burst(L)
      BY <2>4, Zenon DEF Findings
    <3> QED
      BY <1>1, <2>2, <2>4, <3>1, BurstFound
  <2>5. CASE d = "detect_challenge_farms"
    <3>1. found = detect_challenge_farms(reps)
      BY <2>5, Zenon DEF Findings
    <3> QED
      BY <2>2, <2>5, <3>1, FarmFound
  <2>6. CASE d = "detect_unsolved_challenges"
    <3>1. found = detect_unsolved_challenges(L, rules)
      BY <2>6, Zenon DEF Findings
    <3> QED
      BY <1>1, <2>2, <2>6, <3>1, UnsolvedFound
  <2>7. CASE d = "detect_scraper_404_ratio"
    <3>1. found = detect_scraper_404_ratio(L, {})
      BY <2>7, Zenon DEF Findings
    <3>2. Cardinality(found) \in Nat /\ Cardinality(found) >= 2
      BY <1>1, <3>1, ScrapersFound
    <3>3. Cardinality(found) < 2
      BY <1>2, <2>7, Zenon DEF _MIN_RULES_REPORTED
    <3> QED
      BY <3>2, <3>3, SMT
  <2>8. CASE d = "detect_cloud_spray"
    <3>1. PICK top \in spray_uas(L) : found = detect_cloud_spray(L, top)
      BY <2>8, Zenon DEF Findings
    <3>2. ASSUME Cardinality(crowding) < Conf.topN PROVE FALSE
      <4>1. 1 \in 1..Conf.sprayIps + 1
        BY DetectorsConstants, SMTT(60)
      <4>2. "spray" \in {x.ua : x \in L} /\ Cardinality(UserIps(L, "spray")) > Conf.sprayIps
        BY <1>1, <4>1, SpraySuspected, SprayCounted, Zenon
      <4>3. "spray" \in top
        BY <1>1, <3>2, <4>2, SprayLookedAt, Zenon DEF Probed
      <4>4. Cardinality(found) \in Nat /\ Cardinality(found) >= 1
        BY <1>1, <3>1, <4>3, SprayFound
      <4>5. d # "detect_scraper_404_ratio"
        BY <2>8
      <4> QED
        BY <2>2, <4>4, <4>5
    <3> QED
      BY <2>8, <3>2, Zenon
  <2> QED
    BY <2>1, <2>3, <2>4, <2>5, <2>6, <2>7, <2>8, Zenon
<1>3. ASSUME NEW d \in run_detector_probe({{}})
      PROVE  d = "detect_cloud_spray" /\ ~(Cardinality(crowding) < Conf.topN)
  <2>1. PICK found \in Findings(d, L, reps, rules, {{}}) : Cardinality(found) < _MIN_RULES_REPORTED(d)
    BY Zenon DEF run_detector_probe, L, Counted
  <2>2. d \in DETECTOR_NAMES
    BY Zenon DEF run_detector_probe
  <2> HIDE DEF reps, crowding
  <2> QED
    BY <1>2, <2>1, <2>2, Zenon
<1> QED
  BY <1>3, Zenon DEF ProbeTruthful, L

\* The probe raises no false alarm: for every log, every set of rules and every setting of
\* the thresholds, no detector is reported silent as long as no check for an exemption
\* fails, except the spray detector when topN other user agents have as many addresses as
\* its fixture.
THEOREM ProbeNeverMisled == DetectorsSpec => []ProbeTruthful
BY LogsStart, LogsStep, ProbeSound, PTL DEF DetectorsSpec

----------------------------------------------------------------------------
(* The jobs side by side *)

\* MCJobs only puts the jobs' specifications side by side: what is proved of a job's own
\* specification holds in the run.
LEMMA JobsKeepApart == JobsSpec => DetectorsSpec /\ BlocklistSpec /\ FeedSpec
<1>1. JobsInit => DetectorsInit /\ BlocklistInit /\ FeedInit
  BY Zenon DEF JobsInit
<1>2. [JobsNext]_jobVars => [DetectorsNext]_detectorVars
  BY Zenon DEF JobsNext, jobVars
<1>3. [JobsNext]_jobVars => [BlocklistNext]_blocklistVars
  BY Zenon DEF JobsNext, jobVars
<1>4. [JobsNext]_jobVars => [FeedNext]_feedVars
  BY Zenon DEF JobsNext, jobVars
<1> QED
  BY <1>1, <1>2, <1>3, <1>4, PTL DEF JobsSpec, DetectorsSpec, BlocklistSpec, FeedSpec

\* The probe reports no healthy detector silent while passes of the detectors run.
THEOREM ProbeAlwaysRight == JobsSpec => []ProbeRight
<1>1. ProbeTruthful => ProbeRight
  BY Zenon DEF ProbeRight
<1> QED BY <1>1, JobsKeepApart, ProbeNeverMisled, PTL
=============================================================================
