------------------------------- MODULE MCJobs -------------------------------
(***************************************************************************)
(* Scheduled jobs that share no state with one another, side by side: a    *)
(* behaviour is one of the job that focus names.                           *)
(***************************************************************************)
EXTENDS Detectors, Blocklist, ThreatFeed

VARIABLE focus

jobVars == <<focus, detectorVars, blocklistVars, feedVars>>

----------------------------------------------------------------------------
(* Detectors: two addresses of one subnet are challenged; that is over the *)
(* floors of the burst, the unsolved-challenge and the spray detectors     *)
(* alike.                                                                  *)

JobsNet == [ip \in {"s.1", "s.2"} |-> "s"]
JobsRequests == {Row(1, ip, "u", FALSE, "CHALLENGED", "middleware", FALSE) : ip \in {"s.1", "s.2"}}
JobsProbeUas == <<"ua1", "ua2">>
JobsSprayIps == <<"p3.20", "p3.21", "p3.22">>
JobsHandMade == {Key("ip", "p1.10", "CHALLENGE"), Key("cidr", "s", "BLOCK")}
JobsWindow ==
    [w \in {"ua", "burst", "spray", "unsolved", "subnet", "scraper", "farms", "solve"} |->
        IF w = "subnet" THEN 1 ELSE 0]
JobsConf ==
    [distinctUas |-> 1, burstMin |-> 2, minChallenged |-> 3, refererPct |-> 80,
     subnetChallenged |-> 2, subnetIps |-> 2, sprayIps |-> 2, sprayPerIp |-> 1, topN |-> 2,
     uaRule |-> FALSE, minRequests |-> 2, ratioPct |-> 85, block404 |-> FALSE,
     quarantine |-> FALSE, observeOnly |-> {}]

(* Blocklist: a rule that nginx can enforce, one it cannot parse, and one  *)
(* that is not for it.                                                     *)

JobsRules == {[type |-> "ip", action |-> "block", key |-> "k1"],
              [type |-> "ua", action |-> "throttle", key |-> "bad"],
              [type |-> "ip", action |-> "challenge", key |-> "k1"]}

(* ThreatFeed *)

Entry(kind, confidence, expires) ==
    [kind |-> kind, key |-> "k", confidence |-> confidence, expires |-> expires,
     known |-> TRUE, safe |-> TRUE, rdns |-> TRUE]

JobsFeeds == {<<Entry("block", 90, 1)>>, <<Entry("allow", 90, 0), Entry("block", 10, 0)>>}

----------------------------------------------------------------------------
JobsInit ==
    /\ focus \in {"detectors", "blocklist", "feed"}
    /\ DetectorsInit /\ BlocklistInit /\ FeedInit
    /\ focus # "feed" => Len(feed) = 2

JobsNext ==
    \/ focus = "detectors" /\ DetectorsNext /\ UNCHANGED <<focus, blocklistVars, feedVars>>
    \/ focus = "blocklist" /\ BlocklistNext /\ UNCHANGED <<focus, detectorVars, feedVars>>
    \/ focus = "feed" /\ FeedNext /\ UNCHANGED <<focus, detectorVars, blocklistVars>>

\* The jobs are started again and again, and go on once started.
JobsSpec ==
    /\ JobsInit /\ [][JobsNext]_jobVars
    /\ \A r \in Runners :
          WF_jobVars(focus = "detectors" /\ run_all_detectors(r) /\ UNCHANGED <<focus, blocklistVars, feedVars>>)
    /\ \A r \in Runs :
          WF_jobVars(focus = "blocklist" /\ Run(r) /\ UNCHANGED <<focus, detectorVars, feedVars>>)
    /\ \A s \in Syncs :
          WF_jobVars(focus = "feed" /\ Sync(s) /\ UNCHANGED <<focus, detectorVars, blocklistVars>>)

----------------------------------------------------------------------------
(* The other properties are those of the jobs' modules.                    *)

\* The probe reports no healthy detector silent (ProbeTruthful), where passes of the
\* detectors are the job that runs.
ProbeRight == focus = "detectors" => ProbeTruthful

\* nginx comes to enforce the rules that are active (NginxCatchesUp), where the blocklist
\* is the job that runs.
EnforcedInTheEnd == focus = "blocklist" => NginxCatchesUp
=============================================================================
