----------------------------- MODULE MCRequests -----------------------------
(***************************************************************************)
(* The services that a request goes through, and the task that records     *)
(* what nginx logged of it, which share no state with one another, side by *)
(* side: a behaviour is one of the service that focus names.               *)
(***************************************************************************)
EXTENDS Evaluation, RateLimiter, Gates, AccessLog

VARIABLE focus

requestVars == <<focus, evaluationVars, limiterVars, gateVars, logVars>>

Interchangeable == Permutations(Threads)

----------------------------------------------------------------------------
RequestsBlockRules == <<[id |-> "manual", action |-> "challenge"], [id |-> "auto", action |-> "block"]>>

Limit(key, max, methods) == [key |-> key, max |-> max, window |-> Second, extra |-> 1, methods |-> methods]

RequestsRoutes == {[method |-> "POST", limits |-> <<Limit("login", 1, {"POST"})>>]}
RequestsWindows == <<Limit("1s", 2, {})>>
RequestsVerify == Limit("verify", 2, {})

\* Bound: the keys of a path and of the verification are not both used in a behaviour.
OneLimit == checked["login"] = {} \/ checked["verify"] = {}

RequestsHeaders == {<<>>, <<"a">>, <<"b">>, <<"unknown">>, <<"b", "p">>}

Setting(gate, password, gateTTL, trust, level, trustTTL, socket, legacy) ==
    [gate |-> gate, password |-> password, gateTTL |-> gateTTL, trust |-> trust, level |-> level,
     trustTTL |-> trustTTL, socket |-> socket, legacy |-> legacy, userFirst |-> legacy]

RequestsSettings ==
    {Setting(TRUE, "old", 2, TRUE, "authenticated", 2, TRUE, FALSE),
     Setting(TRUE, "new", 1, TRUE, "staff", 1, FALSE, FALSE),
     Setting(TRUE, "", 2, FALSE, "staff", 2, TRUE, FALSE),
     Setting(FALSE, "", 1, TRUE, "staf", 2, FALSE, TRUE)}

RequestsLines ==
    {[id |-> "a", matches |-> TRUE, ip |-> TRUE, status |-> 403, challenge |-> FALSE, time |-> 1]}

----------------------------------------------------------------------------
RequestsInit ==
    /\ focus \in {"evaluation", "limiter", "gates", "log"}
    /\ EvaluationInit /\ LimiterInit /\ GatesInit /\ LogInit
    /\ focus # "evaluation" => vouched
    /\ focus # "gates" => ~settings.gate /\ where = "a"

RequestsNext ==
    \/ focus = "evaluation" /\ EvaluationNext /\ UNCHANGED <<focus, limiterVars, gateVars, logVars>>
    \/ focus = "limiter" /\ LimiterNext /\ OneLimit' /\ UNCHANGED <<focus, evaluationVars, gateVars, logVars>>
    \/ focus = "gates" /\ GatesNext /\ UNCHANGED <<focus, evaluationVars, limiterVars, logVars>>
    \/ focus = "log" /\ LogNext /\ UNCHANGED <<focus, evaluationVars, limiterVars, gateVars>>

RequestsSpec == RequestsInit /\ [][RequestsNext]_requestVars
=============================================================================
