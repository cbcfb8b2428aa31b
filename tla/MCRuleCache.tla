---------------------------- MODULE MCRuleCache ----------------------------
(* Instances of RuleCache for TLC. *)
EXTENDS RuleCache, TLC

CONSTANTS t1, t2, p1, p2

\* One synchronous worker process, or one per thread.
OneWorker == t1 :> p1
OneThreadEach == (t1 :> p1) @@ (t2 :> p2)

\* Workers are interchangeable, each with its own thread.
Workers == {(t1 :> t2) @@ (t2 :> t1) @@ (p1 :> p2) @@ (p2 :> p1)}
============================================================================
