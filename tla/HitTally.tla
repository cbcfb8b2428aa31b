----------------------------- MODULE HitTally ------------------------------
(***************************************************************************)
(* What the hit counters of django-waf promise to whoever reads            *)
(* BlockRule.hit_count, without saying where a hit waits meanwhile: a hit  *)
(* is made once, for one rule; then it is counted in the database once, or *)
(* given up once, and never the one after the other.                       *)
(***************************************************************************)
CONSTANTS Rules,  \* block rules
          Hits    \* hits that traffic may make

VARIABLES made,     \* per rule, the hits that were recorded
          counted,  \* per rule, the hits in BlockRule.hit_count
          given_up  \* per rule, the hits that were dropped

tally == <<made, counted, given_up>>

\* The hits of rule k whose end is open.
Open(k) == made[k] \ (counted[k] \cup given_up[k])

Init ==
    /\ made = [k \in Rules |-> {}]
    /\ counted = [k \in Rules |-> {}]
    /\ given_up = [k \in Rules |-> {}]

Make(k, h) ==
    /\ \A j \in Rules : h \notin made[j]
    /\ made' = [made EXCEPT ![k] = @ \cup {h}]
    /\ UNCHANGED <<counted, given_up>>

\* One UPDATE adds the hits that waited for one rule.
Count(k) ==
    /\ \E S \in SUBSET Open(k) : counted' = [counted EXCEPT ![k] = @ \cup S]
    /\ UNCHANGED <<made, given_up>>

\* An error or a crash costs hits of any number of rules.
GiveUp ==
    /\ \E D \in [Rules -> SUBSET UNION {Open(k) : k \in Rules}] :
          /\ \A k \in Rules : D[k] \subseteq Open(k)
          /\ given_up' = [k \in Rules |-> given_up[k] \cup D[k]]
    /\ UNCHANGED <<made, counted>>

Next ==
    \/ \E k \in Rules, h \in Hits : Make(k, h)
    \/ \E k \in Rules : Count(k)
    \/ GiveUp

Spec == Init /\ [][Next]_tally
============================================================================
