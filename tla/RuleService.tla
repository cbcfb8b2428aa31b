---------------------------- MODULE RuleService ----------------------------
(***************************************************************************)
(* What the compiled-rule cache of django-waf promises to the request      *)
(* path, without saying how: a request that starts evaluating after a rule *)
(* change was announced is evaluated against rules that include it.        *)
(*                                                                         *)
(* A rule table's contents are abstracted to a stamp, the number of        *)
(* committed writes it reflects; a snapshot gives a stamp to each table.   *)
(***************************************************************************)
EXTENDS Integers

CONSTANTS Threads,    \* request threads
          Tables,     \* the rule tables, BlockRule and AllowRule
          MaxCommits  \* bound: committed writes

VARIABLES db,         \* committed contents of the tables
          published,  \* contents when the last change was announced
          floor,      \* per thread, what its load has to reflect
          served      \* per thread, what its last load returned

svars == <<db, published, floor, served>>

Snapshots == [Tables -> 0..MaxCommits]

\* Not a snapshot: no load in progress, or a load that failed.
None == [t \in Tables |-> -1]

\* s reflects at least everything r does.
Covers(s, r) == \A x \in Tables : r[x] <= s[x]

Init ==
    /\ db = [x \in Tables |-> 0]
    /\ published = [x \in Tables |-> 0]
    /\ floor = [t \in Threads |-> None]
    /\ served = [t \in Threads |-> None]

Commit ==
    /\ db' \in Snapshots
    /\ Covers(db', db)
    /\ UNCHANGED <<published, floor, served>>

Publish ==
    /\ published' = db
    /\ UNCHANGED <<db, floor, served>>

Begin(t) ==
    /\ floor[t] = None
    /\ floor' = [floor EXCEPT ![t] = published]
    /\ served' = [served EXCEPT ![t] = None]
    /\ UNCHANGED <<db, published>>

Return(t) ==
    /\ floor[t] # None
    /\ \E s \in Snapshots :
          /\ Covers(s, floor[t])
          /\ Covers(db, s)
          /\ served' = [served EXCEPT ![t] = s]
    /\ floor' = [floor EXCEPT ![t] = None]
    /\ UNCHANGED <<db, published>>

\* The load raised, or its process died: the request fails open.
Abandon ==
    /\ \E T \in SUBSET Threads :
          /\ floor' = [t \in Threads |-> IF t \in T THEN None ELSE floor[t]]
          /\ served' = [t \in Threads |-> IF t \in T THEN None ELSE served[t]]
    /\ UNCHANGED <<db, published>>

Next ==
    \/ Commit \/ Publish \/ Abandon
    \/ \E t \in Threads : Begin(t) \/ Return(t)

Spec == Init /\ [][Next]_svars
============================================================================
