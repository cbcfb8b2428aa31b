------------------------------- MODULE MCForms -------------------------------
(***************************************************************************)
(* A login form behind the mixin and a decorated comment form that spares  *)
(* authenticated users; between them they run every defence.               *)
(***************************************************************************)
EXTENDS FormProtection

CONSTANTS login, comment

\* Total adds up what it is given, as a fold does.
ASSUME TotalAddsUp ==
    \A n \in 0..8 : \A points \in [1..n -> 0..2] : Total(points) = FoldLeft(+, 0, points)

MCConfig ==
    login :> [defences |-> {"render_token", "honeypot", "time_trap", "credential_throttle", "signup_velocity"},
              skip |-> FALSE, entry |-> "mixin", login |-> TRUE]
 @@ comment :> [defences |-> {"render_token", "js_touch", "ua_consistency", "pow_gate"},
                skip |-> TRUE, entry |-> "decorator", login |-> FALSE]

MCWeights == [render_token |-> 5, ua_consistency |-> 4, js_touch |-> 5]

Home == [ip |-> "ip1", ua |-> "ua1"]
Roaming == [ip |-> "ip2", ua |-> "ua2"]
MCOrigins == {Home, Roaming}

MCClients ==
    login :> [origin : {Home}, how : {"human", "filler"}, auth : {FALSE}]
 @@ comment :> {[origin |-> Home, how |-> "nojs", auth |-> TRUE],
                [origin |-> Roaming, how |-> "human", auth |-> FALSE]}

InFlight(f) == \E t \in Threads : pc[t] # "idle" /\ req[t].form = f

\* Bound: requests in flight together are to the same form, with failed logins counted
\* only for logins and submissions parked only for comments.
OneStory ==
    /\ InFlight(login) => ~InFlight(comment) /\ \A k \in Keys : ticket[k] = None
    /\ InFlight(comment) => \A c \in Ips \cup Accounts : failures[c] = 0

MCNext == Next /\ OneStory'
MCSpec == Init /\ [][MCNext]_vars

Symmetry == Permutations(Threads) \cup Permutations(Keys)
=============================================================================
