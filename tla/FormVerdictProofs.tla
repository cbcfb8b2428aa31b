--------------------------- MODULE FormVerdictProofs ---------------------------
(***************************************************************************)
(* The proof that the verdict on a submission is explained, for all        *)
(* constants: its total counts each complaint under the weight of the      *)
(* defence that made it, and the reason it gives is one of theirs.         *)
(***************************************************************************)
EXTENDS FormProofs, WellFoundedInduction

\* An outcome that a defence may return: a complaint has a score and carries its name.
Voiced(o, name) ==
    /\ o.score \in 0..10
    /\ IF o.verdict = "pass" THEN o.score = 0 ELSE o.score > 0 /\ o.reason[1] = name

Complaints(outs) == {i \in DOMAIN outs : outs[i].verdict # "pass"}

\* What VerdictExplained says of outcomes and their verdict.
Explained(outs, verdict, names) ==
    /\ _aggregate_score(outs, names) = Total([i \in DOMAIN outs |-> Points(outs[i], outs[i].reason[1])])
    /\ verdict = "blocked" => BlockedReason(outs) \in {outs[i].reason : i \in Complaints(outs)}

\* The finding about the token is made before the chain runs, and is the token's own.
InOrder(t) ==
    /\ Voiced(check[t].first, "render_token")
    /\ Judged(t) /\ Enabled => Explained(result[t].outs, result[t].verdict, defence_names(req[t].form))

ExplainedInv == \A t \in Threads : InOrder(t)

\* A set of natural numbers that is not empty has a least element.
LEMMA LeastOfNats ==
    ASSUME NEW S \in SUBSET Nat, S # {}
    PROVE  \E m \in S : \A y \in S : m <= y
<1> DEFINE R == OpToRel(<, Nat)
<1>1. PICK m \in S : \A y \in S : <<y, m>> \notin R
  BY NatLessThanWellFounded, WFMin
<1>2. \A x, y \in Nat : x < y => <<x, y>> \in R
  BY Zenon DEF OpToRel
<1>3. \A y \in S : ~(y < m)
  BY <1>1, <1>2, Zenon
<1> QED BY <1>3, SMT

\* The first block among outcomes, if there is one.
LEMMA FirstBlock ==
    ASSUME NEW outs, Len(outs) \in Nat
    PROVE  LET stop == SelectInSeq(outs, IsBlock)
           IN stop = 0 \/ (stop \in 1..Len(outs) /\ IsBlock(outs[stop]))
<1> DEFINE I == {i \in 1..Len(outs) : IsBlock(outs[i])}
<1>1. I \in SUBSET Nat
  BY SMT
<1>2. SelectInSeq(outs, IsBlock) = IF I # {} THEN Min(I) ELSE 0
  BY Zenon DEF SelectInSeq
<1>3. I # {} => Min(I) \in I
  <2> HIDE DEF I
  <2> QED BY <1>1, LeastOfNats, Zenon DEF Min
<1> QED BY <1>2, <1>3, Zenon

\* What the shorthands of Outcome return is voiced by the defence they name.
LEMMA Shorthands ==
    ASSUME NEW name
    PROVE  /\ Voiced(passed, name)
           /\ \A d : Voiced(blocked(name, d), name)
           /\ \A d : \A s \in 1..10 : Voiced(flagged(s, name, d), name)
BY SMT DEF Voiced, passed, blocked, flagged

\* RenderTokenDefence speaks for itself.
LEMMA TokenVoiced ==
    ASSUME NEW token, NEW a, NEW present, NEW sameIp
    PROVE  Voiced(render_token(token, a, present, sameIp), "render_token")
<1>1. 6 \in 1..10
  BY SMT
<1> QED BY <1>1, Shorthands, Zenon DEF render_token

\* So does every defence.
LEMMA DefenceVoiced ==
    ASSUME NEW name \in DefenceNames, NEW c, Voiced(c.first, "render_token")
    PROVE  Voiced(Outcome(name, c), name)
<1>1. 3 \in 1..10 /\ 4 \in 1..10 /\ 10 \in 1..10
  BY SMT
<1>2. name \in {"render_token", "honeypot", "time_trap", "ua_consistency", "js_touch",
                "credential_throttle", "signup_velocity", "pow_gate"}
  BY SMT DEF DefenceNames, ToSet, CanonicalOrder
<1>3. CASE name = "render_token"
  BY <1>3, Zenon DEF Outcome
<1>4. CASE name = "honeypot"
  BY <1>4, Shorthands, Zenon DEF Outcome, honeypot
<1>5. CASE name = "time_trap"
  BY <1>1, <1>5, Shorthands, Zenon DEF Outcome, time_trap
<1>6. CASE name = "ua_consistency"
  BY <1>1, <1>6, Shorthands, Zenon DEF Outcome, ua_consistency
<1>7. CASE name = "js_touch"
  BY <1>1, <1>7, Shorthands, Zenon DEF Outcome, js_touch
<1>8. CASE name = "credential_throttle"
  BY <1>1, <1>8, Shorthands, Zenon DEF Outcome, credential_throttle
<1>9. CASE name = "signup_velocity"
  BY <1>1, <1>9, Shorthands, Zenon DEF Outcome, signup_velocity
<1>10. CASE name = "pow_gate"
  BY <1>10, Shorthands, Zenon DEF Outcome, pow_gate
<1> QED BY <1>2, <1>3, <1>4, <1>5, <1>6, <1>7, <1>8, <1>9, <1>10, Zenon

\* A chain that spares authenticated users is what its one name, if configured, makes.
LEMMA TokenOnly ==
    ASSUME NEW names
    PROVE  LET chain == _order_defences(names \cap {"render_token"})
           IN chain = IF "render_token" \in names THEN <<"render_token">> ELSE <<>>
<1> DEFINE Nth(i) == IF CanonicalOrder[i] \in names \cap {"render_token"} THEN <<CanonicalOrder[i]>> ELSE <<>>
<1>1. _order_defences(names \cap {"render_token"}) =
        Nth(1) \o Nth(2) \o Nth(3) \o Nth(4) \o Nth(5) \o Nth(6) \o Nth(7) \o Nth(8)
  BY Zenon DEF _order_defences
<1>2. /\ Nth(1) = IF "render_token" \in names THEN <<"render_token">> ELSE <<>>
      /\ Nth(2) = <<>> /\ Nth(3) = <<>> /\ Nth(4) = <<>> /\ Nth(5) = <<>>
      /\ Nth(6) = <<>> /\ Nth(7) = <<>> /\ Nth(8) = <<>>
  BY SMT DEF CanonicalOrder
<1> HIDE DEF Nth
<1>3. Nth(1) \in Seq({"render_token"})
  <2>1. <<"render_token">> \in Seq({"render_token"}) /\ <<>> \in Seq({"render_token"})
    BY SMT
  <2> QED BY <1>2, <2>1, Zenon
<1>4. ASSUME NEW s \in Seq({"render_token"}) PROVE s \o <<>> = s
  BY SMT
<1>5. Nth(1) \o <<>> = Nth(1)
  BY <1>3, <1>4, Zenon
<1>6. _order_defences(names \cap {"render_token"}) = Nth(1)
  BY <1>1, <1>2, <1>5, Zenon
<1> QED BY <1>2, <1>6, Zenon

\* The chain that runs is the configured one, or as much of it as comes first.
LEMMA ChainLeads ==
    ASSUME NEW f, NEW auth
    PROVE  LET chain == Chain(f, auth)
               names == defence_names(f)
           IN /\ chain \in Seq(DefenceNames) /\ names \in Seq(DefenceNames)
              /\ \A i \in DOMAIN chain : chain[i] = names[i]
<1> DEFINE chain == Chain(f, auth)
           names == defence_names(f)
           only == _order_defences(Config[f].defences \cap {"render_token"})
<1>1. names \in Seq(DefenceNames) /\ only \in Seq(DefenceNames)
  BY TokenFirst DEF defence_names
<1>2. "render_token" \in Config[f].defences => names[1] = "render_token"
  BY TokenFirst DEF defence_names
<1>3. only = IF "render_token" \in Config[f].defences THEN <<"render_token">> ELSE <<>>
  BY TokenOnly
<1>4. chain \in {<<>>, only, names}
  BY Zenon DEF Chain
<1> HIDE DEF chain, names, only
<1>5. <<>> \in Seq(DefenceNames) /\ DOMAIN <<>> = {}
  BY SMT
<1>6. \A i \in DOMAIN only : only[i] = names[i]
  BY <1>2, <1>3, SMT
<1>7. chain \in Seq(DefenceNames)
  BY <1>1, <1>4, <1>5, Zenon
<1>8. \A i \in DOMAIN chain : chain[i] = names[i]
  BY <1>4, <1>5, <1>6, Zenon
<1> QED BY <1>1, <1>7, <1>8 DEF chain, names

\* Each outcome of a chain is voiced by the defence in its place, or is a pass.
LEMMA OutcomesVoiced ==
    ASSUME NEW chain \in Seq(DefenceNames), NEW c, Voiced(c.first, "render_token"), NEW raised
    PROVE  LET outs == Outcomes(chain, c, raised)
           IN /\ Len(outs) \in Nat /\ DOMAIN outs = 1..Len(outs) /\ DOMAIN outs \subseteq DOMAIN chain
              /\ \A i \in DOMAIN outs : Voiced(outs[i], chain[i])
<1> DEFINE all == [i \in DOMAIN chain |-> IF chain[i] \in raised THEN passed ELSE Outcome(chain[i], c)]
           stop == SelectInSeq(all, IsBlock)
           outs == IF stop = 0 THEN all ELSE SubSeq(all, 1, stop)
<1>1. Outcomes(chain, c, raised) = outs
  BY Zenon DEF Outcomes
<1>2. DOMAIN chain = 1..Len(chain) /\ Len(chain) \in Nat /\ \A i \in DOMAIN chain : chain[i] \in DefenceNames
  BY SMT
<1>3. ASSUME NEW i \in DOMAIN chain PROVE Voiced(all[i], chain[i])
  <2>1. Voiced(passed, chain[i])
    BY Shorthands, Zenon
  <2>2. Voiced(Outcome(chain[i], c), chain[i])
    BY <1>2, DefenceVoiced, Zenon
  <2> QED BY <2>1, <2>2, Zenon
<1>4. all \in Seq({all[i] : i \in 1..Len(chain)}) /\ Len(all) = Len(chain) /\ DOMAIN all = DOMAIN chain
  BY <1>2, SMT
<1> HIDE DEF all
<1>5. stop = 0 \/ stop \in 1..Len(all)
  BY <1>2, <1>4, FirstBlock
<1> HIDE DEF stop
<1>6. CASE stop = 0
  BY <1>1, <1>2, <1>3, <1>4, <1>6, Zenon
<1>7. CASE stop \in 1..Len(all)
  <2>1. ASSUME NEW S, NEW s \in Seq(S), NEW n \in 1..Len(s)
        PROVE  /\ Len(SubSeq(s, 1, n)) = n /\ DOMAIN SubSeq(s, 1, n) = 1..n
               /\ \A i \in 1..n : SubSeq(s, 1, n)[i] = s[i]
    BY SMT
  <2>2. outs = SubSeq(all, 1, stop)
    BY <1>7, SMT
  <2> HIDE DEF outs
  <2>3. Len(outs) = stop /\ DOMAIN outs = 1..stop /\ \A i \in 1..stop : outs[i] = all[i]
    BY <1>4, <1>7, <2>1, <2>2, Zenon
  <2>4. stop \in Nat /\ 1..stop \subseteq 1..Len(all)
    BY <1>2, <1>4, <1>7, SMT
  <2>5. DOMAIN outs \subseteq DOMAIN chain
    BY <1>2, <1>4, <2>3, <2>4, Zenon
  <2> QED BY <1>1, <1>3, <2>3, <2>4, <2>5, Zenon
<1> QED BY <1>5, <1>6, <1>7, Zenon

\* Where nobody complains there is nothing to add up.
LEMMA NothingToAdd ==
    ASSUME NEW points, \A i \in DOMAIN points : points[i] = 0
    PROVE  Total(points) = 0
<1> DEFINE Nth(i) == IF i \in DOMAIN points THEN points[i] ELSE 0
<1>1. \A i : Nth(i) = 0
  BY Zenon
<1>2. Total(points) = Nth(1) + Nth(2) + Nth(3) + Nth(4) + Nth(5) + Nth(6) + Nth(7) + Nth(8)
  BY Zenon DEF Total
<1> HIDE DEF Nth
<1> QED BY <1>1, <1>2, SMT

\* If anybody complained, an outcome with the highest score is a complaint.
LEMMA WorstComplains ==
    ASSUME NEW outs, Len(outs) \in Nat, DOMAIN outs = 1..Len(outs),
           NEW names, \A i \in DOMAIN outs : Voiced(outs[i], names[i]), Complaints(outs) # {}
    PROVE  SelectInSeq(outs, LAMBDA o : \A p \in ToSet(outs) : p.score <= o.score) \in Complaints(outs)
<1> DEFINE Worst(o) == \A p \in ToSet(outs) : p.score <= o.score
           I == {i \in 1..Len(outs) : Worst(outs[i])}
           S == {10 - outs[i].score : i \in DOMAIN outs}
<1>1. PICK k \in DOMAIN outs : outs[k].verdict # "pass"
  BY Zenon DEF Complaints
<1>2. /\ \A i \in DOMAIN outs : outs[i].score \in 0..10 /\ (outs[i].verdict = "pass" => outs[i].score = 0)
      /\ outs[k].score > 0
  BY <1>1, Zenon DEF Voiced
<1>3. S \in SUBSET Nat /\ S # {}
  <2>1. \A i \in DOMAIN outs : 10 - outs[i].score \in Nat
    <3> SUFFICES ASSUME NEW i \in DOMAIN outs PROVE 10 - outs[i].score \in Nat
      OBVIOUS
    <3>1. outs[i].score \in 0..10
      BY <1>2, Zenon
    <3> QED BY <3>1, SMT
  <2> QED BY <1>1, <2>1, Zenon
<1>4. PICK m \in S : \A y \in S : m <= y
  <2> HIDE DEF S
  <2> QED BY <1>3, LeastOfNats, Zenon
<1>5. PICK i \in DOMAIN outs : m = 10 - outs[i].score
  BY <1>4, Zenon
<1>6. \A j \in DOMAIN outs : outs[j].score <= outs[i].score
  <2>1. ASSUME NEW a \in 0..10, NEW b \in 0..10, 10 - b <= 10 - a PROVE a <= b
    BY <2>1, SMT
  <2>2. \A j \in DOMAIN outs : 10 - outs[i].score <= 10 - outs[j].score
    BY <1>4, <1>5, Zenon
  <2> QED BY <1>2, <2>1, <2>2, Zenon
<1>7. i \in I
  BY <1>6, Zenon DEF ToSet
<1>8. I \in SUBSET Nat
  BY SMT
<1>9. SelectInSeq(outs, Worst) = IF I # {} THEN Min(I) ELSE 0
  BY Zenon DEF SelectInSeq
<1>10. Min(I) \in I
  <2> HIDE DEF I
  <2> QED BY <1>7, <1>8, LeastOfNats, Zenon DEF Min
<1>11. SelectInSeq(outs, Worst) \in I
  BY <1>7, <1>9, <1>10, Zenon
<1>12. ASSUME NEW w \in I PROVE w \in Complaints(outs)
  <2>1. outs[k].score <= outs[w].score /\ w \in DOMAIN outs
    BY Zenon DEF ToSet
  <2>2. outs[w].score # 0
    <3>1. ASSUME NEW a \in 0..10, NEW b \in 0..10, a > 0, a <= b PROVE b # 0
      BY <3>1, SMT
    <3> QED BY <1>1, <1>2, <2>1, <3>1, Zenon
  <2> QED BY <1>2, <2>1, <2>2, Zenon DEF Complaints
<1> HIDE DEF I
<1> QED BY <1>11, <1>12, Zenon

\* Outcomes that are voiced by the defences they are paired with explain the verdict.
LEMMA VoicedExplained ==
    ASSUME BlockThreshold # 0, NEW outs, Len(outs) \in Nat, DOMAIN outs = 1..Len(outs),
           NEW names, \A i \in DOMAIN outs : Voiced(outs[i], names[i])
    PROVE  Explained(outs, Verdict(outs, names), names)
<1> DEFINE paired == [i \in DOMAIN outs |-> Points(outs[i], names[i])]
           own == [i \in DOMAIN outs |-> Points(outs[i], outs[i].reason[1])]
           stop == SelectInSeq(outs, IsBlock)
           worst == SelectInSeq(outs, LAMBDA o : \A p \in ToSet(outs) : p.score <= o.score)
<1>1. \A i \in DOMAIN outs : Points(outs[i], names[i]) = Points(outs[i], outs[i].reason[1])
  BY Zenon DEF Points, Voiced
<1>2. paired = own
  BY <1>1, Zenon
<1>3. _aggregate_score(outs, names) = Total(paired)
  BY Zenon DEF _aggregate_score
<1>4. ASSUME Verdict(outs, names) = "blocked"
      PROVE  BlockedReason(outs) \in {outs[i].reason : i \in Complaints(outs)}
  <2>1. BlockedReason(outs) = outs[IF stop # 0 THEN stop ELSE worst].reason
    BY Zenon DEF BlockedReason
  <2>2. CASE stop # 0
    <3>1. stop \in 1..Len(outs) /\ IsBlock(outs[stop])
      BY <2>2, FirstBlock
    <3> HIDE DEF stop
    <3>2. stop \in Complaints(outs)
      BY <3>1, Zenon DEF IsBlock, Complaints
    <3> QED BY <2>1, <2>2, <3>2, Zenon
  <2>3. CASE stop = 0
    <3>1. _resolve_verdict(Total(paired)) = "blocked"
      BY <1>3, <1>4, <2>3, Zenon DEF Verdict
    <3>2. Total(paired) # 0
      <4>1. Total(paired) >= BlockThreshold
        BY <3>1, Zenon DEF _resolve_verdict
      <4> HIDE DEF paired
      <4>2. BlockThreshold \in Nat
        BY DefenceConstants, Zenon
      <4> QED BY <4>1, <4>2, SMT
    <3>3. Complaints(outs) # {}
      <4> SUFFICES ASSUME Complaints(outs) = {} PROVE FALSE
        OBVIOUS
      <4>1. \A i \in DOMAIN paired : paired[i] = 0
        BY Zenon DEF Complaints, Points
      <4> HIDE DEF paired
      <4> QED BY <3>2, <4>1, NothingToAdd, Zenon
    <3>4. worst \in Complaints(outs)
      BY <3>3, WorstComplains
    <3> HIDE DEF worst, stop
    <3> QED BY <2>1, <2>3, <3>4, Zenon
  <2> QED BY <2>2, <2>3, Zenon
<1> QED BY <1>2, <1>3, <1>4, Zenon DEF Explained

\* A request that has not been judged owes no explanation yet.
LEMMA NotJudged ==
    ASSUME NEW t \in Threads, Voiced(check'[t].first, "render_token"), pc'[t] \in {"idle", "token", "marker", "chain"}
    PROVE  InOrder(t)'
BY Zenon DEF InOrder, Judged

\* The chain explains its verdict.
LEMMA ChainExplained ==
    ASSUME BlockThreshold # 0, IInv, ExplainedInv, NEW t \in Threads, RunChain(t)
    PROVE  InOrder(t)'
<1>1. req' = req /\ check' = check
  BY Zenon DEF RunChain
<1>2. Voiced(check[t].first, "render_token")
  BY Zenon DEF ExplainedInv, InOrder
<1>3. ASSUME Enabled
      PROVE  Explained(result'[t].outs, result'[t].verdict, defence_names(req[t].form))
  <2>1. PICK raised \in SUBSET Raising, failing \in (IF RedisFails THEN BOOLEAN ELSE {FALSE}) :
          LET r == req[t]
              outs == Outcomes(Chain(r.form, r.auth), Context(r, check[t].first, failing), raised)
              verdict == IF Enabled THEN Verdict(outs, defence_names(r.form)) ELSE "passed"
          IN result' = [result EXCEPT ![t] = [outs |-> outs, verdict |-> verdict]]
    BY Zenon DEF RunChain
  <2> DEFINE c == Context(req[t], check[t].first, failing)
             chain == Chain(req[t].form, req[t].auth)
             names == defence_names(req[t].form)
             outs == Outcomes(chain, c, raised)
  <2>2. result'[t].outs = outs /\ result'[t].verdict = Verdict(outs, names)
    BY <1>3, <2>1, Zenon DEF IInv, ThreadInv
  <2>3. c.first = check[t].first
    BY Zenon DEF Context
  <2>4. chain \in Seq(DefenceNames) /\ \A i \in DOMAIN chain : chain[i] = names[i]
    BY ChainLeads
  <2> HIDE DEF c, chain, names
  <2>5. Voiced(c.first, "render_token")
    BY <1>2, <2>3, Zenon
  <2>6. /\ Len(outs) \in Nat /\ DOMAIN outs = 1..Len(outs) /\ DOMAIN outs \subseteq DOMAIN chain
        /\ \A i \in DOMAIN outs : Voiced(outs[i], chain[i])
    BY <2>4, <2>5, OutcomesVoiced
  <2> HIDE DEF outs
  <2>7. \A i \in DOMAIN outs : Voiced(outs[i], names[i])
    BY <2>4, <2>6, Zenon
  <2>8. Explained(outs, Verdict(outs, names), names)
    BY <2>6, <2>7, VoicedExplained, Zenon
  <2> QED BY <2>2, <2>8, Zenon DEF names
<1> QED BY <1>1, <1>2, <1>3, Zenon DEF InOrder

\* No other step changes what was judged.
LEMMA ExplainedStep ==
    ASSUME BlockThreshold # 0, IInv, ExplainedInv, [Next]_vars
    PROVE  ExplainedInv'
<1>0. /\ \A t \in Threads : InOrder(t)
      /\ DOMAIN pc = Threads /\ DOMAIN check = Threads
  BY Zenon DEF IInv, ThreadInv, ExplainedInv
<1>1. ASSUME NEW t \in Threads, pc'[t] = pc[t], req'[t] = req[t], check'[t] = check[t], result'[t] = result[t]
      PROVE  InOrder(t)'
  BY <1>0, <1>1, Zenon DEF InOrder, Judged
<1>2. CASE UNCHANGED threadVars
  BY <1>1, <1>2, Zenon DEF threadVars, ExplainedInv
<1>3. ASSUME NEW t \in Threads,
             \/ \E f \in Forms, n \in Nonces \cup {""} : \E c \in Clients[f] : Submit(t, f, n, c)
             \/ (\E k \in Keys : Replay(t, k)) \/ ReadClock(t)
      PROVE  InOrder(t)'
  <2>1. pc'[t] \in {"token", "marker"} /\ check' = check
    BY <1>0, <1>3, Zenon DEF Submit, Replay, ReadClock, Go
  <2> QED BY <1>0, <2>1, NotJudged, Zenon DEF InOrder
<1>4. ASSUME NEW t \in Threads, CheckToken(t) PROVE InOrder(t)'
  <2>1. pc'[t] = "chain"
    BY <1>0, <1>4, Zenon DEF CheckToken, Go
  <2> DEFINE n == Payload(req[t])
             First(present) == render_token(req[t].sub.token, clock[t], present,
                                            n = "" \/ page[n].ip = req[t].origin.ip)
             late == n \in consumed /\ clock[t] > Grace
  <2>2. \/ check' = check
        \/ check'[t] = [first |-> First(n \in marker), late |-> late, blind |-> FALSE]
        \/ check'[t] = [first |-> First(TRUE), late |-> late, blind |-> TRUE]
    BY <1>0, <1>4, Zenon DEF CheckToken
  <2>3. \A present : Voiced(First(present), "render_token")
    BY TokenVoiced, Zenon
  <2> HIDE DEF First, late, n
  <2>4. check' = check \/ check'[t].first = First(n \in marker) \/ check'[t].first = First(TRUE)
    <3>1. ASSUME NEW first, NEW b, check'[t] = [first |-> first, late |-> late, blind |-> b]
          PROVE  check'[t].first = first
      <4>1. \A x, l, c : LET r == [first |-> x, late |-> l, blind |-> c] IN r.first = x
        BY SMT
      <4> QED BY <3>1, <4>1
    <3> QED BY <2>2, <3>1, Zenon
  <2>5. Voiced(check'[t].first, "render_token")
    BY <1>0, <2>3, <2>4, Zenon DEF InOrder
  <2> QED BY <2>1, <2>5, NotJudged, Zenon
<1>5. ASSUME NEW t \in Threads, Finish(t) PROVE InOrder(t)'
  <2>1. pc'[t] = "idle" /\ check'[t] = Unchecked
    BY <1>0, <1>5, Zenon DEF Finish, Go
  <2>2. Voiced(Unchecked.first, "render_token")
    BY Shorthands, Zenon DEF Unchecked
  <2> QED BY <2>1, <2>2, NotJudged, Zenon
<1>6. ASSUME NEW t \in Threads, View(t) \/ Alert(t) \/ Consume(t) \/ RedirectToChallenge(t) \/ Respond(t)
      PROVE  InOrder(t)'
  <2>1. Finish(t) \/ (req' = req /\ check' = check /\ result' = result /\ Judged(t))
    BY <1>6, Zenon DEF View, Alert, Leave, Consume, RedirectToChallenge, Respond, At, Judged
  <2>2. InOrder(t)
    BY <1>0, Zenon
  <2>3. CASE ~Finish(t)
    BY <2>1, <2>2, <2>3, Zenon DEF InOrder
  <2> QED BY <1>5, <2>3
<1>7. ASSUME NEW t \in Threads,
             \/ \E f \in Forms, n \in Nonces \cup {""} : \E c \in Clients[f] : Submit(t, f, n, c)
             \/ \E k \in Keys : Replay(t, k)
             \/ ReadClock(t) \/ CheckToken(t) \/ RunChain(t) \/ View(t) \/ Alert(t)
             \/ Consume(t) \/ RedirectToChallenge(t) \/ Respond(t)
      PROVE  ExplainedInv'
  <2>1. InOrder(t)'
    BY <1>3, <1>4, <1>6, <1>7, ChainExplained, Zenon
  <2> QED BY <1>1, <1>7, <2>1, OtherThreads, Zenon DEF ExplainedInv
<1>8. ASSUME NEW f \in Forms, NEW o \in Origins, render_fields(f, o) PROVE UNCHANGED threadVars
  BY <1>8, Zenon DEF render_fields
<1>9. ASSUME NEW c \in Ips \cup Accounts, Lapse(c) PROVE UNCHANGED threadVars
  BY <1>9, Zenon DEF Lapse
<1>10. ASSUME Tick \/ UNCHANGED vars PROVE UNCHANGED threadVars
  BY <1>10, Zenon DEF Tick, vars
<1> QED BY <1>2, <1>7, <1>8, <1>9, <1>10, Zenon DEF Next

\* The zip of _aggregate_score weighs each complaint as the one of the defence that made
\* it, and the reason that form_submission_blocked carries is that of a complaint: for
\* every configuration and order of weights, whatever defences raise, block early or are
\* skipped for authenticated users.  A block threshold of 0 blocks without a complaint.
THEOREM VerdictsExplained ==
    ASSUME BlockThreshold # 0
    PROVE  Spec => []VerdictExplained
<1>1. Init => ExplainedInv
  <2>1. Voiced(Unchecked.first, "render_token")
    BY Shorthands, Zenon DEF Unchecked
  <2> QED BY <2>1, Zenon DEF Init, ExplainedInv, InOrder, Judged
<1>2. IInv /\ ExplainedInv /\ [Next]_vars => ExplainedInv'
  BY ExplainedStep, Zenon
<1>3. ExplainedInv => VerdictExplained
  BY Zenon DEF ExplainedInv, InOrder, VerdictExplained, Explained, Complaints
<1> QED BY <1>1, <1>2, <1>3, Inductive, PTL DEF Spec

=============================================================================
