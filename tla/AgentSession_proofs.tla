------------------------ MODULE AgentSession_proofs ------------------------
(***************************************************************************)
(* Theorems about the tools that a session's agents call (FindingTools):   *)
(* their type invariant, that they implement EvidenceLedger, that the jury *)
(* only debates what the gate passed, and that chains only join findings   *)
(* that stand.  Then about the session around them (AgentSession): that    *)
(* these hold there too, that a call belongs to a running agent, and that  *)
(* the panels catch up.  All hold for any number of agents, findings,      *)
(* calls and places in the queue.                                          *)
(***************************************************************************)
EXTENDS AgentSession, FiniteSetTheorems, TLAPS

-----------------------------------------------------------------------------
(* The operators the tools are built from.                                 *)

(* Whatever jurors and judge reply, a debate ends in one of the decisions. *)
LEMMA DebatesDecide == Debates \subseteq Decisions
<1>1. ASSUME NEW votes, NEW judge \in JudgeReplies
      PROVE  Arbitrate(votes, judge) \in Decisions
  <2>1. Fallback(votes) \in Decisions
    BY DEF Fallback, Decisions
  <2> QED
    BY <2>1 DEF Arbitrate, Decisions
<1>2. \A replies \in [Jurors -> JurorReplies], judge \in JudgeReplies :
         Debate(replies, judge) \in Decisions
  BY <1>1 DEF Debate
<1> QED
  BY <1>2 DEF Debates

(* So does a gate in one of its verdicts.                                  *)
LEMMA GateResultsAreVerdicts == GateResults \subseteq GateVerdicts
  BY DEF GateResults, GateVerdicts

(* No chain is worse than CRITICAL, whatever the severities are called.    *)
LEMMA ChainRankRange ==
  ASSUME NEW e, NEW b, NEW s
  PROVE  ChainRank(e, b, s) \in 0..4
  BY DEF ChainRank, Rank

(* There are finitely many chains among finitely many findings, so that    *)
(* each has a number.                                                      *)
LEMMA ChainsFinite ==
  ASSUME NEW fs \in Seq(Finding)
  PROVE  IsFiniteSet(Chains(fs))
<1> DEFINE D == DOMAIN fs
           E == {i \in D : Enables(fs[i])}
           R(b, e) == [b : {b}, m : DOMAIN fs[b].seed.missing, e : {e}, p : DOMAIN fs[e].seed.posts]
           F == {R(b, e) : b \in D, e \in E}
<1>1. IsFiniteSet(D) /\ IsFiniteSet(E)
  <2>1. D = 1..Len(fs) /\ Len(fs) \in Nat
    OBVIOUS
  <2>2. IsFiniteSet(1..Len(fs))
    BY <2>1, FS_Interval
  <2> QED
    BY <2>1, <2>2, FS_Subset
<1>2. ASSUME NEW b \in D, NEW e \in E
      PROVE  IsFiniteSet(R(b, e))
  <2> DEFINE M == DOMAIN fs[b].seed.missing
             P == DOMAIN fs[e].seed.posts
             f == [x \in M \X P |-> [b |-> b, m |-> x[1], e |-> e, p |-> x[2]]]
  <2>1. fs[b] \in Finding /\ fs[e] \in Finding
    OBVIOUS
  <2>2. fs[b].seed.missing \in Seq(Conditions) /\ fs[e].seed.posts \in Seq(Conditions)
    BY <2>1 DEF Finding, Seed
  <2>3. IsFiniteSet(M) /\ IsFiniteSet(P)
    <3>1. M = 1..Len(fs[b].seed.missing) /\ Len(fs[b].seed.missing) \in Nat
      BY <2>2
    <3>2. P = 1..Len(fs[e].seed.posts) /\ Len(fs[e].seed.posts) \in Nat
      BY <2>2
    <3>3. IsFiniteSet(1..Len(fs[b].seed.missing)) /\ IsFiniteSet(1..Len(fs[e].seed.posts))
      <4>1. \A n \in Nat : IsFiniteSet(1..n)
        BY FS_Interval
      <4> QED
        BY <3>1, <3>2, <4>1
    <3> QED
      BY <3>1, <3>2, <3>3
  <2>4. IsFiniteSet(M \X P)
    BY <2>3, FS_Product
  <2>5. f \in Surjection(M \X P, R(b, e))
    <3>1. f \in [M \X P -> R(b, e)]
      OBVIOUS
    <3>2. ASSUME NEW r \in R(b, e)
          PROVE  \E x \in M \X P : f[x] = r
      <4>1. <<r.m, r.p>> \in M \X P
        OBVIOUS
      <4>2. f[<<r.m, r.p>>] = r
        BY <4>1
      <4> QED
        BY <4>1, <4>2
    <3> QED
      BY <3>1, <3>2 DEF Surjection
  <2> QED
    BY <2>4, <2>5, FS_Surjection
<1>3. IsFiniteSet(F)
  <2> DEFINE f == [x \in D \X E |-> R(x[1], x[2])]
  <2>1. IsFiniteSet(D \X E)
    BY <1>1, FS_Product
  <2>2. f \in Surjection(D \X E, F)
    <3> HIDE DEF R
    <3>1. f \in [D \X E -> F]
      OBVIOUS
    <3>2. ASSUME NEW r \in F
          PROVE  \E x \in D \X E : f[x] = r
      <4>1. PICK b \in D, e \in E : r = R(b, e)
        OBVIOUS
      <4>2. <<b, e>> \in D \X E /\ f[<<b, e>>] = r
        BY <4>1
      <4> QED
        BY <4>2
    <3> QED
      BY <3>1, <3>2 DEF Surjection
  <2> QED
    BY <2>1, <2>2, FS_Surjection
<1>4. IsFiniteSet(UNION F)
  <2>1. \A T \in F : IsFiniteSet(T)
    <3> HIDE DEF R
    <3> QED
      BY <1>2
  <2> HIDE DEF F
  <2> QED
    BY <1>3, <2>1, FS_UNION
<1>5. Chains(fs) \subseteq UNION F
  BY DEF Chains
<1> QED
  BY <1>4, <1>5, FS_Subset

LEMMA NumberIsNat ==
  ASSUME NEW fs \in Seq(Finding), NEW l
  PROVE  Number(Chains(fs), l) \in Nat
<1>1. IsFiniteSet({k \in Chains(fs) : Earlier(k, l)})
  BY ChainsFinite, FS_Subset
<1>2. Cardinality({k \in Chains(fs) : Earlier(k, l)}) \in Nat
  BY <1>1, FS_CardinalityType
<1> QED
  BY <1>2 DEF Number

-----------------------------------------------------------------------------
(* What each tool makes of one finding keeps its type.                     *)

LEMMA ContributedType ==
  ASSUME NEW f \in Finding, NEW stage \in Stages, NEW points \in Int
  PROVE  Contributed(f, stage, points) \in Finding
<1>1. [stage |-> stage, points |-> points] \in Entry
  BY DEF Entry
<1>2. f.log \in Seq(Entry)
  BY DEF Finding
<1>3. f.score + points \in Int
  <2>1. f.score \in Int
    BY Zenon DEF Finding
  <2> QED
    BY <2>1
<1>4. Append(f.log, [stage |-> stage, points |-> points]) \in Seq(Entry)
  BY <1>1, <1>2
<1> QED
  BY <1>3, <1>4 DEF Finding, Contributed

LEMMA NewFindingType ==
  ASSUME NEW s \in Seed
  PROVE  NewFinding(s) \in Finding
<1>1. OpeningPoints(s) \in Int
  <2>1. s.confidence \in 0..100
    BY DEF Seed
  <2>2. s.confidence \div 3 \in Int /\ s.confidence \div 5 \in Int
    BY <2>1
  <2> QED
    BY <2>2 DEF OpeningPoints
<1>2. s.worker \in Stages
  BY DEF Seed, Stages
<1>3. s.verdict \in Verdicts
  BY DEF Seed
<1>4. [stage |-> s.worker, points |-> OpeningPoints(s)] \in Entry
  BY <1>1, <1>2 DEF Entry
<1>5. <<[stage |-> s.worker, points |-> OpeningPoints(s)]>> \in Seq(Entry)
  BY <1>4
<1> HIDE DEF OpeningPoints
<1> QED
  BY <1>1, <1>3, <1>5 DEF Finding, NewFinding

LEMMA GatedType ==
  ASSUME NEW f \in Finding, NEW v \in GateVerdicts
  PROVE  Gated(f, v) \in Finding
<1>1. [f EXCEPT !.gate = v] \in Finding
  BY DEF Finding
<1>2. GateStage(v) \in Stages
  BY DEF GateStage, Stages
<1>3. GatePoints(v) \in Int
  BY DEF GatePoints
<1> QED
  BY <1>1, <1>2, <1>3, ContributedType DEF Gated

LEMMA DebatedType ==
  ASSUME NEW f \in Finding, NEW d \in Decisions
  PROVE  Debated(f, d) \in Finding
<1>1. [f EXCEPT !.jury = d] \in Finding
  BY DEF Finding
<1>2. JuryStage(d) \in Stages
  BY DEF JuryStage, Stages
<1>3. JuryPoints(d) \in Int
  BY DEF JuryPoints
<1> QED
  BY <1>1, <1>2, <1>3, ContributedType DEF Debated

LEMMA DeepenedType ==
  ASSUME NEW f \in Finding, NEW raised \in BOOLEAN
  PROVE  Deepened(f, raised) \in Finding
<1> DEFINE g == [f EXCEPT !.passes = @ + 1]
<1>1. g \in Finding
  <2>1. f.passes \in Nat
    BY Zenon DEF Finding
  <2>2. f.passes + 1 \in Nat
    BY <2>1
  <2> QED
    BY <2>2 DEF Finding
<1>2. "depth_worker" \in Stages
  BY DEF Stages
<1>3. Contributed(g, "depth_worker", 10) \in Finding
  BY <1>1, <1>2, ContributedType
<1> QED
  BY <1>1, <1>3 DEF Deepened

LEMMA ProvenType ==
  ASSUME NEW f \in Finding
  PROVE  Proven(f) \in Finding
<1>1. [f EXCEPT !.proven = TRUE] \in Finding
  BY DEF Finding
<1>2. "poc_pass" \in Stages
  BY DEF Stages
<1> QED
  BY <1>1, <1>2, ContributedType DEF Proven

LEMMA SweptType ==
  ASSUME NEW f \in Finding
  PROVE  Swept(f) \in Finding
<1> DEFINE more == IF f.precedent + 15 <= 100 THEN f.precedent + 15 ELSE 100
<1>1. more \in 0..100
  <2>1. f.precedent \in 0..100
    BY Zenon DEF Finding
  <2> QED
    BY <2>1
<1>2. [f EXCEPT !.precedent = more] \in Finding
  BY <1>1 DEF Finding
<1>3. "rag_match" \in Stages
  BY DEF Stages
<1> QED
  BY <1>2, <1>3, ContributedType DEF Swept

LEMMA ChainedType ==
  ASSUME NEW fs \in Seq(Finding), NEW i \in 1..Len(fs)
  PROVE  Chained(fs, i) \in Finding
<1> DEFINE chains == Chains(fs)
           of == {l \in chains : i \in {l.e, l.b}}
           blocking == {l \in chains : l.b = i}
           raising == {l \in blocking : Upgrade(fs, l) > Rank(fs[i].seed.severity)}
           numbers == fs[i].chains \cup {Number(chains, l) : l \in of}
           role == IF of = {} THEN fs[i].role ELSE IF Latest(of).b = i THEN "blocked" ELSE "enabler"
           upgrade == IF raising = {} THEN fs[i].upgrade ELSE Upgrade(fs, Latest(raising))
           verdict == IF blocking = {} THEN fs[i].verdict ELSE Revived(fs[i].verdict)
<1>1. fs[i] \in Finding
  OBVIOUS
<1>2. Chained(fs, i) = [fs[i] EXCEPT !.chains = numbers, !.role = role,
                                     !.upgrade = upgrade, !.verdict = verdict]
  BY Zenon DEF Chained
<1>3. numbers \in SUBSET Nat
  <2>1. fs[i].chains \in SUBSET Nat
    BY <1>1 DEF Finding
  <2> QED
    BY <2>1, NumberIsNat
<1>4. role \in {"", "enabler", "blocked"}
  BY <1>1 DEF Finding
<1>5. upgrade \in 0..4
  BY <1>1, ChainRankRange DEF Finding, Upgrade
<1>6. verdict \in Verdicts
  BY <1>1 DEF Finding, Revived, Verdicts
<1> HIDE DEF numbers, role, upgrade, verdict
<1> QED
  BY <1>1, <1>2, <1>3, <1>4, <1>5, <1>6 DEF Finding

-----------------------------------------------------------------------------
(* A step as its findings see it: each keeps its evidence or gains one     *)
(* entry that its standing follows, and new ones come with one.            *)

Standing(f) == [score |-> f.score, gate |-> f.gate, jury |-> f.jury, proven |-> f.proven]

Same(f, g) == g.log = f.log /\ Standing(g) = Standing(f)

Gains(f, g, e) ==
    /\ e \in Entry
    /\ g.log = Append(f.log, e)
    /\ Ledger!Follows(Standing(g), Standing(f), e)

Opens(g) ==
    \E e \in Entry : g.log = <<e>> /\ Ledger!Follows(Standing(g), Ledger!Unjudged, e)

Moves(f, g) == Same(f, g) \/ \E e \in Entry : Gains(f, g, e)

Progress ==
    /\ findings' \in Seq(Finding)
    /\ Len(findings) <= Len(findings')
    /\ \A i \in 1..Len(findings) : Moves(findings[i], findings'[i])
    /\ \A i \in (Len(findings) + 1)..Len(findings') : Opens(findings'[i])

(* What contributing points does to a finding f that differs from what it  *)
(* was only in what the entry says.                                        *)
LEMMA ContributedGains ==
  ASSUME NEW f \in Finding, NEW g \in Finding, NEW stage \in Stages, NEW points \in Int,
         g.log = f.log, g.score = f.score,
         g.gate \in Ledger!GateSaid(stage, f.gate),
         g.jury \in Ledger!JurySaid(stage, f.jury),
         g.proven = (f.proven \/ stage = "poc_pass")
  PROVE  Gains(f, Contributed(g, stage, points), [stage |-> stage, points |-> points])
<1> DEFINE e == [stage |-> stage, points |-> points]
           h == Contributed(g, stage, points)
<1>1. e \in Entry
  BY DEF Entry
<1>2. /\ h.log = Append(f.log, e)
      /\ h.score = f.score + points
      /\ h.gate = g.gate
      /\ h.jury = g.jury
      /\ h.proven = g.proven
  BY DEF Contributed, Finding
<1>3. e.stage = stage /\ e.points = points
  OBVIOUS
<1> HIDE DEF e, h
<1>4. Ledger!Follows(Standing(h), Standing(f), e)
  BY <1>2, <1>3 DEF Ledger!Follows, Standing
<1> QED
  BY <1>1, <1>2, <1>4 DEF Gains, e, h

LEMMA GatedGains ==
  ASSUME NEW f \in Finding, NEW v \in GateVerdicts
  PROVE  Gains(f, Gated(f, v), [stage |-> GateStage(v), points |-> GatePoints(v)])
<1> DEFINE g == [f EXCEPT !.gate = v]
<1>1. g \in Finding
  BY DEF Finding
<1>2. g.log = f.log /\ g.score = f.score /\ g.gate = v /\ g.jury = f.jury /\ g.proven = f.proven
  BY DEF Finding
<1>3. GateStage(v) \in Stages
  BY DEF GateStage, Stages
<1>4. GatePoints(v) \in Int
  BY DEF GatePoints
<1>5. v \in Ledger!GateSaid(GateStage(v), f.gate)
  BY DEF GateStage, Ledger!GateSaid, GateVerdicts
<1>6. f.jury \in Ledger!JurySaid(GateStage(v), f.jury)
  BY DEF GateStage, Ledger!JurySaid
<1>7. f.proven = (f.proven \/ GateStage(v) = "poc_pass")
  <2>1. GateStage(v) # "poc_pass"
    BY DEF GateStage
  <2>2. f.proven \in BOOLEAN
    BY DEF Finding
  <2> QED
    BY <2>1, <2>2
<1> HIDE DEF g
<1>8. Gains(f, Contributed(g, GateStage(v), GatePoints(v)), [stage |-> GateStage(v), points |-> GatePoints(v)])
  BY <1>1, <1>2, <1>3, <1>4, <1>5, <1>6, <1>7, ContributedGains
<1> QED
  BY <1>8 DEF Gated, g

LEMMA DebatedGains ==
  ASSUME NEW f \in Finding, NEW d \in Decisions
  PROVE  Gains(f, Debated(f, d), [stage |-> JuryStage(d), points |-> JuryPoints(d)])
<1> DEFINE g == [f EXCEPT !.jury = d]
<1>1. g \in Finding
  BY DEF Finding
<1>2. g.log = f.log /\ g.score = f.score /\ g.gate = f.gate /\ g.jury = d /\ g.proven = f.proven
  BY DEF Finding
<1>3. JuryStage(d) \in Stages
  BY DEF JuryStage, Stages
<1>4. JuryPoints(d) \in Int
  BY DEF JuryPoints
<1>5. f.gate \in Ledger!GateSaid(JuryStage(d), f.gate)
  BY DEF JuryStage, Ledger!GateSaid
<1>6. d \in Ledger!JurySaid(JuryStage(d), f.jury)
  BY DEF JuryStage, Ledger!JurySaid, Decisions
<1>7. f.proven = (f.proven \/ JuryStage(d) = "poc_pass")
  <2>1. JuryStage(d) # "poc_pass"
    BY DEF JuryStage
  <2>2. f.proven \in BOOLEAN
    BY DEF Finding
  <2> QED
    BY <2>1, <2>2
<1> HIDE DEF g
<1>8. Gains(f, Contributed(g, JuryStage(d), JuryPoints(d)), [stage |-> JuryStage(d), points |-> JuryPoints(d)])
  BY <1>1, <1>2, <1>3, <1>4, <1>5, <1>6, <1>7, ContributedGains
<1> QED
  BY <1>8 DEF Debated, g

LEMMA ProvenGains ==
  ASSUME NEW f \in Finding
  PROVE  Gains(f, Proven(f), [stage |-> "poc_pass", points |-> 30])
<1> DEFINE g == [f EXCEPT !.proven = TRUE]
<1>1. g \in Finding
  BY DEF Finding
<1>2. g.log = f.log /\ g.score = f.score /\ g.gate = f.gate /\ g.jury = f.jury /\ g.proven = TRUE
  BY DEF Finding
<1>3. "poc_pass" \in Stages
  BY DEF Stages
<1>4. f.gate \in Ledger!GateSaid("poc_pass", f.gate) /\ f.jury \in Ledger!JurySaid("poc_pass", f.jury)
  BY DEF Ledger!GateSaid, Ledger!JurySaid
<1>5. g.gate \in Ledger!GateSaid("poc_pass", f.gate) /\ g.jury \in Ledger!JurySaid("poc_pass", f.jury)
  BY <1>2, <1>4
<1>6. g.proven = (f.proven \/ "poc_pass" = "poc_pass")
  BY <1>2
<1> HIDE DEF g
<1>7. Gains(f, Contributed(g, "poc_pass", 30), [stage |-> "poc_pass", points |-> 30])
  BY <1>1, <1>2, <1>3, <1>5, <1>6, 30 \in Int, ContributedGains
<1> QED
  BY <1>7 DEF Proven, g

(* The stages that leave gate, jury and proof as they are.                 *)
LEMMA OtherGains ==
  ASSUME NEW f \in Finding, NEW g \in Finding, Same(f, g), NEW stage \in {"depth_worker", "rag_match"}
  PROVE  Gains(f, Contributed(g, stage, 10), [stage |-> stage, points |-> 10])
<1>1. g.log = f.log /\ g.score = f.score /\ g.gate = f.gate /\ g.jury = f.jury /\ g.proven = f.proven
  BY DEF Same, Standing
<1>2. stage \in Stages
  BY DEF Stages
<1>3. g.gate \in Ledger!GateSaid(stage, f.gate) /\ g.jury \in Ledger!JurySaid(stage, f.jury)
  BY <1>1 DEF Ledger!GateSaid, Ledger!JurySaid
<1>4. g.proven = (f.proven \/ stage = "poc_pass")
  <2>1. f.proven \in BOOLEAN
    BY DEF Finding
  <2> QED
    BY <1>1, <2>1
<1> QED
  BY <1>1, <1>2, <1>3, <1>4, 10 \in Int, ContributedGains

LEMMA DeepenedMoves ==
  ASSUME NEW f \in Finding, NEW raised \in BOOLEAN
  PROVE  \/ Same(f, Deepened(f, raised))
         \/ Gains(f, Deepened(f, raised), [stage |-> "depth_worker", points |-> 10])
<1> DEFINE g == [f EXCEPT !.passes = @ + 1]
<1>1. g \in Finding
  <2>1. f.passes \in Nat
    BY Zenon DEF Finding
  <2>2. f.passes + 1 \in Nat
    BY <2>1
  <2> QED
    BY <2>2 DEF Finding
<1>2. Same(f, g)
  BY DEF Same, Standing, Finding
<1> HIDE DEF g
<1>3. Gains(f, Contributed(g, "depth_worker", 10), [stage |-> "depth_worker", points |-> 10])
  BY <1>1, <1>2, OtherGains
<1> QED
  BY <1>2, <1>3 DEF Deepened, g

LEMMA SweptGains ==
  ASSUME NEW f \in Finding
  PROVE  Gains(f, Swept(f), [stage |-> "rag_match", points |-> 10])
<1> DEFINE more == IF f.precedent + 15 <= 100 THEN f.precedent + 15 ELSE 100
           g == [f EXCEPT !.precedent = more]
<1>1. g \in Finding
  <2>1. f.precedent \in 0..100
    BY Zenon DEF Finding
  <2>2. more \in 0..100
    BY <2>1
  <2> HIDE DEF more
  <2> QED
    BY <2>2 DEF Finding
<1>2. Same(f, g)
  <2> HIDE DEF more
  <2> QED
    BY DEF Same, Standing, Finding
<1>3. Gains(f, Contributed(g, "rag_match", 10), [stage |-> "rag_match", points |-> 10])
  <2> HIDE DEF g
  <2> QED
    BY <1>1, <1>2, OtherGains
<1> QED
  BY <1>3 DEF Swept

LEMMA ChainedSame ==
  ASSUME NEW fs \in Seq(Finding), NEW i \in 1..Len(fs)
  PROVE  Same(fs[i], Chained(fs, i))
<1> DEFINE f == fs[i]
<1>1. f \in Finding
  OBVIOUS
<1>2. \A numbers, role, upgrade, verdict :
         Same(f, [f EXCEPT !.chains = numbers, !.role = role, !.upgrade = upgrade, !.verdict = verdict])
  <2> HIDE DEF f
  <2> QED
    BY <1>1 DEF Same, Standing, Finding
<1> QED
  BY <1>2 DEF Chained

LEMMA NewFindingOpens ==
  ASSUME NEW s \in Seed
  PROVE  Opens(NewFinding(s))
<1> DEFINE e == [stage |-> s.worker, points |-> OpeningPoints(s)]
           g == NewFinding(s)
<1>1. g \in Finding /\ g.score = OpeningPoints(s) /\ g.log = <<e>>
  BY NewFindingType DEF NewFinding
<1>2. e \in Entry
  <2>1. g.log \in Seq(Entry)
    BY <1>1 DEF Finding
  <2>2. <<e>> \in Seq(Entry)
    BY <1>1, <2>1
  <2> QED
    BY <2>2
<1>3. e.stage \in Reporters /\ e.points = OpeningPoints(s) /\ e.points \in Int
  BY <1>2 DEF Seed, Entry
<1>4. g.gate = "" /\ g.jury = "" /\ g.proven = FALSE
  BY DEF NewFinding
<1> HIDE DEF g, e
<1>5. Ledger!Follows(Standing(g), Ledger!Unjudged, e)
  <2>1. OpeningPoints(s) = 0 + OpeningPoints(s)
    BY <1>3
  <2>2. /\ "" \in Ledger!GateSaid(e.stage, "")
        /\ "" \in Ledger!JurySaid(e.stage, "")
        /\ e.stage # "poc_pass"
    BY <1>3 DEF Ledger!GateSaid, Ledger!JurySaid, Reporters
  <2> QED
    BY <1>1, <1>3, <1>4, <2>1, <2>2 DEF Ledger!Follows, Ledger!Unjudged, Standing
<1> QED
  BY <1>1, <1>2, <1>5 DEF Opens, g

-----------------------------------------------------------------------------
(* Every step progresses and keeps the types.                              *)

LEMMA SameMoves == \A f \in Finding : Same(f, f)
  BY DEF Same

LEMMA UnchangedProgresses ==
  ASSUME findings \in Seq(Finding), UNCHANGED findings
  PROVE  Progress
<1>1. Len(findings) \in Nat /\ \A i \in 1..Len(findings) : findings[i] \in Finding
  OBVIOUS
<1>2. \A i \in 1..Len(findings) : Moves(findings[i], findings'[i])
  BY <1>1, SameMoves DEF Moves
<1> QED
  BY <1>1, <1>2 DEF Progress

LEMMA ChangeProgresses ==
  ASSUME findings \in Seq(Finding), NEW i \in 1..Len(findings), NEW g \in Finding,
         Moves(findings[i], g), Change(i, g)
  PROVE  Progress
<1>1. Len(findings) \in Nat /\ \A j \in 1..Len(findings) : findings[j] \in Finding
  OBVIOUS
<1>2. findings' \in Seq(Finding) /\ Len(findings') = Len(findings)
  BY DEF Change
<1>3. ASSUME NEW j \in 1..Len(findings)
      PROVE  Moves(findings[j], findings'[j])
  <2>1. CASE j = i
    BY <2>1 DEF Change
  <2>2. CASE j # i
    <3>1. findings'[j] = findings[j]
      BY <2>2 DEF Change
    <3> QED
      BY <1>1, <3>1, SameMoves DEF Moves
  <2> QED
    BY <2>1, <2>2
<1> QED
  BY <1>1, <1>2, <1>3 DEF Progress

LEMMA EachProgresses ==
  ASSUME findings \in Seq(Finding),
         findings' \in [1..Len(findings) -> Finding],
         \A i \in 1..Len(findings) : Moves(findings[i], findings'[i])
  PROVE  Progress
<1>1. Len(findings) \in Nat
  OBVIOUS
<1>2. findings' \in Seq(Finding) /\ Len(findings') = Len(findings)
  BY <1>1
<1> QED
  BY <1>1, <1>2 DEF Progress

(* Where the members of a list with a longer end come from.                *)
LEMMA NewConcat ==
  ASSUME NEW S, NEW s \in Seq(S), NEW n \in Nat, NEW more, more = [k \in 1..n |-> more[k]]
  PROVE  /\ Len(s \o more) = Len(s) + n
         /\ \A i \in 1..Len(s \o more) :
               \/ i \in 1..Len(s) /\ (s \o more)[i] = s[i]
               \/ i - Len(s) \in 1..n /\ (s \o more)[i] = more[i - Len(s)]
<1> DEFINE T == {more[k] : k \in 1..n}
<1>1. Len(s) \in Nat /\ more \in Seq(T) /\ Len(more) = n
  OBVIOUS
<1>2. s \in Seq(S \cup T) /\ more \in Seq(S \cup T)
  BY <1>1
<1> HIDE DEF T
<1>3. Len(s \o more) = Len(s) + Len(more)
  BY <1>2
<1>4. \A i \in 1..Len(s) : (s \o more)[i] = s[i]
  BY <1>1, <1>2
<1>5. \A i \in (Len(s) + 1)..(Len(s) + Len(more)) : (s \o more)[i] = more[i - Len(s)]
  BY <1>1, <1>2
<1>6. ASSUME NEW i \in 1..(Len(s) + n)
      PROVE  i \in 1..Len(s) \/ (i \in (Len(s) + 1)..(Len(s) + Len(more)) /\ i - Len(s) \in 1..n)
  BY <1>1
<1> QED
  BY <1>1, <1>3, <1>4, <1>5, <1>6

LEMMA AnalyseAdds ==
  ASSUME findings \in Seq(Finding), NEW a, Analyse(a)
  PROVE  \A i \in 1..Len(findings') :
            \/ i \in 1..Len(findings) /\ findings'[i] = findings[i]
            \/ \E s \in Seed : findings'[i] = NewFinding(s)
<1>1. PICK n \in 1..(MaxFindings - Len(findings)) :
         \E reports \in [1..n -> {s \in Seeds : Reported(s)}] :
            findings' = findings \o [k \in 1..n |-> NewFinding(reports[k])]
  BY DEF Analyse
<1>2. PICK reports \in [1..n -> {s \in Seeds : Reported(s)}] :
         findings' = findings \o [k \in 1..n |-> NewFinding(reports[k])]
  BY <1>1
<1>3. n \in Nat
  BY ToolAssumption
<1>4. \A k \in 1..n : reports[k] \in Seed
  BY ToolAssumption
<1> DEFINE more == [k \in 1..n |-> NewFinding(reports[k])]
<1>5. \A i \in 1..Len(findings') :
         \/ i \in 1..Len(findings) /\ findings'[i] = findings[i]
         \/ i - Len(findings) \in 1..n /\ findings'[i] = more[i - Len(findings)]
  BY <1>2, <1>3, NewConcat
<1> QED
  BY <1>4, <1>5

LEMMA AnalyseProgresses ==
  ASSUME findings \in Seq(Finding), NEW a, Analyse(a)
  PROVE  Progress
<1>0. PICK n \in 1..(MaxFindings - Len(findings)) :
         \E reports \in [1..n -> {s \in Seeds : Reported(s)}] :
            findings' = findings \o [k \in 1..n |-> NewFinding(reports[k])]
  BY DEF Analyse
<1>1. PICK reports \in [1..n -> {s \in Seeds : Reported(s)}] :
         findings' = findings \o [k \in 1..n |-> NewFinding(reports[k])]
  BY <1>0
<1> DEFINE more == [k \in 1..n |-> NewFinding(reports[k])]
<1>2. Len(findings) \in Nat /\ n \in Nat /\ n >= 1
  BY ToolAssumption
<1>3. \A k \in 1..n : reports[k] \in Seed
  BY ToolAssumption
<1>4. \A k \in 1..n : NewFinding(reports[k]) \in Finding /\ Opens(NewFinding(reports[k]))
  BY <1>3, NewFindingType, NewFindingOpens
<1>5. more \in Seq(Finding) /\ Len(more) = n
  BY <1>2, <1>4
<1>6. /\ findings' \in Seq(Finding)
      /\ Len(findings') = Len(findings) + n
      /\ \A i \in 1..Len(findings) : findings'[i] = findings[i]
      /\ \A i \in (Len(findings) + 1)..Len(findings') : findings'[i] = more[i - Len(findings)]
  <2>1. findings' = findings \o more
    BY <1>1
  <2> HIDE DEF more
  <2>2. /\ findings' \in Seq(Finding)
        /\ Len(findings') = Len(findings) + n
    <3>1. findings \o more \in Seq(Finding)
      BY <1>5
    <3>2. Len(findings \o more) = Len(findings) + Len(more)
      BY <1>5
    <3> QED
      BY <1>5, <2>1, <3>1, <3>2
  <2>3. \A i \in 1..Len(findings) : findings'[i] = findings[i]
    BY <1>2, <1>5, <2>1
  <2>4. \A i \in (Len(findings) + 1)..(Len(findings) + n) : findings'[i] = more[i - Len(findings)]
    BY <1>2, <1>5, <2>1
  <2> QED
    BY <2>2, <2>3, <2>4
<1>7. ASSUME NEW i \in (Len(findings) + 1)..Len(findings')
      PROVE  Opens(findings'[i])
  <2>1. i - Len(findings) \in 1..n
    BY <1>2, <1>6
  <2>2. findings'[i] = NewFinding(reports[i - Len(findings)])
    BY <1>6, <2>1
  <2> QED
    BY <1>4, <2>1, <2>2
<1>8. \A i \in 1..Len(findings) : Moves(findings[i], findings'[i])
  <2>1. \A i \in 1..Len(findings) : findings[i] \in Finding
    OBVIOUS
  <2> QED
    BY <1>6, <2>1, SameMoves DEF Moves
<1>9. findings' \in Seq(Finding) /\ Len(findings) <= Len(findings')
  BY <1>2, <1>6
<1>10. \A i \in (Len(findings) + 1)..Len(findings') : Opens(findings'[i])
  BY <1>7
<1> HIDE DEF more
<1> QED
  BY Zenon, <1>8, <1>9, <1>10 DEF Progress

(* One coroutine's answer.                                                 *)
LEMMA JudgedProgresses ==
  ASSUME ToolTypeOK, NEW a \in Agents, NEW tool, NEW t \in call[a].todo,
         NEW g \in Finding, Moves(findings[t[1]], g), Judged(a, tool, t, g)
  PROVE  Progress
<1>1. t[1] \in 1..Len(findings) /\ findings \in Seq(Finding)
  BY DEF ToolTypeOK, TargetsExist
<1> QED
  BY <1>1, ChangeProgresses DEF Judged

LEMMA AnswerProgresses ==
  ASSUME ToolTypeOK, NEW a \in Agents, Answer(a)
  PROVE  Progress
<1>1. ASSUME NEW t \in call[a].todo
      PROVE  findings[t[1]] \in Finding
  <2>1. t[1] \in 1..Len(findings) /\ findings \in Seq(Finding)
    BY DEF ToolTypeOK, TargetsExist
  <2> QED
    BY <2>1
<1>2. CASE Gate(a)
  <2>1. PICK t \in call[a].todo, v \in GateResults : Judged(a, "gate", t, Gated(findings[t[1]], v))
    BY <1>2 DEF Gate
  <2>2. v \in GateVerdicts
    BY GateResultsAreVerdicts
  <2>3. Gated(findings[t[1]], v) \in Finding /\ Moves(findings[t[1]], Gated(findings[t[1]], v))
    BY <1>1, <2>2, GatedType, GatedGains DEF Moves, Gains
  <2> QED
    BY <2>1, <2>3, JudgedProgresses
<1>3. CASE JuryDebate(a)
  <2>1. PICK t \in call[a].todo, d \in Debates : Judged(a, "jury", t, Debated(findings[t[1]], d))
    BY <1>3 DEF JuryDebate
  <2>2. d \in Decisions
    BY DebatesDecide
  <2>3. Debated(findings[t[1]], d) \in Finding /\ Moves(findings[t[1]], Debated(findings[t[1]], d))
    BY <1>1, <2>2, DebatedType, DebatedGains DEF Moves, Gains
  <2> QED
    BY <2>1, <2>3, JudgedProgresses
<1>4. CASE Depth(a)
  <2>1. PICK t \in call[a].todo, raised \in BOOLEAN :
           Judged(a, "depth", t, Deepened(findings[t[1]], raised))
    BY <1>4 DEF Depth
  <2>2. /\ Deepened(findings[t[1]], raised) \in Finding
        /\ Moves(findings[t[1]], Deepened(findings[t[1]], raised))
    BY <1>1, DeepenedType, DeepenedMoves DEF Moves, Gains
  <2> QED
    BY <2>1, <2>2, JudgedProgresses
<1>5. CASE Test(a)
  <2>1. PICK t \in call[a].todo : Judged(a, "tests", t, Proven(findings[t[1]]))
    BY <1>5 DEF Test
  <2>2. Proven(findings[t[1]]) \in Finding /\ Moves(findings[t[1]], Proven(findings[t[1]]))
    BY <1>1, ProvenType, ProvenGains DEF Moves, Gains
  <2> QED
    BY <2>1, <2>2, JudgedProgresses
<1>6. CASE GiveUp(a)
  BY <1>6, UnchangedProgresses DEF GiveUp, ToolTypeOK
<1> QED
  BY <1>2, <1>3, <1>4, <1>5, <1>6 DEF Answer

LEMMA StepProgresses ==
  ASSUME ToolTypeOK, [ToolNext]_toolVars
  PROVE  Progress
<1>1. findings \in Seq(Finding) /\ \A i \in 1..Len(findings) : findings[i] \in Finding
  BY DEF ToolTypeOK
<1>2. CASE UNCHANGED toolVars
  BY <1>1, <1>2, UnchangedProgresses DEF toolVars
<1>3. ASSUME NEW a \in Agents, UseTool(a) \/ Cancel(a)
      PROVE  Progress
  <2>1. CASE Analyse(a)
    BY <1>1, <2>1, AnalyseProgresses
  <2>2. CASE Begin(a) \/ Finish(a) \/ Cancel(a)
    BY <1>1, <2>2, UnchangedProgresses DEF Begin, Finish, Cancel
  <2>3. CASE Answer(a)
    BY <2>3, AnswerProgresses
  <2>4. CASE Sweep(a)
    <3>1. PICK hits \in (SUBSET (1..Len(findings))) \ {{}} :
             findings' = [i \in 1..Len(findings) |->
                             IF i \in hits THEN Swept(findings[i]) ELSE findings[i]]
      BY <2>4 DEF Sweep
    <3>2. \A i \in 1..Len(findings) :
             /\ Swept(findings[i]) \in Finding
             /\ Moves(findings[i], Swept(findings[i]))
             /\ Moves(findings[i], findings[i])
      BY <1>1, SweptType, SweptGains, SameMoves DEF Moves, Gains
    <3> QED
      BY <1>1, <3>1, <3>2, EachProgresses
  <2>5. CASE Chain(a)
    <3>1. \A i \in 1..Len(findings) :
             Chained(findings, i) \in Finding /\ Moves(findings[i], Chained(findings, i))
      BY <1>1, ChainedType, ChainedSame DEF Moves
    <3> QED
      BY <1>1, <2>5, <3>1, EachProgresses DEF Chain
  <2> QED
    BY <1>3, <2>1, <2>2, <2>3, <2>4, <2>5 DEF UseTool
<1> QED
  BY <1>2, <1>3 DEF ToolNext

-----------------------------------------------------------------------------
(* The targets a call begins with are findings.                            *)
LEMMA TargetsInside ==
  ASSUME findings \in Seq(Finding), NEW tool, NEW indices \in Asked,
         NEW targets, targets = IF indices = <<>> THEN DefaultTargets(tool) ELSE AskedTargets(indices),
         \A t \in targets : t[1] >= 1
  PROVE  /\ targets \in SUBSET (Nat \X Nat)
         /\ \A t \in targets : t[1] \in 1..Len(findings)
<1>1. Len(findings) \in Nat
  OBVIOUS
<1>2. CASE indices = <<>>
  <2>1. targets = DefaultTargets(tool)
    BY <1>2
  <2> QED
    BY <1>1, <2>1 DEF DefaultTargets
<1>3. CASE indices # <<>>
  <2>1. targets = AskedTargets(indices)
    BY <1>3
  <2>2. indices \in Seq(Int) /\ Len(indices) \in Nat
    BY ToolAssumption
  <2>3. ASSUME NEW t \in targets
        PROVE  t \in Nat \X Nat /\ t[1] \in 1..Len(findings)
    <3>1. PICK k \in 1..Len(indices) :
             t = <<Resolve(indices[k]), k>> /\ indices[k] < Len(findings)
      BY <2>1 DEF AskedTargets
    <3>2. indices[k] \in Int /\ k \in Nat
      BY <2>2
    <3>3. t[1] = Resolve(indices[k]) /\ t[1] >= 1
      BY <3>1
    <3>4. Resolve(indices[k]) \in Int /\ Resolve(indices[k]) <= Len(findings)
      BY <1>1, <3>1, <3>2 DEF Resolve
    <3> QED
      BY <1>1, <3>1, <3>2, <3>3, <3>4
  <2> QED
    BY <2>3
<1> QED
  BY <1>2, <1>3

LEMMA BeginTargets ==
  ASSUME ToolTypeOK, NEW a \in Agents, Begin(a)
  PROVE  \E tool \in Tools, targets \in SUBSET (Nat \X Nat) :
            /\ \A t \in targets : t[1] \in 1..Len(findings)
            /\ call' = [call EXCEPT ![a] = [tool |-> tool, todo |-> targets]]
            /\ \/ targets = DefaultTargets(tool) /\ named' = named
               \/ named' = named \cup {t[1] : t \in targets}
<1> DEFINE Targets(tool, indices) ==
             IF indices = <<>> THEN DefaultTargets(tool) ELSE AskedTargets(indices)
<1>1. PICK tool \in Tools, indices \in Asked :
         /\ \A t \in Targets(tool, indices) : t[1] >= 1
         /\ call' = [call EXCEPT ![a] = [tool |-> tool, todo |-> Targets(tool, indices)]]
         /\ named' = IF indices = <<>> THEN named ELSE named \cup {t[1] : t \in Targets(tool, indices)}
  BY DEF Begin
<1>2. /\ Targets(tool, indices) \in SUBSET (Nat \X Nat)
      /\ \A t \in Targets(tool, indices) : t[1] \in 1..Len(findings)
  BY <1>1, TargetsInside DEF ToolTypeOK
<1>3. \/ Targets(tool, indices) = DefaultTargets(tool) /\ named' = named
      \/ named' = named \cup {t[1] : t \in Targets(tool, indices)}
  BY <1>1
<1> HIDE DEF Targets
<1> QED
  BY <1>1, <1>2, <1>3

(* A step of a call in progress: some targets are done.                    *)
LEMMA CallsShrink ==
  ASSUME ToolTypeOK, NEW a \in Agents, Answer(a) \/ Finish(a) \/ Cancel(a)
  PROVE  /\ named' = named
         /\ \E c \in [tool : Tools \cup {"none"}, todo : SUBSET (Nat \X Nat)] :
               /\ call' = [call EXCEPT ![a] = c]
               /\ c.todo \subseteq call[a].todo
               /\ c.tool \in {"none", call[a].tool}
<1> DEFINE Calls == [tool : Tools \cup {"none"}, todo : SUBSET (Nat \X Nat)]
           Left(t) == [call[a] EXCEPT !.todo = @ \ {t}]
<1>1. call[a] \in Calls
  BY DEF ToolTypeOK
<1>2. \A t : Left(t) \in Calls /\ Left(t).todo \subseteq call[a].todo /\ Left(t).tool = call[a].tool
  BY <1>1
<1>3. Idle \in Calls /\ Idle.todo = {} /\ Idle.tool = "none"
  BY DEF Idle
<1>4. CASE Finish(a) \/ Cancel(a)
  BY <1>3, <1>4 DEF Finish, Cancel
<1>5. CASE Answer(a)
  <2>1. \E t : call' = [call EXCEPT ![a] = Left(t)] /\ named' = named
    BY <1>5 DEF Answer, Gate, JuryDebate, Depth, Test, GiveUp, Judged
  <2> HIDE DEF Left, Calls
  <2> QED
    BY <1>2, <2>1 DEF Calls
<1> QED
  BY <1>4, <1>5

LEMMA TypesKept ==
  ASSUME ToolTypeOK, [ToolNext]_toolVars
  PROVE  ToolTypeOK'
<1> DEFINE Calls == [tool : Tools \cup {"none"}, todo : SUBSET (Nat \X Nat)]
<1>1. /\ findings' \in Seq(Finding)
      /\ Len(findings) <= Len(findings')
      /\ Len(findings) \in Nat /\ Len(findings') \in Nat
  BY StepProgresses DEF Progress, ToolTypeOK
<1>2. calls' \in Nat
  BY DEF ToolTypeOK, ToolNext, UseTool, Analyse, Begin, Answer, Gate, JuryDebate, Depth, Test,
         GiveUp, Judged, Finish, Sweep, Chain, Cancel, toolVars
<1>3. ASSUME NEW c \in Calls, NEW a \in Agents, call' = [call EXCEPT ![a] = c],
             \A t \in c.todo : t[1] \in 1..Len(findings)
      PROVE  call' \in [Agents -> Calls] /\ TargetsExist'
  <2>1. call \in [Agents -> Calls]
    BY DEF ToolTypeOK
  <2>2. call' \in [Agents -> Calls]
    BY <1>3, <2>1
  <2>3. ASSUME NEW b \in Agents, NEW t \in call'[b].todo
        PROVE  t[1] \in 1..Len(findings)
    <3>1. CASE b = a
      <4>1. call'[b] = c
        BY <1>3, <2>1, <3>1
      <4> QED
        BY <1>3, <2>3, <4>1
    <3>2. CASE b # a
      <4>1. call'[b] = call[b]
        BY <1>3, <2>1, <3>2
      <4> QED
        BY <2>3, <4>1 DEF ToolTypeOK, TargetsExist
    <3> QED
      BY <3>1, <3>2
  <2> QED
    BY <1>1, <2>2, <2>3 DEF TargetsExist
<1>4. /\ call' \in [Agents -> Calls]
      /\ named' \subseteq Nat
      /\ TargetsExist'
  <2>1. CASE UNCHANGED call /\ UNCHANGED named
    BY <1>1, <2>1 DEF ToolTypeOK, TargetsExist
  <2>2. ASSUME NEW a \in Agents, Begin(a)
        PROVE  call' \in [Agents -> Calls] /\ named' \subseteq Nat /\ TargetsExist'
    <3>1. PICK tool \in Tools, targets \in SUBSET (Nat \X Nat) :
             /\ \A t \in targets : t[1] \in 1..Len(findings)
             /\ call' = [call EXCEPT ![a] = [tool |-> tool, todo |-> targets]]
             /\ \/ targets = DefaultTargets(tool) /\ named' = named
                \/ named' = named \cup {t[1] : t \in targets}
      BY <2>2, BeginTargets
    <3>2. [tool |-> tool, todo |-> targets] \in Calls
      OBVIOUS
    <3>3. [tool |-> tool, todo |-> targets].todo = targets
      OBVIOUS
    <3>4. call' \in [Agents -> Calls] /\ TargetsExist'
      BY <1>3, <3>1, <3>2, <3>3
    <3>5. named' \subseteq Nat
      <4> DEFINE I == {t[1] : t \in targets}
      <4>1. I \subseteq Nat
        BY <1>1, <3>1
      <4>2. named \subseteq Nat
        BY DEF ToolTypeOK
      <4>3. named' = named \/ named' = named \cup I
        BY <3>1
      <4> HIDE DEF I
      <4> QED
        BY <4>1, <4>2, <4>3
    <3> QED
      BY <3>4, <3>5
  <2>3. ASSUME NEW a \in Agents, Answer(a) \/ Finish(a) \/ Cancel(a)
        PROVE  call' \in [Agents -> Calls] /\ named' \subseteq Nat /\ TargetsExist'
    <3>1. named' = named
      BY <2>3, CallsShrink
    <3>2. PICK c \in Calls : call' = [call EXCEPT ![a] = c] /\ c.todo \subseteq call[a].todo
      BY <2>3, CallsShrink
    <3>3. \A t \in c.todo : t[1] \in 1..Len(findings)
      BY <3>2 DEF ToolTypeOK, TargetsExist
    <3>4. call' \in [Agents -> Calls] /\ TargetsExist'
      BY <1>3, <3>2, <3>3
    <3> QED
      BY <3>1, <3>4 DEF ToolTypeOK
  <2> HIDE DEF Calls
  <2> QED
    BY <2>1, <2>2, <2>3 DEF ToolNext, UseTool, Analyse, Sweep, Chain, toolVars
<1> QED
  BY <1>1, <1>2, <1>4 DEF ToolTypeOK

LEMMA TypesInitially == ToolInit => ToolTypeOK
<1> SUFFICES ASSUME ToolInit
             PROVE  ToolTypeOK
  OBVIOUS
<1>1. findings \in Seq(Finding) /\ calls \in Nat /\ named \subseteq Nat
  BY DEF ToolInit
<1>2. Idle \in [tool : Tools \cup {"none"}, todo : SUBSET (Nat \X Nat)] /\ Idle.todo = {}
  BY DEF Idle
<1>3. call \in [Agents -> [tool : Tools \cup {"none"}, todo : SUBSET (Nat \X Nat)]]
  BY <1>2 DEF ToolInit
<1>4. TargetsExist
  BY <1>2 DEF ToolInit, TargetsExist
<1> QED
  BY <1>1, <1>3, <1>4 DEF ToolTypeOK

(* The findings and the calls on them are well typed, and a call in        *)
(* progress works on findings that exist, whoever else adds to the list    *)
(* (src/src/agent/context.py:105, src/src/agent/tools/gate_tool.py:62).    *)
THEOREM ToolsTyped == ToolSpec => []ToolTypeOK
  BY TypesInitially, TypesKept, PTL DEF ToolSpec

-----------------------------------------------------------------------------
(* The tools implement the ledger.                                         *)

LEMMA LedgerInitially == ToolInit => Ledger!Init
  BY DEF ToolInit, Ledger!Init

LEMMA EntryShape ==
  ASSUME NEW e \in Entry
  PROVE  Ledger!IsEntry(e)
<1>1. DOMAIN e = {"stage", "points"} /\ e.points \in Int
  BY DEF Entry
<1> QED
  BY <1>1 DEF Ledger!IsEntry

LEMMA GainsNewest ==
  ASSUME NEW f \in Finding, NEW g, NEW e \in Entry, Gains(f, g, e)
  PROVE  g.log # <<>> /\ g.log[Len(g.log)] = e
<1>1. f.log \in Seq(Entry)
  BY DEF Finding
<1>2. g.log = Append(f.log, e)
  BY DEF Gains
<1>3. Len(g.log) = Len(f.log) + 1 /\ Len(f.log) \in Nat
  BY <1>1, <1>2
<1>4. g.log[Len(f.log) + 1] = e
  BY <1>1, <1>2
<1>5. g.log # <<>>
  BY <1>1, <1>2
<1> QED
  BY <1>3, <1>4, <1>5

LEMMA ProgressIsLedgerStep ==
  ASSUME findings \in Seq(Finding), Progress
  PROVE  Ledger!Next
<1> DEFINE L == [i \in 1..Len(findings) |-> findings[i].log]
           S == [i \in 1..Len(findings) |->
                    [score |-> findings[i].score, gate |-> findings[i].gate,
                     jury |-> findings[i].jury, proven |-> findings[i].proven]]
<1>1. /\ Len(findings) \in Nat /\ Len(findings') \in Nat
      /\ Len(findings) <= Len(findings')
  BY DEF Progress
<1>2. Len(L) = Len(findings) /\ Len(L') = Len(findings') /\ Len(S') = Len(findings')
  BY <1>1
<1>3. \A i \in 1..Len(findings) : L[i] = findings[i].log /\ S[i] = Standing(findings[i])
  BY DEF Standing
<1>4. \A i \in 1..Len(findings') : L'[i] = findings'[i].log /\ S'[i] = Standing(findings'[i])
  BY DEF Standing
<1> HIDE DEF L, S
<1>5. ASSUME NEW i \in 1..Len(findings)
      PROVE  Ledger!Untouched(i) \/ Ledger!Contribute(i)
  <2>1. findings[i] \in Finding /\ i \in 1..Len(findings')
    BY <1>1
  <2>2. CASE Same(findings[i], findings'[i])
    <3>1. L'[i] = L[i] /\ S'[i] = S[i]
      BY <1>3, <1>4, <2>1, <2>2 DEF Same
    <3> QED
      BY <3>1 DEF Ledger!Untouched, L, S
  <2>3. CASE \E e \in Entry : Gains(findings[i], findings'[i], e)
    <3>1. PICK e \in Entry : Gains(findings[i], findings'[i], e)
      BY <2>3
    <3>2. L'[i] # <<>> /\ L'[i][Len(L'[i])] = e
      BY <1>4, <2>1, <3>1, GainsNewest
    <3>3. L'[i] = Append(L[i], e) /\ Ledger!Follows(S'[i], S[i], e)
      BY <1>3, <1>4, <2>1, <3>1 DEF Gains
    <3>4. Ledger!Newest(i) = e
      BY <3>2 DEF Ledger!Newest, L
    <3>5. Ledger!IsEntry(e)
      BY EntryShape
    <3> QED
      BY <3>2, <3>3, <3>4, <3>5 DEF Ledger!Contribute, L, S
  <2> QED
    BY <2>2, <2>3 DEF Progress, Moves
<1>6. ASSUME NEW i \in (Len(findings) + 1)..Len(findings')
      PROVE  Ledger!Open(i)
  <2>1. i \in 1..Len(findings')
    BY <1>1
  <2>2. PICK e \in Entry :
           /\ findings'[i].log = <<e>>
           /\ Ledger!Follows(Standing(findings'[i]), Ledger!Unjudged, e)
    BY <1>6 DEF Progress, Opens
  <2>3. L'[i] = <<e>> /\ S'[i] = Standing(findings'[i])
    BY <1>4, <2>1, <2>2
  <2>4. Len(L'[i]) = 1 /\ L'[i][Len(L'[i])] = e
    BY <2>3
  <2>5. Ledger!Newest(i) = e /\ Ledger!IsEntry(e)
    BY <2>4, EntryShape DEF Ledger!Newest, L
  <2> QED
    BY <2>2, <2>3, <2>4, <2>5 DEF Ledger!Open, L, S
<1> QED
  BY <1>1, <1>2, <1>5, <1>6 DEF Ledger!Next, L, S

(* What a finding claims is what its log shows, whatever agents interleave *)
(* their calls and wherever these are cut off: the tools implement         *)
(* EvidenceLedger (src/src/models/finding.py:132).                         *)
THEOREM ToolsImplementLedger == ToolSpec => ImplementsLedger
<1>1. ToolTypeOK /\ [ToolNext]_toolVars => Ledger!Next
  BY StepProgresses, ProgressIsLedgerStep DEF ToolTypeOK
<1> QED
  BY <1>1, LedgerInitially, ToolsTyped, PTL DEF ToolSpec, ImplementsLedger, Ledger!Spec

-----------------------------------------------------------------------------
(* Chains join findings that stand.                                        *)

Stands(f) == f.role # "" => f.verdict # "REFUTED"

LEMMA JudgingKeepsStanding ==
  ASSUME NEW f \in Finding, Stands(f)
  PROVE  /\ \A v : Stands(Gated(f, v)) /\ Stands(Debated(f, v)) /\ Stands(Deepened(f, v))
         /\ Stands(Proven(f)) /\ Stands(Swept(f))
<1> DEFINE Kept(g) == g.role = f.role /\ g.verdict = f.verdict
<1>1. \A v : Kept(Gated(f, v)) /\ Kept(Debated(f, v))
  BY DEF Finding, Gated, Debated, Contributed
<1>2. \A v : Kept(Deepened(f, v))
  BY DEF Finding, Deepened, Contributed
<1>3. Kept(Proven(f)) /\ Kept(Swept(f))
  BY DEF Finding, Proven, Swept, Contributed
<1> QED
  BY <1>1, <1>2, <1>3 DEF Stands

LEMMA ChainsFromEnablers ==
  ASSUME NEW fs, NEW l \in Chains(fs)
  PROVE  Enables(fs[l.e])
<1> DEFINE D == DOMAIN fs
           E == {i \in D : Enables(fs[i])}
           R(b, e) == [b : {b}, m : DOMAIN fs[b].seed.missing, e : {e}, p : DOMAIN fs[e].seed.posts]
<1>1. l \in UNION {R(b, e) : b \in D, e \in E}
  BY DEF Chains
<1>2. PICK b \in D, e \in E : l \in R(b, e)
  <2> HIDE DEF R, D, E
  <2> QED
    BY <1>1
<1>3. l.e = e
  BY <1>2
<1> QED
  BY <1>2, <1>3

LEMMA ChainedStands ==
  ASSUME NEW fs \in Seq(Finding), NEW i \in 1..Len(fs), Stands(fs[i])
  PROVE  Stands(Chained(fs, i))
<1> DEFINE chains == Chains(fs)
           of == {l \in chains : i \in {l.e, l.b}}
           blocking == {l \in chains : l.b = i}
           f == fs[i]
           g == Chained(fs, i)
<1>1. f \in Finding
  OBVIOUS
<1>2. /\ g.role = IF of = {} THEN f.role ELSE IF Latest(of).b = i THEN "blocked" ELSE "enabler"
      /\ g.verdict = IF blocking = {} THEN f.verdict ELSE Revived(f.verdict)
  BY <1>1 DEF Chained, Finding
<1>3. CASE blocking # {}
  <2>1. Revived(f.verdict) # "REFUTED"
    BY DEF Revived
  <2> QED
    BY <1>2, <1>3, <2>1 DEF Stands
<1>4. CASE blocking = {} /\ of # {}
  <2>1. PICK l \in chains : l.e = i
    BY <1>4
  <2>2. Enables(fs[l.e])
    BY ChainsFromEnablers
  <2>3. f.verdict # "REFUTED"
    BY <2>1, <2>2 DEF Enables
  <2> QED
    BY <1>2, <1>4, <2>3 DEF Stands
<1>5. CASE of = {}
  <2>1. blocking = {}
    BY <1>5
  <2> QED
    BY <1>2, <1>5, <2>1 DEF Stands
<1> QED
  BY <1>3, <1>4, <1>5

LEMMA StandsKept ==
  ASSUME ToolTypeOK, ChainedStand, [ToolNext]_toolVars
  PROVE  ChainedStand'
<1>1. /\ findings \in Seq(Finding)
      /\ \A i \in 1..Len(findings) : findings[i] \in Finding /\ Stands(findings[i])
  <2>1. findings \in Seq(Finding)
    BY DEF ToolTypeOK
  <2>2. \A i \in 1..Len(findings) : Stands(findings[i])
    BY DEF ChainedStand, Stands
  <2> QED
    BY <2>1, <2>2
<1>2. CASE UNCHANGED findings
  BY <1>2 DEF ChainedStand
<1>3. ASSUME NEW t, t[1] \in 1..Len(findings), NEW g, Stands(g), Change(t[1], g)
      PROVE  ChainedStand'
  <2>1. /\ Len(findings') = Len(findings)
        /\ \A i \in 1..Len(findings) : findings'[i] = IF i = t[1] THEN g ELSE findings[i]
    BY <1>1, <1>3 DEF Change
  <2> QED
    BY <1>1, <1>3, <2>1 DEF ChainedStand, Stands
<1>4. ASSUME NEW a \in Agents, Answer(a)
      PROVE  ChainedStand'
  <2>1. \A t \in call[a].todo : t[1] \in 1..Len(findings)
    BY DEF ToolTypeOK, TargetsExist
  <2>2. CASE GiveUp(a)
    BY <1>2, <2>2 DEF GiveUp
  <2>3. CASE Gate(a) \/ JuryDebate(a) \/ Depth(a) \/ Test(a)
    <3>1. PICK t \in call[a].todo : \E g :
             /\ Change(t[1], g)
             /\ \/ \E v : g = Gated(findings[t[1]], v) \/ g = Debated(findings[t[1]], v)
                          \/ g = Deepened(findings[t[1]], v)
                \/ g = Proven(findings[t[1]])
      BY <2>3 DEF Gate, JuryDebate, Depth, Test, Judged
    <3>2. PICK g :
             /\ Change(t[1], g)
             /\ \/ \E v : g = Gated(findings[t[1]], v) \/ g = Debated(findings[t[1]], v)
                          \/ g = Deepened(findings[t[1]], v)
                \/ g = Proven(findings[t[1]])
      BY <3>1
    <3>3. Stands(g)
      BY <1>1, <2>1, <3>2, JudgingKeepsStanding
    <3> QED
      BY <1>3, <2>1, <3>2, <3>3
  <2> QED
    BY <1>4, <2>2, <2>3 DEF Answer
<1>5. ASSUME NEW a \in Agents, Analyse(a)
      PROVE  ChainedStand'
  <2>1. \A s : Stands(NewFinding(s))
    BY DEF NewFinding, Stands
  <2>2. \A i \in 1..Len(findings') : Stands(findings'[i])
    BY <1>1, <1>5, <2>1, AnalyseAdds
  <2> QED
    BY <2>2 DEF ChainedStand, Stands
<1>6. ASSUME NEW a \in Agents, Sweep(a)
      PROVE  ChainedStand'
  <2>1. PICK hits \in SUBSET (1..Len(findings)) :
           findings' = [i \in 1..Len(findings) |->
                           IF i \in hits THEN Swept(findings[i]) ELSE findings[i]]
    BY <1>6 DEF Sweep
  <2>2. \A i \in 1..Len(findings) : Stands(Swept(findings[i]))
    BY <1>1, JudgingKeepsStanding
  <2>3. Len(findings') = Len(findings)
    BY <1>1, <2>1
  <2> QED
    BY <1>1, <2>1, <2>2, <2>3 DEF ChainedStand, Stands
<1>7. ASSUME NEW a \in Agents, Chain(a)
      PROVE  ChainedStand'
  <2>1. findings' = [i \in 1..Len(findings) |-> Chained(findings, i)]
    BY <1>7 DEF Chain
  <2>2. \A i \in 1..Len(findings) : Stands(Chained(findings, i))
    BY <1>1, ChainedStands
  <2>3. Len(findings') = Len(findings)
    BY <1>1, <2>1
  <2> QED
    BY <2>1, <2>2, <2>3 DEF ChainedStand, Stands
<1> QED
  BY <1>2, <1>4, <1>5, <1>6, <1>7
     DEF ToolNext, UseTool, Begin, Finish, Cancel, toolVars

(* No finding that was refuted is in a chain, in any order of the tools    *)
(* (src/src/pipeline/chain_analyzer.py:260, :375).                         *)
THEOREM ChainsStand == ToolSpec => []ChainedStand
<1>1. ToolInit => ChainedStand
  <2>1. ToolInit => 1..Len(findings) = {}
    BY DEF ToolInit
  <2> QED
    BY <2>1 DEF ChainedStand
<1>2. ToolTypeOK /\ ChainedStand /\ [ToolNext]_toolVars => ChainedStand'
  BY StandsKept
<1> QED
  BY <1>1, <1>2, ToolsTyped, PTL DEF ToolSpec

-----------------------------------------------------------------------------
(* The jury debates what the gate passed.  DebatedWerePassed alone is not  *)
(* inductive: a debate under way must know that its target has passed, and *)
(* a finding whose gate says PASS that its log says so.                    *)

Passed(f) == \E j \in 1..Len(f.log) : f.log[j].stage = "gate_pass"

GateShown(f) == f.gate = "PASS" => Passed(f)

Ordered(f) ==
    \A k \in 1..Len(f.log) : f.log[k].stage \in JuryStages =>
        \E j \in 1..(k - 1) : f.log[j].stage = "gate_pass"

JuryTargets ==
    \A a \in Agents : call[a].tool = "jury" =>
        \A t \in call[a].todo : t[1] \in named \/ Passed(findings[t[1]])

DebateInv ==
    /\ \A i \in 1..Len(findings) : GateShown(findings[i])
    /\ \A i \in 1..Len(findings) : i \in named \/ Ordered(findings[i])
    /\ JuryTargets

LEMMA GainsLog ==
  ASSUME NEW f \in Finding, NEW g, NEW e \in Entry, Gains(f, g, e)
  PROVE  /\ Len(f.log) \in Nat
         /\ Len(g.log) = Len(f.log) + 1
         /\ \A j \in 1..Len(f.log) : g.log[j] = f.log[j]
         /\ g.log[Len(f.log) + 1] = e
<1>1. f.log \in Seq(Entry)
  BY DEF Finding
<1>2. g.log = Append(f.log, e)
  BY DEF Gains
<1> QED
  BY <1>1, <1>2

LEMMA PassedStays ==
  ASSUME NEW f \in Finding, NEW g, Moves(f, g), Passed(f)
  PROVE  Passed(g)
<1>1. CASE Same(f, g)
  BY <1>1 DEF Same, Passed
<1>2. ASSUME NEW e \in Entry, Gains(f, g, e)
      PROVE  Passed(g)
  <2>1. PICK j \in 1..Len(f.log) : f.log[j].stage = "gate_pass"
    BY DEF Passed
  <2>2. j \in 1..Len(g.log) /\ g.log[j] = f.log[j]
    BY <1>2, GainsLog
  <2> QED
    BY <2>1, <2>2 DEF Passed
<1> QED
  BY <1>1, <1>2 DEF Moves

LEMMA GateShownStays ==
  ASSUME NEW f \in Finding, NEW g, Moves(f, g), GateShown(f)
  PROVE  GateShown(g)
<1>1. CASE Same(f, g)
  BY <1>1 DEF Same, Passed, GateShown, Standing
<1>2. ASSUME NEW e \in Entry, Gains(f, g, e)
      PROVE  GateShown(g)
  <2>1. g.gate \in Ledger!GateSaid(e.stage, f.gate)
    BY <1>2 DEF Gains, Ledger!Follows, Standing
  <2>2. CASE e.stage = "gate_pass"
    <3>1. Len(f.log) + 1 \in 1..Len(g.log) /\ g.log[Len(f.log) + 1] = e
      BY <1>2, GainsLog
    <3> QED
      BY <2>2, <3>1 DEF Passed, GateShown
  <2>3. CASE e.stage # "gate_pass" /\ g.gate = "PASS"
    <3>1. f.gate = "PASS"
      BY <2>1, <2>3 DEF Ledger!GateSaid
    <3>2. Passed(g)
      BY <3>1, PassedStays DEF GateShown
    <3> QED
      BY <3>2 DEF GateShown
  <2> QED
    BY <2>2, <2>3 DEF GateShown
<1> QED
  BY <1>1, <1>2 DEF Moves

LEMMA GainsOrdered ==
  ASSUME NEW f \in Finding, NEW g, NEW e \in Entry, Gains(f, g, e), Ordered(f),
         e.stage \in JuryStages => Passed(f)
  PROVE  Ordered(g)
<1>1. /\ Len(f.log) \in Nat
      /\ Len(g.log) = Len(f.log) + 1
      /\ \A j \in 1..Len(f.log) : g.log[j] = f.log[j]
      /\ g.log[Len(f.log) + 1] = e
  BY GainsLog
<1>2. ASSUME NEW k \in 1..Len(g.log), g.log[k].stage \in JuryStages
      PROVE  \E j \in 1..(k - 1) : g.log[j].stage = "gate_pass"
  <2>1. CASE k \in 1..Len(f.log)
    <3>1. PICK j \in 1..(k - 1) : f.log[j].stage = "gate_pass"
      BY <1>1, <1>2, <2>1 DEF Ordered
    <3>2. g.log[j] = f.log[j]
      BY <1>1, <2>1
    <3> QED
      BY <3>1, <3>2
  <2>2. CASE k = Len(f.log) + 1
    <3>1. PICK j \in 1..Len(f.log) : f.log[j].stage = "gate_pass"
      BY <1>1, <1>2, <2>2 DEF Passed
    <3>2. j \in 1..(k - 1) /\ g.log[j] = f.log[j]
      BY <1>1, <2>2
    <3> QED
      BY <3>1, <3>2
  <2> QED
    BY <1>1, <2>1, <2>2
<1> QED
  BY <1>2 DEF Ordered

LEMMA JudgingKeepsOrder ==
  ASSUME NEW f \in Finding, Ordered(f)
  PROVE  /\ \A v \in GateVerdicts : Ordered(Gated(f, v))
         /\ \A d \in Decisions : Passed(f) => Ordered(Debated(f, d))
         /\ \A raised \in BOOLEAN : Ordered(Deepened(f, raised))
         /\ Ordered(Proven(f))
         /\ Ordered(Swept(f))
<1>1. ASSUME NEW v \in GateVerdicts
      PROVE  Ordered(Gated(f, v))
  <2> DEFINE e == [stage |-> GateStage(v), points |-> GatePoints(v)]
  <2>1. Gains(f, Gated(f, v), e) /\ e \in Entry
    BY GatedGains DEF Gains
  <2>2. e.stage \notin JuryStages
    BY DEF GateStage, JuryStages
  <2> HIDE DEF e
  <2> QED
    BY <2>1, <2>2, GainsOrdered
<1>2. ASSUME NEW d \in Decisions, Passed(f)
      PROVE  Ordered(Debated(f, d))
  <2> DEFINE e == [stage |-> JuryStage(d), points |-> JuryPoints(d)]
  <2>1. Gains(f, Debated(f, d), e) /\ e \in Entry
    BY DebatedGains DEF Gains
  <2> HIDE DEF e
  <2> QED
    BY <1>2, <2>1, GainsOrdered
<1>3. ASSUME NEW stage \in {"depth_worker", "poc_pass", "rag_match"}, NEW points \in Int, NEW g,
             Gains(f, g, [stage |-> stage, points |-> points])
      PROVE  Ordered(g)
  <2> DEFINE e == [stage |-> stage, points |-> points]
  <2>1. Gains(f, g, e) /\ e \in Entry
    BY <1>3 DEF Gains
  <2>2. e.stage \notin JuryStages
    BY DEF JuryStages
  <2> HIDE DEF e
  <2> QED
    BY <2>1, <2>2, GainsOrdered
<1>4. \A raised \in BOOLEAN : Ordered(Deepened(f, raised))
  BY <1>3, DeepenedMoves DEF Same, Ordered
<1>5. Ordered(Proven(f)) /\ Ordered(Swept(f))
  BY <1>3, ProvenGains, SweptGains
<1> QED
  BY <1>1, <1>2, <1>4, <1>5

LEMMA NewFindingsOrdered ==
  ASSUME NEW s \in Seed
  PROVE  GateShown(NewFinding(s)) /\ Ordered(NewFinding(s))
<1> DEFINE e == [stage |-> s.worker, points |-> OpeningPoints(s)]
           g == NewFinding(s)
<1>1. g.gate = "" /\ g.log = <<e>>
  BY DEF NewFinding
<1>2. e.stage \in Reporters
  BY DEF Seed
<1> HIDE DEF e, g
<1>3. GateShown(g)
  BY <1>1 DEF GateShown
<1>4. Len(g.log) = 1 /\ g.log[1] = e
  <2>1. Len(<<e>>) = 1 /\ <<e>>[1] = e
    OBVIOUS
  <2> QED
    BY <1>1, <2>1
<1>5. \A k \in 1..Len(g.log) : g.log[k].stage \notin JuryStages
  BY <1>2, <1>4 DEF Reporters, JuryStages
<1> QED
  BY <1>3, <1>5 DEF Ordered, g

(* What a step may change in the logs.                                     *)
LEMMA OrderKept ==
  ASSUME ToolTypeOK, DebateInv, [ToolNext]_toolVars
  PROVE  \A i \in 1..Len(findings') : i \in named' \/ Ordered(findings'[i])
<1>1. findings \in Seq(Finding) /\ \A i \in 1..Len(findings) : findings[i] \in Finding
  BY DEF ToolTypeOK
<1>2. \A i \in 1..Len(findings) : i \in named \/ Ordered(findings[i])
  BY DEF DebateInv
<1>3. CASE UNCHANGED findings /\ named \subseteq named'
  BY <1>2, <1>3
<1>4. ASSUME NEW t, t[1] \in 1..Len(findings), NEW g, Change(t[1], g), named' = named,
             t[1] \in named \/ Ordered(g)
      PROVE  \A i \in 1..Len(findings') : i \in named' \/ Ordered(findings'[i])
  <2>1. /\ Len(findings') = Len(findings)
        /\ \A i \in 1..Len(findings) : findings'[i] = IF i = t[1] THEN g ELSE findings[i]
    BY <1>1, <1>4 DEF Change
  <2> QED
    BY <1>2, <1>4, <2>1
<1>5. ASSUME NEW a \in Agents, Answer(a)
      PROVE  \A i \in 1..Len(findings') : i \in named' \/ Ordered(findings'[i])
  <2>1. \A t \in call[a].todo : t[1] \in 1..Len(findings)
    BY DEF ToolTypeOK, TargetsExist
  <2>2. CASE GiveUp(a)
    BY <1>3, <2>2 DEF GiveUp
  <2>3. CASE Gate(a)
    <3>1. PICK t \in call[a].todo, v \in GateResults :
             Judged(a, "gate", t, Gated(findings[t[1]], v))
      BY <2>3 DEF Gate
    <3>2. t[1] \in named \/ Ordered(Gated(findings[t[1]], v))
      BY <1>1, <1>2, <2>1, GateResultsAreVerdicts, JudgingKeepsOrder
    <3> QED
      BY <1>4, <2>1, <3>1, <3>2 DEF Judged
  <2>4. CASE JuryDebate(a)
    <3>1. PICK t \in call[a].todo, d \in Debates :
             Judged(a, "jury", t, Debated(findings[t[1]], d))
      BY <2>4 DEF JuryDebate
    <3>2. t[1] \in named \/ Passed(findings[t[1]])
      BY <3>1 DEF DebateInv, JuryTargets, Judged
    <3>3. t[1] \in named \/ Ordered(Debated(findings[t[1]], d))
      BY <1>1, <1>2, <2>1, <3>2, DebatesDecide, JudgingKeepsOrder
    <3> QED
      BY <1>4, <2>1, <3>1, <3>3 DEF Judged
  <2>5. CASE Depth(a)
    <3>1. PICK t \in call[a].todo, raised \in BOOLEAN :
             Judged(a, "depth", t, Deepened(findings[t[1]], raised))
      BY <2>5 DEF Depth
    <3>2. t[1] \in named \/ Ordered(Deepened(findings[t[1]], raised))
      BY <1>1, <1>2, <2>1, JudgingKeepsOrder
    <3> QED
      BY <1>4, <2>1, <3>1, <3>2 DEF Judged
  <2>6. CASE Test(a)
    <3>1. PICK t \in call[a].todo : Judged(a, "tests", t, Proven(findings[t[1]]))
      BY <2>6 DEF Test
    <3>2. t[1] \in named \/ Ordered(Proven(findings[t[1]]))
      BY <1>1, <1>2, <2>1, JudgingKeepsOrder
    <3> QED
      BY <1>4, <2>1, <3>1, <3>2 DEF Judged
  <2> QED
    BY <1>5, <2>2, <2>3, <2>4, <2>5, <2>6 DEF Answer
<1>6. ASSUME NEW a \in Agents, Analyse(a)
      PROVE  \A i \in 1..Len(findings') : i \in named' \/ Ordered(findings'[i])
  BY <1>1, <1>2, <1>6, AnalyseAdds, NewFindingsOrdered DEF Analyse
<1>7. ASSUME NEW a \in Agents, Sweep(a)
      PROVE  \A i \in 1..Len(findings') : i \in named' \/ Ordered(findings'[i])
  <2>1. PICK hits \in SUBSET (1..Len(findings)) :
           findings' = [i \in 1..Len(findings) |->
                           IF i \in hits THEN Swept(findings[i]) ELSE findings[i]]
    BY <1>7 DEF Sweep
  <2>2. \A i \in 1..Len(findings) : i \in named \/ Ordered(Swept(findings[i]))
    BY <1>1, <1>2, JudgingKeepsOrder
  <2>3. Len(findings') = Len(findings) /\ named' = named
    BY <1>1, <1>7, <2>1 DEF Sweep
  <2> QED
    BY <1>2, <2>1, <2>2, <2>3
<1>8. ASSUME NEW a \in Agents, Chain(a)
      PROVE  \A i \in 1..Len(findings') : i \in named' \/ Ordered(findings'[i])
  <2>1. findings' = [i \in 1..Len(findings) |-> Chained(findings, i)]
    BY <1>8 DEF Chain
  <2>2. \A i \in 1..Len(findings) : Chained(findings, i).log = findings[i].log
    BY <1>1, ChainedSame DEF Same
  <2>3. Len(findings') = Len(findings) /\ named' = named
    BY <1>1, <1>8, <2>1 DEF Chain
  <2> QED
    BY <1>2, <2>1, <2>2, <2>3 DEF Ordered
<1>9. ASSUME NEW a \in Agents, Begin(a) \/ Finish(a) \/ Cancel(a)
      PROVE  \A i \in 1..Len(findings') : i \in named' \/ Ordered(findings'[i])
  <2>1. UNCHANGED findings
    BY <1>9 DEF Begin, Finish, Cancel
  <2>2. named \subseteq named'
    BY <1>9, BeginTargets, CallsShrink
  <2> QED
    BY <1>3, <2>1, <2>2
<1>10. CASE UNCHANGED toolVars
  BY <1>3, <1>10 DEF toolVars
<1> QED
  BY <1>5, <1>6, <1>7, <1>8, <1>9, <1>10 DEF ToolNext, UseTool

LEMMA TargetsPassed ==
  ASSUME ToolTypeOK, DebateInv, [ToolNext]_toolVars
  PROVE  JuryTargets'
<1>1. findings \in Seq(Finding) /\ \A i \in 1..Len(findings) : findings[i] \in Finding
  BY DEF ToolTypeOK
<1>2. \A i \in 1..Len(findings) : Passed(findings[i]) => Passed(findings'[i])
  BY <1>1, StepProgresses, PassedStays DEF Progress
<1>3. ASSUME NEW a \in Agents, NEW t \in call[a].todo, call[a].tool = "jury", named \subseteq named'
      PROVE  t[1] \in named' \/ Passed(findings'[t[1]])
  <2>1. t[1] \in 1..Len(findings)
    BY DEF ToolTypeOK, TargetsExist
  <2>2. t[1] \in named \/ Passed(findings[t[1]])
    BY <1>3 DEF DebateInv, JuryTargets
  <2> QED
    BY <1>2, <1>3, <2>1, <2>2
<1>4. CASE UNCHANGED call /\ UNCHANGED named
  BY <1>3, <1>4 DEF JuryTargets
<1>5. ASSUME NEW a \in Agents, Begin(a)
      PROVE  JuryTargets'
  <2>1. PICK tool \in Tools, targets \in SUBSET (Nat \X Nat) :
           /\ \A t \in targets : t[1] \in 1..Len(findings)
           /\ call' = [call EXCEPT ![a] = [tool |-> tool, todo |-> targets]]
           /\ \/ targets = DefaultTargets(tool) /\ named' = named
              \/ named' = named \cup {t[1] : t \in targets}
    BY <1>5, BeginTargets
  <2>2. named \subseteq named' /\ findings' = findings
    BY <1>5, <2>1 DEF Begin
  <2>3. ASSUME NEW t \in targets, tool = "jury"
        PROVE  t[1] \in named' \/ Passed(findings[t[1]])
    <3>1. CASE targets = DefaultTargets(tool)
      <4>1. PICK i \in 1..Len(findings) : t = <<i, i>> /\ ByDefault(tool, findings[i])
        BY <3>1 DEF DefaultTargets
      <4>2. findings[i].gate = "PASS"
        BY <2>3, <4>1 DEF ByDefault
      <4>3. Passed(findings[i]) /\ t[1] = i
        BY <4>1, <4>2 DEF DebateInv, GateShown
      <4> QED
        BY <4>3
    <3>2. CASE named' = named \cup {u[1] : u \in targets}
      BY <3>2
    <3> QED
      BY <2>1, <3>1, <3>2
  <2>4. ASSUME NEW b \in Agents, call'[b].tool = "jury", NEW t \in call'[b].todo
        PROVE  t[1] \in named' \/ Passed(findings'[t[1]])
    <3>1. CASE b = a
      <4>1. call'[b] = [tool |-> tool, todo |-> targets]
        BY <2>1, <3>1 DEF ToolTypeOK
      <4> QED
        BY <2>2, <2>3, <2>4, <4>1
    <3>2. CASE b # a
      <4>1. call'[b] = call[b]
        BY <2>1, <3>2 DEF ToolTypeOK
      <4> QED
        BY <1>3, <2>2, <2>4, <4>1
    <3> QED
      BY <3>1, <3>2
  <2> QED
    BY <2>4 DEF JuryTargets
<1>6. ASSUME NEW a \in Agents, Answer(a) \/ Finish(a) \/ Cancel(a)
      PROVE  JuryTargets'
  <2>1. named' = named
    BY <1>6, CallsShrink
  <2>2. PICK c : /\ call' = [call EXCEPT ![a] = c]
                 /\ c.todo \subseteq call[a].todo
                 /\ c.tool \in {"none", call[a].tool}
    BY <1>6, CallsShrink
  <2>3. ASSUME NEW b \in Agents, call'[b].tool = "jury", NEW t \in call'[b].todo
        PROVE  t[1] \in named' \/ Passed(findings'[t[1]])
    <3>1. t \in call[b].todo /\ call[b].tool = "jury"
      <4>1. CASE b = a
        <5>1. call'[b] = c
          BY <2>2, <4>1 DEF ToolTypeOK
        <5> QED
          BY <2>2, <2>3, <4>1, <5>1
      <4>2. CASE b # a
        <5>1. call'[b] = call[b]
          BY <2>2, <4>2 DEF ToolTypeOK
        <5> QED
          BY <2>3, <5>1
      <4> QED
        BY <4>1, <4>2
    <3> QED
      BY <1>3, <2>1, <3>1
  <2> QED
    BY <2>3 DEF JuryTargets
<1> QED
  BY <1>4, <1>5, <1>6 DEF ToolNext, UseTool, Analyse, Sweep, Chain, toolVars

LEMMA GatesShown ==
  ASSUME ToolTypeOK, DebateInv, [ToolNext]_toolVars
  PROVE  \A i \in 1..Len(findings') : GateShown(findings'[i])
<1>1. findings \in Seq(Finding) /\ \A i \in 1..Len(findings) : findings[i] \in Finding
  BY DEF ToolTypeOK
<1>2. Progress /\ Len(findings) \in Nat /\ Len(findings') \in Nat
  BY <1>1, StepProgresses DEF Progress
<1>3. ASSUME NEW i \in 1..Len(findings)
      PROVE  GateShown(findings'[i])
  <2>1. GateShown(findings[i]) /\ Moves(findings[i], findings'[i]) /\ findings[i] \in Finding
    BY <1>1, <1>2 DEF DebateInv, Progress
  <2> QED
    BY <2>1, GateShownStays
<1>4. ASSUME NEW i \in (Len(findings) + 1)..Len(findings')
      PROVE  GateShown(findings'[i])
  <2>1. PICK e \in Entry :
           /\ findings'[i].log = <<e>>
           /\ Ledger!Follows(Standing(findings'[i]), Ledger!Unjudged, e)
    BY <1>2 DEF Progress, Opens
  <2>2. findings'[i].gate \in Ledger!GateSaid(e.stage, "")
    BY <2>1 DEF Ledger!Follows, Ledger!Unjudged, Standing
  <2>3. CASE e.stage = "gate_pass"
    <3>1. Len(<<e>>) = 1 /\ <<e>>[1] = e
      OBVIOUS
    <3> QED
      BY <2>1, <2>3, <3>1 DEF GateShown, Passed
  <2>4. CASE e.stage # "gate_pass"
    BY <2>2, <2>4 DEF Ledger!GateSaid, GateShown
  <2> QED
    BY <2>3, <2>4
<1>5. \A i \in 1..Len(findings') : i \in 1..Len(findings) \/ i \in (Len(findings) + 1)..Len(findings')
  BY <1>2
<1> QED
  BY <1>3, <1>4, <1>5

(* A finding that nobody asked for by index is only debated after the gate *)
(* passed it, whatever the agents' calls did in between                    *)
(* (src/src/agent/tools/jury_tool.py:70).                                  *)
THEOREM DebatesFollowGates == ToolSpec => []DebatedWerePassed
<1>1. ToolInit => DebateInv
  <2>1. ToolInit => 1..Len(findings) = {}
    BY DEF ToolInit
  <2>2. ToolInit => JuryTargets
    BY DEF ToolInit, JuryTargets, Idle
  <2> QED
    BY <2>1, <2>2 DEF DebateInv
<1>2. ToolTypeOK /\ DebateInv /\ [ToolNext]_toolVars => DebateInv'
  BY OrderKept, TargetsPassed, GatesShown DEF DebateInv
<1>3. DebateInv => DebatedWerePassed
  BY DEF DebateInv, DebatedWerePassed, Ordered
<1> QED
  BY <1>1, <1>2, <1>3, ToolsTyped, PTL DEF ToolSpec

-----------------------------------------------------------------------------
(* A step of the session is one of the tools, or cuts calls off, or leaves *)
(* findings and calls alone.                                               *)
CutOff == \E S : Stop(S) /\ UNCHANGED <<findings, calls, named>>

LEMMA SessionSteps == [Next]_vars => [ToolNext]_toolVars \/ CutOff
<1>1. ASSUME NEW a \in Agents, Call(a)
      PROVE  ToolNext
  BY <1>1 DEF Call, ToolNext
<1>2. ASSUME NEW w \in Workers, Spawn(w)
      PROVE  UNCHANGED toolVars
  BY <1>2 DEF Spawn
<1>3. ASSUME NEW w \in Workers, Return(w) \/ TimeOut(w)
      PROVE  CutOff
  BY <1>3 DEF Return, TimeOut, End, CutOff
<1>4. ASSUME Interrupt \/ Quit
      PROVE  CutOff
  BY <1>4 DEF Interrupt, Quit, CutOff
<1>5. ASSUME Consume \/ UNCHANGED vars
      PROVE  UNCHANGED toolVars
  BY <1>5 DEF Consume, vars
<1> QED
  BY <1>1, <1>2, <1>3, <1>4, <1>5 DEF Next

(* What is cut off may leave targets, and adds none.                       *)
LEMMA CutOffCalls ==
  ASSUME ToolTypeOK, NEW S, Stop(S), NEW a \in Agents
  PROVE  call'[a] = Idle \/ call'[a] = call[a]
  BY DEF Stop

LEMMA CutOffTyped ==
  ASSUME ToolTypeOK, CutOff
  PROVE  ToolTypeOK'
<1>1. PICK S : Stop(S) /\ UNCHANGED <<findings, calls, named>>
  BY DEF CutOff
<1> DEFINE Calls == [tool : Tools \cup {"none"}, todo : SUBSET (Nat \X Nat)]
<1>2. Idle \in Calls /\ Idle.todo = {}
  BY DEF Idle
<1>3. call' \in [Agents -> Calls]
  <2> HIDE DEF Calls
  <2>1. call \in [Agents -> Calls]
    BY DEF ToolTypeOK, Calls
  <2> QED
    BY <1>1, <1>2, <2>1 DEF Stop
<1>4. TargetsExist'
  BY <1>1, <1>2, CutOffCalls DEF ToolTypeOK, TargetsExist
<1> QED
  BY <1>1, <1>3, <1>4 DEF ToolTypeOK

LEMMA SessionToolsTyped ==
  ASSUME ToolTypeOK, [Next]_vars
  PROVE  ToolTypeOK'
  BY SessionSteps, TypesKept, CutOffTyped

LEMMA CutOffDebates ==
  ASSUME ToolTypeOK, DebateInv, CutOff
  PROVE  DebateInv'
<1>1. PICK S : Stop(S) /\ UNCHANGED <<findings, calls, named>>
  BY DEF CutOff
<1>2. JuryTargets'
  <2>1. Idle.todo = {}
    BY DEF Idle
  <2> QED
    BY <1>1, <2>1, CutOffCalls DEF DebateInv, JuryTargets
<1> QED
  BY <1>1, <1>2 DEF DebateInv

(* In a session, with sub-agents that end in the middle of their calls,    *)
(* the findings keep what the tools promise of them                        *)
(* (src/src/agent/sub_agent.py:181, src/src/agent/context.py:105).         *)
THEOREM SessionKeepsFindings == Spec => [](ToolTypeOK /\ ChainedStand /\ DebatedWerePassed)
<1>1. Init => ToolTypeOK /\ ChainedStand /\ DebateInv
  <2>1. Init => ToolInit
    BY DEF Init
  <2>2. ToolInit => 1..Len(findings) = {}
    BY DEF ToolInit
  <2>3. ToolInit => JuryTargets
    BY DEF ToolInit, JuryTargets, Idle
  <2> QED
    BY Zenon, <2>1, <2>2, <2>3, TypesInitially DEF DebateInv, ChainedStand
<1>2. ToolTypeOK /\ ChainedStand /\ DebateInv /\ [Next]_vars
        => (ToolTypeOK /\ ChainedStand /\ DebateInv)'
  <2> SUFFICES ASSUME ToolTypeOK, ChainedStand, DebateInv, [Next]_vars
               PROVE  (ToolTypeOK /\ ChainedStand /\ DebateInv)'
    OBVIOUS
  <2>1. CASE [ToolNext]_toolVars
    BY <2>1, TypesKept, StandsKept, OrderKept, TargetsPassed, GatesShown DEF DebateInv
  <2>2. CASE CutOff
    <3>1. findings' = findings
      BY <2>2 DEF CutOff
    <3>2. ChainedStand'
      BY Zenon, <3>1 DEF ChainedStand
    <3> QED
      BY <2>2, <3>2, CutOffTyped, CutOffDebates
  <2> QED
    BY <2>1, <2>2, SessionSteps
<1>3. DebateInv => DebatedWerePassed
  BY DEF DebateInv, DebatedWerePassed, Ordered
<1> QED
  BY <1>1, <1>2, <1>3, PTL DEF Spec

(* The session implements EvidenceLedger too, wherever a sub-agent is cut  *)
(* off in a call (src/src/agent/sub_agent.py:181).                         *)
THEOREM SessionImplementsLedger == Spec => ImplementsLedger
<1>1. Init => ToolTypeOK /\ Ledger!Init
  BY Zenon, LedgerInitially, TypesInitially DEF Init
<1>2. ToolTypeOK /\ [Next]_vars => ToolTypeOK'
  BY SessionToolsTyped
<1>3. ToolTypeOK /\ [Next]_vars => Ledger!Next
  <2>1. ToolTypeOK /\ [ToolNext]_toolVars => Ledger!Next
    BY StepProgresses, ProgressIsLedgerStep DEF ToolTypeOK
  <2>2. ToolTypeOK /\ CutOff => Progress
    <3>1. ASSUME ToolTypeOK, CutOff
          PROVE  findings' = findings /\ findings \in Seq(Finding) /\ Len(findings) \in Nat
      BY <3>1 DEF ToolTypeOK, CutOff
    <3>2. \A f : Moves(f, f)
      BY DEF Moves, Same
    <3>3. ASSUME ToolTypeOK, CutOff
          PROVE  (Len(findings) + 1)..Len(findings') = {} /\ Len(findings) <= Len(findings')
      BY <3>1, <3>3
    <3> QED
      BY Zenon, <3>1, <3>2, <3>3 DEF Progress
  <2>3. ToolTypeOK /\ CutOff => Ledger!Next
    BY <2>2, ProgressIsLedgerStep DEF ToolTypeOK, CutOff
  <2> QED
    BY <2>1, <2>3, SessionSteps
<1> QED
  BY <1>1, <1>2, <1>3, PTL DEF Spec, ImplementsLedger, Ledger!Spec

-----------------------------------------------------------------------------
(* Types of the session.                                                   *)

(* Only Analyse makes the list of findings longer, and none makes it       *)
(* shorter.                                                                *)
LEMMA FindingsGrow ==
  ASSUME ToolTypeOK, [Next]_vars
  PROVE  /\ Len(findings) \in Nat /\ Len(findings') \in Nat
         /\ Len(findings) <= Len(findings')
<1>1. findings \in Seq(Finding) /\ Len(findings) \in Nat
  BY DEF ToolTypeOK
<1>2. CASE [ToolNext]_toolVars
  <2>1. Progress
    BY <1>2, StepProgresses
  <2> QED
    BY <1>1, <2>1 DEF Progress
<1>3. CASE CutOff
  <2>1. findings' = findings
    BY <1>3 DEF CutOff
  <2> QED
    BY <1>1, <2>1
<1> QED
  BY <1>2, <1>3, SessionSteps

LEMMA AddedTyped ==
  ASSUME Len(findings) \in Nat, Len(findings') \in Nat, Len(findings) <= Len(findings')
  PROVE  /\ Added \in Seq(Event)
         /\ Len(Added) = Len(findings') - Len(findings)
         /\ \A k \in 1..Len(Added) : Added[k].type = "FINDING_ADDED"
<1> DEFINE n == Len(findings') - Len(findings)
<1>1. n \in Nat
  OBVIOUS
<1>2. \A k \in 1..n : [type |-> "FINDING_ADDED", index |-> Len(findings) + k] \in Event
  BY DEF Event
<1>3. Added = [k \in 1..n |-> [type |-> "FINDING_ADDED", index |-> Len(findings) + k]]
  BY DEF Added
<1> HIDE DEF n
<1>4. Added \in Seq(Event) /\ Len(Added) = n
  BY <1>1, <1>2, <1>3
<1> QED
  BY <1>3, <1>4 DEF n

(* What Emit leaves in the queue when nothing is lost, and its type.       *)
LEMMA EmitTyped ==
  ASSUME queue \in Seq(Event), Len(queue) <= QueueSize, lost \in BOOLEAN,
         NEW es \in Seq(Event), Emit(es)
  PROVE  /\ queue' \in Seq(Event) /\ Len(queue') <= QueueSize /\ lost' \in BOOLEAN
         /\ ~lost' => ~lost /\ queue' = queue \o es
<1> DEFINE room == QueueSize - Len(queue)
<1>1. room \in Nat /\ Len(queue) \in Nat /\ Len(es) \in Nat
  BY QueueAssumption
<1>2. CASE Len(es) <= room
  <2>1. queue' = queue \o es /\ lost' = lost
    BY <1>2 DEF Emit
  <2>2. Len(queue') = Len(queue) + Len(es) /\ queue' \in Seq(Event)
    BY <2>1
  <2> QED
    BY <1>1, <1>2, <2>1, <2>2, QueueAssumption
<1>3. CASE ~(Len(es) <= room)
  <2>1. queue' = queue \o SubSeq(es, 1, room) /\ lost' = TRUE
    BY <1>3 DEF Emit
  <2>2. SubSeq(es, 1, room) \in Seq(Event) /\ Len(SubSeq(es, 1, room)) = room
    BY <1>1, <1>3
  <2>3. Len(queue') = Len(queue) + room /\ queue' \in Seq(Event)
    BY <2>1, <2>2
  <2> QED
    BY <1>1, <2>1, <2>3, QueueAssumption
<1> QED
  BY <1>2, <1>3

LEMMA StopAll ==
  ASSUME NEW S, Stop(S), NEW a \in Agents
  PROVE  call'[a] = IF a \in S THEN Idle ELSE call[a]
  BY DEF Stop

LEMMA SessionTyped ==
  ASSUME TypeOK, [Next]_vars
  PROVE  TypeOK'
<1>1. ToolTypeOK'
  BY SessionToolsTyped DEF TypeOK
<1>2. \A w \in Workers :
         /\ <<[type |-> "WORKER_SPAWNED", worker |-> w]>> \in Seq(Event)
         /\ <<[type |-> "WORKER_COMPLETE", worker |-> w]>> \in Seq(Event)
  BY DEF Event
<1>3. ASSUME NEW a \in Agents, Call(a)
      PROVE  TypeOK'
  <2>1. Added \in Seq(Event)
    BY FindingsGrow, AddedTyped DEF TypeOK
  <2>2. Emit(Added) /\ UNCHANGED sessionVars
    BY <1>3 DEF Call
  <2>3. queue' \in Seq(Event) /\ Len(queue') <= QueueSize /\ lost' \in BOOLEAN
    BY <2>1, <2>2, EmitTyped DEF TypeOK
  <2> QED
    BY <1>1, <2>2, <2>3 DEF TypeOK, sessionVars
<1>4. ASSUME NEW w \in Workers, Spawn(w)
      PROVE  TypeOK'
  <2>1. queue' \in Seq(Event) /\ Len(queue') <= QueueSize /\ lost' \in BOOLEAN
    BY <1>2, <1>4, EmitTyped DEF Spawn, TypeOK
  <2>2. /\ life' \in [Workers -> Lives]
        /\ status' \in [Workers -> {"none", "running", "done", "failed"}]
    BY <1>4 DEF Spawn, TypeOK, Lives
  <2> QED
    BY <1>1, <1>4, <2>1, <2>2 DEF Spawn, TypeOK
<1>5. ASSUME NEW w \in Workers, Return(w) \/ TimeOut(w)
      PROVE  TypeOK'
  <2>1. PICK how \in {"done", "failed"} : End(w, how)
    BY <1>5 DEF Return, TimeOut
  <2>2. queue' \in Seq(Event) /\ Len(queue') <= QueueSize /\ lost' \in BOOLEAN
    BY <1>2, <2>1, EmitTyped DEF End, TypeOK
  <2>3. /\ life' \in [Workers -> Lives]
        /\ status' \in [Workers -> {"none", "running", "done", "failed"}]
    BY <2>1 DEF End, Settle, TypeOK, Lives
  <2> QED
    BY <1>1, <2>1, <2>2, <2>3 DEF End, TypeOK
<1>6. CASE Interrupt
  <2>1. life' \in [Workers -> Lives]
    BY <1>6 DEF Interrupt, TypeOK, Lives
  <2> QED
    BY <1>1, <1>6, <2>1 DEF Interrupt, TypeOK
<1>7. CASE Quit
  <2>1. life' \in [Workers -> Lives]
    BY <1>7 DEF Quit, TypeOK, Lives
  <2>2. queue' \in Seq(Event) /\ Len(queue') <= QueueSize
    BY <1>7, QueueAssumption DEF Quit
  <2> QED
    BY <1>1, <1>7, <2>1, <2>2 DEF Quit, TypeOK
<1>8. CASE Consume
  <2>1. queue # <<>> /\ queue \in Seq(Event) /\ Head(queue) \in Event
    BY <1>8 DEF Consume, TypeOK
  <2>2. queue' \in Seq(Event) /\ Len(queue') <= QueueSize
    BY <1>8, <2>1, QueueAssumption DEF Consume, TypeOK
  <2>3. shown' \in Nat
    <3>1. Len(findings) \in Nat
      BY FindingsGrow DEF TypeOK
    <3> QED
      BY <1>8, <3>1 DEF Consume, Route, TypeOK
  <2>4. panel' \in [Workers -> {"none", "running", "done"}]
    BY <1>8, <2>1 DEF Consume, Route, TypeOK
  <2> QED
    BY <1>1, <1>8, <2>2, <2>3, <2>4 DEF Consume, TypeOK
<1>9. CASE UNCHANGED vars
  BY <1>1, <1>9 DEF vars, sessionVars, TypeOK
<1> QED
  BY <1>3, <1>4, <1>5, <1>6, <1>7, <1>8, <1>9 DEF Next

LEMMA SessionTypedInitially == Init => TypeOK
<1> SUFFICES ASSUME Init
             PROVE  TypeOK
  OBVIOUS
<1>1. ToolTypeOK
  BY Zenon, TypesInitially DEF Init
<1>2. queue \in Seq(Event) /\ Len(queue) = 0
  <2>1. queue = <<>>
    BY DEF Init
  <2> QED
    BY <2>1
<1>3. Len(queue) <= QueueSize
  BY <1>2, QueueAssumption
<1>4. /\ lost \in BOOLEAN /\ open \in BOOLEAN /\ completed \subseteq Workers /\ shown \in Nat
      /\ life \in [Workers -> Lives]
      /\ status \in [Workers -> {"none", "running", "done", "failed"}]
      /\ panel \in [Workers -> {"none", "running", "done"}]
  BY DEF Init, Lives
<1> QED
  BY Zenon, <1>1, <1>2, <1>3, <1>4 DEF TypeOK

(* The session's state is well typed, and the subscriber's queue never     *)
(* holds more than it may (src/src/agent/events.py:51).                    *)
THEOREM SessionTypeCorrect == Spec => []TypeOK
  BY SessionTypedInitially, SessionTyped, PTL DEF Spec

-----------------------------------------------------------------------------
(* Calls belong to running agents.                                         *)

LEMMA CallsStayLive ==
  ASSUME TypeOK, CallsAreLive, [Next]_vars
  PROVE  CallsAreLive'
<1>1. Main \in Agents /\ Workers \subseteq Agents /\ Main \notin Workers
      /\ \A a \in Agents : a = Main \/ a \in Workers
  BY SessionAssumption
<1>2. ASSUME NEW a \in Agents, Call(a)
      PROVE  CallsAreLive'
  <2>1. open /\ MayCall(a) /\ open' = open /\ life' = life
    BY <1>2 DEF Call, sessionVars
  <2>2. \A b \in Agents : b # a => call'[b] = call[b]
    <3>1. CASE Analyse(a) \/ Sweep(a) \/ Chain(a)
      BY <3>1 DEF Analyse, Sweep, Chain
    <3>2. CASE Begin(a)
      BY <3>2, BeginTargets DEF TypeOK, ToolTypeOK
    <3>3. CASE Answer(a) \/ Finish(a)
      BY <3>3, CallsShrink DEF TypeOK, ToolTypeOK
    <3> QED
      BY <1>2, <3>1, <3>2, <3>3 DEF Call, UseTool
  <2> QED
    BY <2>1, <2>2 DEF CallsAreLive, MayCall
<1>3. ASSUME NEW w \in Workers, Spawn(w)
      PROVE  CallsAreLive'
  <2>1. /\ open /\ open' = open /\ call' = call
        /\ call[Main] = Idle /\ life[w] = "unborn"
    BY <1>3 DEF Spawn, toolVars
  <2>2. \A v \in Workers : v # w => life'[v] = life[v]
    BY <1>3 DEF Spawn, TypeOK
  <2>3. call[w] = Idle
    BY <1>1, <2>1 DEF CallsAreLive, MayCall
  <2> QED
    BY <1>1, <2>1, <2>2, <2>3 DEF CallsAreLive, MayCall
<1>4. ASSUME NEW w \in Workers, Return(w) \/ TimeOut(w)
      PROVE  CallsAreLive'
  <2>1. /\ open /\ open' = open /\ Stop({w})
        /\ life' = [life EXCEPT ![w] = "over"]
    BY <1>4 DEF Return, TimeOut, End
  <2>2. \A v \in Workers : life'[v] = IF v = w THEN "over" ELSE life[v]
    BY <2>1 DEF TypeOK
  <2>3. \A a \in Agents : call'[a] = IF a = w THEN Idle ELSE call[a]
    BY <2>1, StopAll
  <2> QED
    BY <1>1, <2>1, <2>2, <2>3 DEF CallsAreLive, MayCall
<1>5. CASE Interrupt
  <2> DEFINE S == {Main} \cup {w \in Workers : life[w] = "foreground"}
  <2>1. /\ open /\ open' = open /\ Stop(S)
        /\ \A w \in Workers : life'[w] = IF life[w] = "foreground" THEN "over" ELSE life[w]
    BY <1>5 DEF Interrupt
  <2>2. \A a \in Agents : call'[a] = IF a \in S THEN Idle ELSE call[a]
    BY <2>1, StopAll
  <2> QED
    BY <1>1, <2>1, <2>2 DEF CallsAreLive, MayCall
<1>6. CASE Quit
  <2>1. \A a \in Agents : call'[a] = Idle
    BY <1>6, StopAll DEF Quit
  <2> QED
    BY <2>1 DEF CallsAreLive
<1>7. CASE Consume \/ UNCHANGED vars
  BY <1>7 DEF Consume, vars, toolVars, sessionVars, CallsAreLive, MayCall
<1> QED
  BY <1>2, <1>3, <1>4, <1>5, <1>6, <1>7 DEF Next

(* No agent that ended, was interrupted or waits for a sub-agent is in a   *)
(* call, and none is after the application was closed: nobody changes a    *)
(* finding that is not running (src/src/agent/sub_agent.py:181).           *)
THEOREM SessionCallsAreLive == Spec => []CallsAreLive
<1>1. Init => CallsAreLive
  BY DEF Init, ToolInit, CallsAreLive
<1> QED
  BY <1>1, SessionTypeCorrect, CallsStayLive, PTL DEF Spec
-----------------------------------------------------------------------------
(* The panels.  What the screen does not show yet is still in the queue,   *)
(* unless an event was dropped: a sub-agent that was spawned has its entry *)
(* or a WORKER_SPAWNED in the queue, one that told its end is done or has  *)
(* a WORKER_COMPLETE there, behind its start.                              *)
Queued(q, t, w) == {i \in 1..Len(q) : q[i].type = t /\ q[i].worker = w}

Spawning(w) == Queued(queue, "WORKER_SPAWNED", w)

Completing(w) == Queued(queue, "WORKER_COMPLETE", w)

Told(w) ==
    /\ life[w] = "unborn" =>
           panel[w] = "none" /\ Spawning(w) = {} /\ Completing(w) = {} /\ w \notin completed
    /\ life[w] # "unborn" => panel[w] # "none" \/ Spawning(w) # {}
    /\ Spawning(w) # {} => panel[w] # "done"
    /\ \A i \in Spawning(w), j \in Completing(w) : i < j
    /\ w \in completed <=> (panel[w] = "done" \/ Completing(w) # {})

Counted ==
    shown = Len(findings) \/ \E i \in 1..Len(queue) : queue[i].type = "FINDING_ADDED"

Heard == open /\ ~lost => Counted /\ \A w \in Workers : Told(w)

LEMMA Appended ==
  ASSUME NEW q \in Seq(Event), NEW es \in Seq(Event)
  PROVE  /\ Len(q \o es) = Len(q) + Len(es)
         /\ \A i \in 1..Len(q) : (q \o es)[i] = q[i]
         /\ \A i \in 1..Len(es) : (q \o es)[Len(q) + i] = es[i]
  OBVIOUS

LEMMA QueuedAfter ==
  ASSUME NEW q \in Seq(Event), NEW e \in Event, NEW t, NEW w
  PROVE  Queued(q \o <<e>>, t, w) =
           Queued(q, t, w) \cup {i \in {Len(q) + 1} : e.type = t /\ e.worker = w}
<1>1. Len(q) \in Nat /\ Len(q \o <<e>>) = Len(q) + 1 /\ (q \o <<e>>)[Len(q) + 1] = e
      /\ \A i \in 1..Len(q) : (q \o <<e>>)[i] = q[i]
  OBVIOUS
<1>2. 1..(Len(q) + 1) = (1..Len(q)) \cup {Len(q) + 1} /\ Len(q) + 1 \notin 1..Len(q)
  BY <1>1
<1> DEFINE r == q \o <<e>>
<1> HIDE DEF r
<1>3. Len(r) = Len(q) + 1 /\ r[Len(q) + 1] = e /\ \A i \in 1..Len(q) : r[i] = q[i]
  BY <1>1 DEF r
<1>4. Queued(r, t, w) =
           Queued(q, t, w) \cup {i \in {Len(q) + 1} : e.type = t /\ e.worker = w}
  BY <1>2, <1>3 DEF Queued
<1> QED
  BY <1>4 DEF r

LEMMA QueuedTail ==
  ASSUME NEW q \in Seq(Event), q # <<>>, NEW t, NEW w
  PROVE  /\ \A i \in Queued(Tail(q), t, w) : i + 1 \in Queued(q, t, w) /\ i \in Nat
         /\ \A i \in Queued(q, t, w) : i \in Nat /\ (i = 1 \/ i - 1 \in Queued(Tail(q), t, w))
<1>1. /\ Len(q) \in Nat /\ Len(Tail(q)) = Len(q) - 1
      /\ \A i \in 1..(Len(q) - 1) : Tail(q)[i] = q[i + 1]
  OBVIOUS
<1> DEFINE r == Tail(q)
<1> HIDE DEF r
<1>2. Len(r) = Len(q) - 1 /\ \A i \in 1..Len(r) : r[i] = q[i + 1]
  BY <1>1 DEF r
<1>3. /\ \A i \in Queued(r, t, w) : i + 1 \in Queued(q, t, w) /\ i \in Nat
      /\ \A i \in Queued(q, t, w) : i \in Nat /\ (i = 1 \/ i - 1 \in Queued(r, t, w))
  BY <1>1, <1>2 DEF Queued
<1> QED
  BY <1>3 DEF r

(* Events about findings tell nothing about sub-agents.                    *)
LEMMA QueuedFindings ==
  ASSUME NEW q \in Seq(Event), NEW es \in Seq(Event), NEW w,
         NEW t \in {"WORKER_SPAWNED", "WORKER_COMPLETE"},
         \A k \in 1..Len(es) : es[k].type = "FINDING_ADDED"
  PROVE  Queued(q \o es, t, w) = Queued(q, t, w)
<1>1. Len(q) \in Nat /\ Len(es) \in Nat
  OBVIOUS
<1> DEFINE r == q \o es
<1> HIDE DEF r
<1>2. /\ Len(r) = Len(q) + Len(es)
      /\ \A i \in 1..Len(q) : r[i] = q[i]
      /\ \A i \in 1..Len(es) : r[Len(q) + i] = es[i]
  BY Appended DEF r
<1>3. ASSUME NEW i \in 1..Len(r), i \notin 1..Len(q)
      PROVE  r[i].type = "FINDING_ADDED"
  <2>1. i - Len(q) \in 1..Len(es) /\ Len(q) + (i - Len(q)) = i
    BY <1>1, <1>2, <1>3
  <2> QED
    BY <1>2, <2>1
<1>4. 1..Len(q) \subseteq 1..Len(r)
  BY <1>1, <1>2
<1>5. Queued(r, t, w) = Queued(q, t, w)
  BY <1>2, <1>3, <1>4 DEF Queued
<1> QED
  BY <1>5 DEF r

(* What a sub-agent's life, its panel and the queue's events about it have *)
(* to do with one another is left alone.                                   *)
LEMMA ToldUnchanged ==
  ASSUME NEW w \in Workers, Told(w),
         life'[w] = "unborn" <=> life[w] = "unborn", panel'[w] = panel[w],
         Spawning(w)' = Spawning(w), Completing(w)' = Completing(w),
         w \in completed' <=> w \in completed
  PROVE  Told(w)'
  BY DEF Told

LEMMA HeardCall ==
  ASSUME TypeOK, Heard, [Next]_vars, NEW a \in Agents, Call(a)
  PROVE  Heard'
<1> SUFFICES ASSUME ~lost'
             PROVE  Counted' /\ \A w \in Workers : Told(w)'
  BY DEF Heard
<1>1. /\ open /\ shown' = shown /\ life' = life /\ panel' = panel /\ completed' = completed
      /\ Emit(Added)
  BY DEF Call, sessionVars
<1>2. /\ Len(findings) \in Nat /\ Len(findings') \in Nat
      /\ Len(findings) <= Len(findings')
  BY FindingsGrow DEF TypeOK
<1>3. /\ Added \in Seq(Event) /\ Len(Added) = Len(findings') - Len(findings)
      /\ \A k \in 1..Len(Added) : Added[k].type = "FINDING_ADDED"
  BY <1>2, AddedTyped
<1>4. queue \in Seq(Event) /\ Len(queue) <= QueueSize /\ lost \in BOOLEAN
  BY DEF TypeOK
<1>5. ~lost /\ queue' = queue \o Added
  BY <1>1, <1>3, <1>4, EmitTyped
<1>6. Counted /\ \A w \in Workers : Told(w)
  BY <1>1, <1>5 DEF Heard
<1> DEFINE es == Added
<1>7. es \in Seq(Event) /\ queue' = queue \o es /\ Len(es) = Len(findings') - Len(findings)
      /\ \A k \in 1..Len(es) : es[k].type = "FINDING_ADDED"
  BY <1>3, <1>5
<1> HIDE DEF es
<1>8. /\ Len(queue') = Len(queue) + Len(es) /\ Len(queue) \in Nat
      /\ \A i \in 1..Len(queue) : queue'[i] = queue[i]
      /\ \A i \in 1..Len(es) : queue'[Len(queue) + i] = es[i]
  <2>1. /\ Len(queue \o es) = Len(queue) + Len(es)
        /\ \A i \in 1..Len(queue) : (queue \o es)[i] = queue[i]
        /\ \A i \in 1..Len(es) : (queue \o es)[Len(queue) + i] = es[i]
    BY Zenon, <1>4, <1>7, Appended
  <2>2. Len(queue) \in Nat
    BY <1>4
  <2>3. queue' = queue \o es
    BY <1>7
  <2> QED
    BY Zenon, <2>1, <2>2, <2>3
<1>9. Counted'
  <2>1. CASE Len(es) = 0
    BY <1>1, <1>2, <1>6, <1>7, <1>8, <2>1 DEF Counted
  <2>2. CASE Len(es) # 0
    <3>1. 1 \in 1..Len(es) /\ Len(queue) + 1 \in 1..Len(queue')
      BY <1>2, <1>7, <1>8, <2>2
    <3>2. queue'[Len(queue) + 1].type = "FINDING_ADDED"
      BY <1>7, <1>8, <3>1
    <3> QED
      BY <3>1, <3>2 DEF Counted
  <2> QED
    BY <2>1, <2>2
<1>10. ASSUME NEW w \in Workers
       PROVE  Told(w)'
  <2>1. Spawning(w)' = Spawning(w) /\ Completing(w)' = Completing(w)
    BY <1>4, <1>7, QueuedFindings DEF Spawning, Completing
  <2> QED
    BY <1>1, <1>6, <2>1, ToldUnchanged
<1> QED
  BY <1>9, <1>10

(* One event about a sub-agent is sent.                                    *)
LEMMA HeardOne ==
  ASSUME TypeOK, Heard, open, NEW w \in Workers,
         NEW t \in {"WORKER_SPAWNED", "WORKER_COMPLETE"},
         Emit(<<[type |-> t, worker |-> w]>>), ~lost',
         shown' = shown, findings' = findings
  PROVE  /\ Counted' /\ \A v \in Workers : Told(v)
         /\ Len(queue) \in Nat
         /\ \A v \in Workers : v # w =>
               Spawning(v)' = Spawning(v) /\ Completing(v)' = Completing(v)
         /\ t = "WORKER_SPAWNED" =>
               Spawning(w)' = Spawning(w) \cup {Len(queue) + 1} /\ Completing(w)' = Completing(w)
         /\ t = "WORKER_COMPLETE" =>
               Completing(w)' = Completing(w) \cup {Len(queue) + 1} /\ Spawning(w)' = Spawning(w)
<1> DEFINE e == [type |-> t, worker |-> w]
<1>1. e \in Event /\ <<e>> \in Seq(Event) /\ e.type = t /\ e.worker = w
  BY DEF Event
<1>2. queue \in Seq(Event) /\ Len(queue) <= QueueSize /\ lost \in BOOLEAN
  BY DEF TypeOK
<1>3. Emit(<<e>>)
  OBVIOUS
<1> HIDE DEF e
<1>4. ~lost /\ queue' = queue \o <<e>>
  BY <1>1, <1>2, <1>3, EmitTyped
<1>5. Counted /\ \A v \in Workers : Told(v)
  BY <1>4 DEF Heard
<1>6. Len(queue) \in Nat /\ Len(queue') = Len(queue) + 1
      /\ \A i \in 1..Len(queue) : queue'[i] = queue[i]
  BY <1>1, <1>2, <1>4
<1>7. Counted'
  BY <1>5, <1>6 DEF Counted
<1>8. ASSUME NEW v \in Workers
      PROVE  /\ Spawning(v)' = Spawning(v) \cup {i \in {Len(queue) + 1} : t = "WORKER_SPAWNED" /\ w = v}
             /\ Completing(v)' = Completing(v) \cup {i \in {Len(queue) + 1} : t = "WORKER_COMPLETE" /\ w = v}
  BY <1>1, <1>2, <1>4, QueuedAfter DEF Spawning, Completing
<1> QED
  BY <1>5, <1>6, <1>7, <1>8

LEMMA HeardSpawn ==
  ASSUME TypeOK, Heard, NEW w \in Workers, Spawn(w)
  PROVE  Heard'
<1> SUFFICES ASSUME ~lost'
             PROVE  Counted' /\ \A v \in Workers : Told(v)'
  BY DEF Heard
<1>1. /\ open /\ life[w] = "unborn" /\ shown' = shown /\ findings' = findings
      /\ panel' = panel /\ completed' = completed
      /\ Emit(<<[type |-> "WORKER_SPAWNED", worker |-> w]>>)
  BY DEF Spawn, toolVars
<1>2. life'[w] # "unborn" /\ \A v \in Workers : v # w => life'[v] = life[v]
  BY DEF Spawn, TypeOK
<1>3. /\ Counted' /\ \A v \in Workers : Told(v)
      /\ \A v \in Workers : v # w => Spawning(v)' = Spawning(v) /\ Completing(v)' = Completing(v)
      /\ Spawning(w)' = Spawning(w) \cup {Len(queue) + 1} /\ Completing(w)' = Completing(w)
  BY <1>1, HeardOne
<1>4. Told(w)'
  BY <1>1, <1>2, <1>3 DEF Told
<1>5. ASSUME NEW v \in Workers, v # w
      PROVE  Told(v)'
  BY <1>1, <1>2, <1>3, <1>5, ToldUnchanged
<1> QED
  BY <1>3, <1>4, <1>5

LEMMA HeardEnd ==
  ASSUME TypeOK, Heard, NEW w \in Workers, NEW how, End(w, how)
  PROVE  Heard'
<1> SUFFICES ASSUME ~lost'
             PROVE  Counted' /\ \A v \in Workers : Told(v)'
  BY DEF Heard
<1>1. /\ open /\ life[w] # "unborn" /\ shown' = shown /\ findings' = findings
      /\ panel' = panel /\ completed' = completed \cup {w}
      /\ Emit(<<[type |-> "WORKER_COMPLETE", worker |-> w]>>)
  BY DEF End
<1>2. life'[w] # "unborn" /\ \A v \in Workers : v # w => life'[v] = life[v]
  BY DEF End, TypeOK
<1>3. /\ Counted' /\ \A v \in Workers : Told(v)
      /\ \A v \in Workers : v # w => Spawning(v)' = Spawning(v) /\ Completing(v)' = Completing(v)
      /\ Completing(w)' = Completing(w) \cup {Len(queue) + 1} /\ Spawning(w)' = Spawning(w)
      /\ Len(queue) \in Nat
  BY <1>1, HeardOne
<1>4. \A i \in Spawning(w) : i < Len(queue) + 1
  BY <1>3 DEF Spawning, Queued
<1>5. Told(w)'
  BY <1>1, <1>2, <1>3, <1>4 DEF Told
<1>6. ASSUME NEW v \in Workers, v # w
      PROVE  Told(v)'
  BY <1>1, <1>2, <1>3, <1>6, ToldUnchanged
<1> QED
  BY <1>3, <1>5, <1>6

(* The first event of the queue is shown.                                  *)
LEMMA HeardConsume ==
  ASSUME TypeOK, Heard, Consume
  PROVE  Heard'
<1> SUFFICES ASSUME ~lost'
             PROVE  Counted' /\ \A w \in Workers : Told(w)'
  BY DEF Heard
<1>1. /\ queue # <<>> /\ queue' = Tail(queue) /\ lost' = lost /\ open
      /\ life' = life /\ completed' = completed /\ findings' = findings
  BY DEF Consume, toolVars
<1>2. Counted /\ \A w \in Workers : Told(w)
  BY <1>1 DEF Heard
<1> DEFINE e == queue[1]
<1>3. queue \in Seq(Event) /\ Len(queue) \in Nat /\ 1 \in 1..Len(queue) /\ e \in Event
      /\ Head(queue) = e
  <2>1. queue \in Seq(Event)
    BY DEF TypeOK
  <2> QED
    BY <1>1, <2>1
<1>4. Route(e)
  BY <1>1, <1>3 DEF Consume
<1>5. panel \in [Workers -> {"none", "running", "done"}]
  BY DEF TypeOK
<1>6. Counted'
  <2>1. CASE e.type = "FINDING_ADDED"
    BY <1>1, <1>4, <2>1 DEF Counted, Route
  <2>2. CASE e.type # "FINDING_ADDED"
    <3>1. shown' = shown
      BY <1>4, <2>2 DEF Route
    <3>2. ASSUME NEW i \in 1..Len(queue), queue[i].type = "FINDING_ADDED"
          PROVE  i - 1 \in 1..Len(queue') /\ queue'[i - 1].type = "FINDING_ADDED"
      <4>1. i \in Nat /\ i # 1 /\ i >= 1 /\ i <= Len(queue)
        BY <1>3, <2>2, <3>2
      <4>2. Len(queue') = Len(queue) - 1 /\ queue'[i - 1] = queue[i]
        BY <1>1, <1>3, <4>1
      <4> QED
        BY <1>3, <3>2, <4>1, <4>2
    <3> QED
      BY <1>1, <1>2, <3>1, <3>2 DEF Counted
  <2> QED
    BY <2>1, <2>2
<1>7. ASSUME NEW w \in Workers
      PROVE  Told(w)'
  <2>1. /\ \A i \in Spawning(w)' : i + 1 \in Spawning(w) /\ i \in Nat
        /\ \A i \in Spawning(w) : i \in Nat /\ (i = 1 \/ i - 1 \in Spawning(w)')
        /\ \A i \in Completing(w)' : i + 1 \in Completing(w) /\ i \in Nat
        /\ \A i \in Completing(w) : i \in Nat /\ (i = 1 \/ i - 1 \in Completing(w)')
    BY <1>1, <1>3, QueuedTail DEF Spawning, Completing
  <2>2. /\ 1 \in Spawning(w) <=> (e.type = "WORKER_SPAWNED" /\ e.worker = w)
        /\ 1 \in Completing(w) <=> (e.type = "WORKER_COMPLETE" /\ e.worker = w)
    BY <1>3 DEF Spawning, Completing, Queued
  <2>3. \A i \in Spawning(w) \cup Completing(w) : i \in Nat /\ i >= 1
    BY <1>3 DEF Spawning, Completing, Queued
  <2>4. Told(w)
    BY <1>2
  <2>5. \A i \in Spawning(w)', j \in Completing(w)' : i < j
    BY <2>1, <2>4 DEF Told
  <2>6. CASE 1 \in Spawning(w)
    <3>1. panel'[w] = "running" /\ 1 \notin Completing(w)
      BY <1>4, <1>5, <2>2, <2>6 DEF Route
    <3>2. Completing(w)' # {} <=> Completing(w) # {}
      BY <2>1, <3>1
    <3>3. life[w] # "unborn" /\ panel[w] # "done"
      BY <2>4, <2>6 DEF Told
    <3> QED
      BY <1>1, <2>4, <2>5, <3>1, <3>2, <3>3 DEF Told
  <2>7. CASE 1 \in Completing(w)
    <3>1. Spawning(w) = {}
      <4>1. \A i \in Spawning(w) : i < 1
        BY <2>4, <2>7 DEF Told
      <4> QED
        BY <2>3, <4>1
    <3>2. life[w] # "unborn" /\ panel[w] # "none" /\ w \in completed
      BY <2>4, <2>7, <3>1 DEF Told
    <3>3. panel'[w] = "done"
      BY <1>4, <1>5, <2>2, <2>7, <3>2 DEF Route
    <3>4. Spawning(w)' = {}
      BY <2>1, <3>1
    <3> QED
      BY <1>1, <2>5, <3>2, <3>3, <3>4 DEF Told
  <2>8. CASE 1 \notin Spawning(w) /\ 1 \notin Completing(w)
    <3>1. panel'[w] = panel[w]
      BY <1>4, <1>5, <2>2, <2>8 DEF Route
    <3>2. /\ Spawning(w)' # {} <=> Spawning(w) # {}
          /\ Completing(w)' # {} <=> Completing(w) # {}
      BY <2>1, <2>8
    <3> QED
      BY <1>1, <2>4, <2>5, <3>1, <3>2 DEF Told
  <2> QED
    BY <2>6, <2>7, <2>8
<1> QED
  BY <1>6, <1>7

LEMMA HeardKept ==
  ASSUME TypeOK, Heard, [Next]_vars
  PROVE  Heard'
<1>1. ASSUME NEW a \in Agents, Call(a)
      PROVE  Heard'
  BY <1>1, HeardCall
<1>2. ASSUME NEW w \in Workers, Spawn(w)
      PROVE  Heard'
  BY <1>2, HeardSpawn
<1>3. ASSUME NEW w \in Workers, Return(w) \/ TimeOut(w)
      PROVE  Heard'
  BY <1>3, HeardEnd DEF Return, TimeOut
<1>4. CASE Interrupt
  <2>1. \A w \in Workers : life'[w] = "unborn" <=> life[w] = "unborn"
    BY <1>4 DEF Interrupt
  <2>2. /\ open' = open /\ lost' = lost /\ queue' = queue /\ findings' = findings
        /\ shown' = shown /\ panel' = panel /\ completed' = completed
    BY <1>4 DEF Interrupt
  <2>3. \A w \in Workers : Spawning(w)' = Spawning(w) /\ Completing(w)' = Completing(w)
    BY <2>2 DEF Spawning, Completing
  <2> QED
    BY <2>1, <2>2, <2>3, ToldUnchanged DEF Heard, Counted
<1>5. CASE Quit
  BY <1>5 DEF Quit, Heard
<1>6. CASE Consume
  BY <1>6, HeardConsume
<1>7. CASE UNCHANGED vars
  <2>1. /\ open' = open /\ lost' = lost /\ queue' = queue /\ findings' = findings
        /\ shown' = shown /\ panel' = panel /\ completed' = completed /\ life' = life
    BY <1>7 DEF vars, toolVars, sessionVars
  <2>2. \A w \in Workers : Spawning(w)' = Spawning(w) /\ Completing(w)' = Completing(w)
    BY <2>1 DEF Spawning, Completing
  <2> QED
    BY <2>1, <2>2, ToldUnchanged DEF Heard, Counted
<1> QED
  BY <1>1, <1>2, <1>3, <1>4, <1>5, <1>6, <1>7 DEF Next

(* With nothing queued and nothing dropped the screen is complete: all     *)
(* findings, an entry for every sub-agent that was spawned, and those and  *)
(* only those done that told their end (src/src/tui/app.py:303).           *)
THEOREM PanelsCatchUp == Spec => []PanelCatchesUp
<1>1. Init => Heard
  <2> SUFFICES ASSUME Init
               PROVE  Counted /\ \A w \in Workers : Told(w)
    BY DEF Heard
  <2>1. Counted
    BY DEF Init, ToolInit, Counted
  <2>2. ASSUME NEW w \in Workers
        PROVE  Told(w)
    <3>1. Spawning(w) = {} /\ Completing(w) = {}
      BY DEF Init, Spawning, Completing, Queued
    <3> QED
      BY <3>1 DEF Init, Told
  <2> QED
    BY <2>1, <2>2
<1>2. Heard => PanelCatchesUp
  <2> SUFFICES ASSUME Heard, open, queue = <<>>, ~lost
               PROVE  /\ shown = Len(findings)
                      /\ \A w \in Workers : (panel[w] = "none") <=> (life[w] = "unborn")
                      /\ \A w \in Workers : (panel[w] = "done") <=> (w \in completed)
    BY DEF PanelCatchesUp
  <2>1. 1..Len(queue) = {}
    OBVIOUS
  <2>2. \A w \in Workers : Spawning(w) = {} /\ Completing(w) = {}
    BY <2>1 DEF Spawning, Completing, Queued
  <2> QED
    BY <2>1, <2>2 DEF Heard, Counted, Told
<1> QED
  BY <1>1, <1>2, SessionTypeCorrect, HeardKept, PTL DEF Spec

=============================================================================
