--------------------------- MODULE ChainAnalyzer ---------------------------
(***************************************************************************)
(* run_chain_analysis (src/src/pipeline/chain_analyzer.py): a finding that *)
(* lacks a precondition is linked with every finding that would create it. *)
(*                                                                         *)
(* A condition is the set of its significant words (longer than three      *)
(* letters and no stop word), the terms its text contains as a word or     *)
(* inside a longer one, and the kind its keywords give it.                 *)
(***************************************************************************)
EXTENDS Integers, Sequences, FiniteSets

Kinds == {"STATE", "ACCESS", "TIMING", "BALANCE"}

Severities == {"INFO", "LOW", "MEDIUM", "HIGH", "CRITICAL"}

Rank(severity) ==
    IF severity = "CRITICAL" THEN 4
    ELSE IF severity = "HIGH" THEN 3
    ELSE IF severity = "MEDIUM" THEN 2
    ELSE IF severity = "INFO" THEN 0
    ELSE 1

(* _compute_match_strength of a postcondition and a missing precondition:  *)
(* within a contract a word of the second anywhere in the text of the      *)
(* first, otherwise the words they share.                                  *)
Strength(post, pre, sameContract) ==
    LET shared == Cardinality(post.words \cap pre.words)
    IN IF shared >= 3 \/ (sameContract /\ post.text \cap pre.words # {}) THEN "STRONG"
       ELSE IF shared >= 1 \/ post.kind = pre.kind THEN "MODERATE"
       ELSE "WEAK"

(* _chain_severity: the higher of the two, and one more up to HIGH for a   *)
(* strong match.                                                           *)
ChainRank(enabler, blocked, strength) ==
    LET base == IF Rank(enabler) >= Rank(blocked) THEN Rank(enabler) ELSE Rank(blocked)
    IN IF strength = "STRONG" /\ base < 3 THEN base + 1 ELSE base

Enables(f) == f.seed.posts # <<>> /\ f.verdict # "REFUTED"

(* The chains found among the findings fs: the missing precondition m of   *)
(* the blocked finding b matches the postcondition p of the enabler e.     *)
Match(fs, l) ==
    Strength(fs[l.e].seed.posts[l.p], fs[l.b].seed.missing[l.m],
             fs[l.e].seed.contract = fs[l.b].seed.contract)

Chains(fs) ==
    {l \in UNION {[b : {b}, m : DOMAIN fs[b].seed.missing, e : {e}, p : DOMAIN fs[e].seed.posts] :
                      b \in DOMAIN fs, e \in {i \in DOMAIN fs : Enables(fs[i])}} :
        l.b # l.e /\ Match(fs, l) # "WEAK"}

(* The order in which the loops come to two chains.                        *)
Earlier(k, l) ==
    \/ k.b < l.b
    \/ k.b = l.b /\ k.m < l.m
    \/ k.b = l.b /\ k.m = l.m /\ k.e < l.e
    \/ k.b = l.b /\ k.m = l.m /\ k.e = l.e /\ k.p < l.p

Latest(chains) == CHOOSE l \in chains : \A k \in chains : ~Earlier(l, k)

(* chain_id: chains are numbered from one at every call.                   *)
Number(chains, l) == Cardinality({k \in chains : Earlier(k, l)}) + 1

Upgrade(fs, l) == ChainRank(fs[l.e].seed.severity, fs[l.b].seed.severity, Match(fs, l))

\* Mutant: a blocked finding keeps its verdict.
StillRefuted(verdict) == IF verdict = "UNASSESSED" THEN "CONTESTED" ELSE verdict

(* What a blocked finding's evidence becomes when a chain unblocks it.     *)
Revived(verdict) ==
    IF verdict = "REFUTED" THEN "PARTIAL"
    ELSE IF verdict = "UNASSESSED" THEN "CONTESTED"
    ELSE verdict

(* _apply_chain_to_findings, of every chain in turn: of a role or an       *)
(* upgrade that is set twice the last one stays.                           *)
Chained(fs, i) ==
    LET chains == Chains(fs)
        of == {l \in chains : i \in {l.e, l.b}}
        blocking == {l \in chains : l.b = i}
        raising == {l \in blocking : Upgrade(fs, l) > Rank(fs[i].seed.severity)}
    IN [fs[i] EXCEPT
          !.chains = @ \cup {Number(chains, l) : l \in of},
          !.role = IF of = {} THEN @ ELSE IF Latest(of).b = i THEN "blocked" ELSE "enabler",
          !.upgrade = IF raising = {} THEN @ ELSE Upgrade(fs, Latest(raising)),
          !.verdict = IF blocking = {} THEN @ ELSE Revived(@)]
=============================================================================
