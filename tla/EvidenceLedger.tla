--------------------------- MODULE EvidenceLedger ---------------------------
(***************************************************************************)
(* What Finding promises of the evidence against a finding                 *)
(* (src/src/models/finding.py:132): every stage that judges a finding      *)
(* leaves an entry with its points, and a finding's standing is what its   *)
(* entries say and nothing else.                                           *)
(***************************************************************************)
EXTENDS Integers, Sequences

VARIABLES
    ledger,    \* per finding, its entries in the order they were made
    standing   \* per finding, its score and what gate, jury and test decided

IsEntry(e) == DOMAIN e = {"stage", "points"} /\ e.points \in Int

(* What an entry of that stage says of the gate, of the jury, of a proof.  *)
GateSaid(stage, before) ==
    IF stage = "gate_pass" THEN {"PASS"}
    ELSE IF stage = "gate_refuted" THEN {"GATE_REFUTED"}
    ELSE IF stage = "gate_demoted" THEN {"GATE_DEMOTED"}
    ELSE {before}

JurySaid(stage, before) ==
    IF stage = "jury_confirmed" THEN {"CONFIRMED"}
    ELSE IF stage = "jury_contested" THEN {"ESCALATE", "CONFIRMED_UNPROVABLE"}
    ELSE IF stage = "jury_refuted" THEN {"REJECTED"}
    ELSE {before}

(* A finding's standing s after the entry e was made against standing r.   *)
Follows(s, r, e) ==
    /\ s.score = r.score + e.points
    /\ s.gate \in GateSaid(e.stage, r.gate)
    /\ s.jury \in JurySaid(e.stage, r.jury)
    /\ s.proven = (r.proven \/ e.stage = "poc_pass")

Unjudged == [score |-> 0, gate |-> "", jury |-> "", proven |-> FALSE]

Untouched(i) == ledger'[i] = ledger[i] /\ standing'[i] = standing[i]

Newest(i) == ledger'[i][Len(ledger'[i])]

Contribute(i) ==
    /\ ledger'[i] # <<>>
    /\ IsEntry(Newest(i))
    /\ ledger'[i] = Append(ledger[i], Newest(i))
    /\ Follows(standing'[i], standing[i], Newest(i))

Open(i) ==
    /\ Len(ledger'[i]) = 1
    /\ IsEntry(Newest(i))
    /\ Follows(standing'[i], Unjudged, Newest(i))

Init == ledger = <<>> /\ standing = <<>>

(* Findings are only added, and each gains at most one entry in a step.    *)
Next ==
    /\ Len(ledger) <= Len(ledger')
    /\ Len(standing') = Len(ledger')
    /\ \A i \in 1..Len(ledger) : Untouched(i) \/ Contribute(i)
    /\ \A i \in (Len(ledger) + 1)..Len(ledger') : Open(i)

Spec == Init /\ [][Next]_<<ledger, standing>>
=============================================================================
