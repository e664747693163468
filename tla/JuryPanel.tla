----------------------------- MODULE JuryPanel -----------------------------
(***************************************************************************)
(* How one finding is judged (src/src/pipeline/workers/jury_worker.py):    *)
(* the four gates are one question to one model; the jury is three jurors  *)
(* asked at once and a judge who reads their verdicts.  A reply that is    *)
(* not JSON is "unreadable", a call that fails or takes too long "failed". *)
(***************************************************************************)
EXTENDS Integers, FiniteSets

CONSTANT
    GateTimeout   \* GATE_EVALUATE_TIMEOUT in seconds, 120 by default

ASSUME GateTimeoutAssumption == GateTimeout \in Nat

Jurors == {"skeptic", "attacker", "auditor"}

Votes == {"CONFIRM", "REJECT", "UNCERTAIN"}

Decisions == {"CONFIRMED", "REJECTED", "ESCALATE", "CONFIRMED_UNPROVABLE"}

GateVerdicts == {"PASS", "GATE_REFUTED", "GATE_DEMOTED"}

(* JurorWorker.review: no reply a juror can give leaves it without a vote. *)
Vote(reply) == IF reply \in Votes THEN reply ELSE "UNCERTAIN"

(* JudgeWorker._fallback_arbitration.                                      *)
Fallback(votes) ==
    LET for(v) == Cardinality({j \in Jurors : votes[j] = v})
    IN IF for("CONFIRM") >= 2 THEN "CONFIRMED"
       ELSE IF for("REJECT") >= 2 THEN "REJECTED"
       ELSE "ESCALATE"

(* JudgeWorker.arbitrate: the judge's decision stands whatever the votes   *)
(* were; without one they are counted, and one that is no decision         *)
(* escalates.                                                              *)
Arbitrate(votes, judge) ==
    IF judge \in {"unreadable", "failed"} THEN Fallback(votes)
    ELSE IF judge \in Decisions THEN judge
    ELSE "ESCALATE"

JurorReplies == Votes \cup {"unreadable", "failed"}

JudgeReplies == Decisions \cup {"unknown", "unreadable", "failed"}

(* JuryCoordinator.evaluate, and the decisions a debate can come to.       *)
Debate(replies, judge) == Arbitrate([j \in Jurors |-> Vote(replies[j])], judge)

Debates ==
    {Debate(replies, judge) : replies \in [Jurors -> JurorReplies], judge \in JudgeReplies}

(* gate_evaluate fails open: a reply it cannot use passes the finding, and *)
(* so does its own timeout.  The tool waits 120 seconds for it; of two     *)
(* timeouts at the same time the tool's, set first, is the one that ends   *)
(* the call, and the finding keeps the verdict it had.                     *)
GateReplies == GateVerdicts \cup {"unreadable", "timeout"}

FailsOpen == GateTimeout < 120

GateResults ==
    {IF reply \in GateVerdicts THEN reply ELSE "PASS" :
        reply \in {r \in GateReplies : r = "timeout" => FailsOpen}}
=============================================================================
