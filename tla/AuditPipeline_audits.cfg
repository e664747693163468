SPECIFICATION Spec
CHECK_DEADLOCK FALSE
CONSTANTS
    Findings = {"f1", "f2"}
    Untestable = {"f2"}
    Confidences = {40, 89, 90}
    Verdicts = {"UNASSESSED", "CONFIRMED"}
    Configs = {
        {"slither"},
        {"slither", "assumption", "gate", "depth", "chain"},
        {"slither", "semantic", "assumption", "gate", "jury", "depth", "chain"},
        {"semantic", "jury", "depth", "chain"}}
    FallbackN = 1
INVARIANTS TypeOK TestedEarnsIt ProvenNotListedRejected JudgedStaysListed ConfirmedNotRejected
PROPERTIES Finishes
