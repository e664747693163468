SPECIFICATION Spec
CHECK_DEADLOCK FALSE
CONSTANTS
    Findings = {"f1", "f2"}
    Untestable = {}
    Confidences = {40, 90}
    Verdicts = {"UNASSESSED", "CONFIRMED"}
    Configs = {{"slither", "assumption", "gate", "depth", "chain"}}
    FallbackN = 1
INVARIANTS JudgingKeepsFindings
