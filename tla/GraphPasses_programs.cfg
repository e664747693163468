\* Seven families of programs, each through all the passes of build_graph.
SPECIFICATION Spec
CONSTANTS
    Programs <- Families
    MinScore = 20
    MinStructural = 10
    MinExploit = 10
    Budget = 2
INVARIANTS
    PropagatedExact
    CallsBeforeWrites
    UnprotectedExact
    EscalationComplete
    TaintFollowsCalls
    ChainsAreSteps
    GuardNeverRaisesScore
    HotspotsAreWorst
    AnswersAgree
CHECK_DEADLOCK FALSE
