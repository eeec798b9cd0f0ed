SPECIFICATION Spec
CONSTANTS
    Request = {1, 2}
    Images <- MCImages
    Truth <- MCTruth
    Inputs <- MCInputs
    Concurrency = 0
    MaxSkips = 1
    AnimMaxSize <- MCAnimMaxSize
INVARIANTS TypeOK AnswersMatchTheQuery AnimationIsKept PurgeIsComplete
PROPERTY SlotsComeBack
CHECK_DEADLOCK FALSE
