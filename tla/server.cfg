CONSTANTS
    Client = {c1, c2}
    Radix = 4
    MaxFrameSize = 2
    Window = 5
    MaxLoad = 3
SPECIFICATION Spec
CHECK_DEADLOCK FALSE
INVARIANTS
    AnswersInOrder
PROPERTIES
    RequestAnswered
