SPECIFICATION HSpec
CONSTANTS
    HeapIds <- SixIds
    Deadlines <- ThreeDeadlines
INVARIANTS
    HeapOrdered
    IndexCorrect
PROPERTIES
    OneMemberPerStep
