SPECIFICATION HeapSpec
CONSTANTS
    HeapSize = 4
    Keys = {1, 2}
INVARIANTS HeapOrdered ContainsMembers
PROPERTY ImplementsQueue
