SPECIFICATION FairSpec
CONSTANTS
    Generators = {g1, g2}
    timestampSize = 2
    workeridSize = 2
    sequenceSize = 4
    epoch = 10
    Start = 10
    MaxTime = 13
    None = None
INVARIANTS UniqueIds
PROPERTIES FieldsReadBack IdsIncrease SpinEnds
CHECK_DEADLOCK FALSE
