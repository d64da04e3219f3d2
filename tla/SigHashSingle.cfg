SPECIFICATION Spec
CONSTANTS
    OutPoint <- MCOutPoint
    Sequence = {0, 1}
    Amount = {1, 2}
    MaxOutputs = 3
    MaxEdits = 2
INVARIANT SingleSignsItsOutput
