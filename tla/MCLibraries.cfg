SPECIFICATION AllSpec
CONSTANTS
    OutPoint <- MCOutPoint
    Sequence = {0, 1}
    Amount = {1, 2}
    MaxOutputs = 3
    MaxEdits = 2
INVARIANTS
    CurveOpsExact
    CodecsInvert
    ModesAgree
    PaddedInverts
    DigestIsOfWholeMessage
    KeysDerived
    FormatsRead
    NothingLeftBehind
    WitnessSignsItsType
    LegacySignsItsType
    BuilderSignsItsType
    SerializersAgree
PROPERTIES
    FieldOpsExact
    NativeCallsReturn
\* Every part ends: its input is used up, or the bound of its calls is reached
CHECK_DEADLOCK FALSE
