SPECIFICATION Spec
CONSTANTS
    Calls = {c1, c2, c3}
    Name = {n1, n2}
    Secret = {s1}
    Empty = Empty
    None = None
INVARIANTS
    OneRowPerSecret
    ReturnedAsAsked
    MissedOnlyIfReplaced
PROPERTIES
    SecretsKept
    CallsEnd
\* Every call has ended
CHECK_DEADLOCK FALSE
