SPECIFICATION AllSpec
CONSTANTS
    Config <- MCConfig
    NotJson = NotJson
    Null = Null
    MaxFetching = 2
    Press = {p1, p2}
    Name = {name}
    Empty = Empty
    None = None
    MaxRestarts = 2
INVARIANTS
    TestSettingsOff
    ReadsAreAtomic
PROPERTIES
    WelcomeOnlyWhilePending
    ExistsIsLearnt
    PressesEnd
\* At Home with a wallet, no press left and MaxRestarts reached
CHECK_DEADLOCK FALSE
