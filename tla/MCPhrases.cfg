SPECIFICATION AllSpec
CONSTANTS
    Siblings <- MCSiblings
    Short <- MCShort
    Four <- MCFour
    Accented <- MCAccented
    Entropy <- MCEntropy
    Byte <- MCByte
    None = None
    Thread = {th1, th2}
    WordType = {english}
    MaxClears = 2
    Null = Null
INVARIANTS
    PhraseCarriesEntropy
    PlainIsValid
    AcceptedIsChecked
    SeedsAgree
    DeadIsQueued
PROPERTIES
    Recovers
    CallsReturn
