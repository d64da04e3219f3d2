SPECIFICATION Spec
CONSTANTS
    Siblings <- MCSiblings
    Short <- MCShort
    Four <- MCFour
    Accented <- MCAccented
    Entropy <- MCEntropy
    Byte <- MCByte
    None = None
INVARIANTS
    AtMost24Words
