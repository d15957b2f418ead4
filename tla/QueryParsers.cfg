SPECIFICATION Spec
CONSTANTS
    Operands <- MCOperands
    Symbols <- MCSymbols
    Terms <- MCTerms
    MaxTokens = 7
INVARIANTS
    OperandsKept
    ShortChainsGroup
    NamesReadBack
CHECK_DEADLOCK FALSE
