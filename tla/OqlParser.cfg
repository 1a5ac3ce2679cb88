CONSTANTS
    Words <- Tokens
    Texts <- Lines
    Refinements <- Appended
    MaxRefinements = 1
    Literals <- Kinds
SPECIFICATION Spec
INVARIANTS
    WithinText
    ReadsAsMeant
PROPERTIES
    Advances
CHECK_DEADLOCK FALSE
