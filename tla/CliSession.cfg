\* Sessions of up to three recorded commands, with any number of undo, print,
\* focus and unfocus between them.
SPECIFICATION Spec
CONSTANTS
    t1 = t1
    t2 = t2
    root = root
    child = child
    other = other
    none = none
    Traces <- MCTraces
    Spans <- MCSpans
    None <- none
    Commands <- MCCommands
    ResultSets <- MCResultSets
    MaxCommands = 3
INVARIANTS
    StackRunnable
    ScreenInStep
    FocusConsistent
PROPERTIES
    ImplementsUndoStack
CHECK_DEADLOCK FALSE
