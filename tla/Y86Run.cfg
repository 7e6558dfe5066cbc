SPECIFICATION Spec
CONSTANTS
    WordBytes = 1
    MemLen = 32
    MaxInstr = 30
    NoLabel = NoLabel
    Array = Array
    Stack = Stack
    Proc = Proc
    End = End
    Nowhere = Nowhere
    Prelude <- MCPrelude
    Body <- MCBody
    BodyLen = 3
    Trailer <- MCTrailer
CHECK_DEADLOCK FALSE
INVARIANTS AssembledRight PipeMatchesSeq NoPipeError Y64SimMatches CyclesAccounted
PROPERTIES SeqImplementsIsa
