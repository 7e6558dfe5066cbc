SPECIFICATION Spec
CONSTANTS
    WordBytes = 1
    MemLen = 32
    MaxInstr = 30
    NoLabel = NoLabel
    Array = Array
    Stack = Stack
    Proc = Proc
    End = End
    Nowhere = Nowhere
    Prelude <- MCPrelude
    Body <- MCForwardBody
    BodyLen = 3
    Trailer <- MCTrailer
INVARIANT PipeMatchesSeq
CHECK_DEADLOCK FALSE
