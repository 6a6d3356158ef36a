\* The chunk that brings the first line end of an exception may end before
\* the exception does.
SPECIFICATION Spec
CONSTANTS
    MaxData = 1
    Datas <- AllDatas
    Messages <- NoOrShortMessage
    MaxChunks = 2
INVARIANTS
    ExtractionTerminates
CHECK_DEADLOCK FALSE
