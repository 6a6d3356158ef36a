\* Bodies of up to four bytes of rows and an exception of 17 bytes, cut
\* anywhere into up to five chunks.
SPECIFICATION Spec
CONSTANTS
    MaxData = 4
    Datas <- AllDatas
    Messages <- NoOrShortMessage
    MaxChunks = 5
INVARIANTS
    RowsAreLines
    NothingWithheld
    WholeExceptionReported
    UnnoticedOnlyIfSplit
\* A stream stops when it has ended, failed or got stuck.
CHECK_DEADLOCK FALSE
