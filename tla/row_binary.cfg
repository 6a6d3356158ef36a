SPECIFICATION Spec
CONSTANTS
    RowCount = 3
    Layouts <- MCLayouts
    BufferSizes <- MCBufferSizes
    MinSize = 2
    TimeoutMs = 2
INVARIANTS
    BatchesAreWholeRows
    BytesInOrder
    CarryIsOneRow
    DoneIsDecoded
PROPERTIES
    ArrivedRowsAreDelivered
CHECK_DEADLOCK FALSE
