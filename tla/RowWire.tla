------------------------------- MODULE RowWire -------------------------------
(***************************************************************************)
(* A RowBinary body: rows one after the other, with no count, length       *)
(* prefix or delimiter between them.  What RowWriter produces and what     *)
(* RowBinaryStream reads.  A byte is its offset in the body, and row r is  *)
(* the bytes [ends[r - 1], ends[r]).                                       *)
(***************************************************************************)
EXTENDS Integers

CONSTANTS
    RowCount,       \* rows the caller writes
    Layouts         \* where those rows may end

ASSUME WireAssumption ==
    /\ RowCount \in Nat \ {0}
    /\ Layouts \subseteq [0..RowCount -> Nat]
    /\ \A e \in Layouts :
         /\ e[0] = 0
         /\ \A r, s \in 0..RowCount : r < s => e[r] < e[s]

VARIABLES
    ends,           \* where the rows of this body end
    wire,           \* bytes on the wire
    closed          \* the body is complete

RowLength(r) == ends[r] - ends[r - 1]
=============================================================================
