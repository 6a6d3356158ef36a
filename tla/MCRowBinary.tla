----------------------------- MODULE MCRowBinary -----------------------------
(* Instance of RowBinaryPipe for TLC: bodies of up to three rows.          *)
EXTENDS RowBinaryPipe

Ends(a, b, c) == [r \in 0..3 |-> <<0, a, a + b, a + b + c>>[r + 1]]

MCLayouts == {Ends(1, 3, 2), Ends(2, 2, 2), Ends(3, 1, 1)}
MCBufferSizes == {1, 2, 4}
=============================================================================
