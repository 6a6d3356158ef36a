----------------------------- MODULE MCRowStream -----------------------------
(* RowStream on every body of a few bytes, with and without an exception.  *)
EXTENDS RowStream

CONSTANTS MaxData   \* bound on the bytes before the exception

X == 120            \* any other byte

AllDatas == UNION {[1..n -> {X, CR, LF}] : n \in 0..MaxData}
NoOrShortMessage == {<<>>, <<X>>}

=============================================================================
