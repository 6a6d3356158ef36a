--------------------------- MODULE MCWebConnection ---------------------------
(* WebConnection with two operations of any kinds.                          *)
EXTENDS WebConnection, TLC

CONSTANTS r1, r2, s1, s2

OwnSignals == (r1 :> s1) @@ (r2 :> s2)

=============================================================================
