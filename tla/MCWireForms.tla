---------------------------- MODULE MCWireForms ----------------------------
(* The two halves of the wire, side by side: a behaviour decodes responses, *)
(* or it creates clients and sends requests.  They share no state.          *)
EXTENDS MCTypedRows, MCRequests

WireInit == Init /\ RequestsInit
WireNext ==
    \/ creations = <<>> /\ Next /\ UNCHANGED requestVars
    \/ requested = <<>> /\ RequestsNext /\ UNCHANGED vars
WireSpec == WireInit /\ [][WireNext]_<<vars, requestVars>>

=============================================================================
