------------------------------ MODULE MCClient ------------------------------
(* A query with its ResultSet beside another operation, on both platforms.   *)
EXTENDS ClientFacade

BothPlatforms == {"node", "web"}
AllFormats == {"rows", "document", "raw"}
Colliding == {{"query_id", "query_text"}}

=============================================================================
