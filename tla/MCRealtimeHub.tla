--------------------------- MODULE MCRealtimeHub ---------------------------
(* A small instance of RealtimeHub for TLC. *)
EXTENDS RealtimeHub

CONSTANTS c1, c2, p1, p2

TwoClients == {c1, c2}
TwoProjects == {p1, p2}
=============================================================================
