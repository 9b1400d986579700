--------------------------- MODULE MCSessionCookie ---------------------------
(* An instance of SessionCookie for TLC.                                     *)
EXTENDS SessionCookie
=============================================================================
