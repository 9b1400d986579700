----------------------------- MODULE MCLoadTests -----------------------------
(* An instance of LoadTests for TLC.                                         *)
EXTENDS LoadTests
=============================================================================
