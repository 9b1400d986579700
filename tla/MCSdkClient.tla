----------------------------- MODULE MCSdkClient -----------------------------
(* An instance of SdkClient for TLC.                                         *)
EXTENDS SdkClient

\* Two applications: one reports interactions and what the user thought of the first of
\* them; the other identifies its user, again, and traces an interaction.
Calls(kinds, abouts) == [kind |-> kinds, about |-> abouts]

SomeScripts ==
  {Calls(<<"event", "signal", "event", "signal">>, <<0, 1, 0, 1>>),
   Calls(<<"identify", "event", "identify", "trace">>, <<0, 0, 0, 2>>)}
=============================================================================
