---------------------------- MODULE MCEnvManager ----------------------------
(* Instances of EnvManager for TLC.                                          *)
EXTENDS EnvManager, TLC

\* Every environment belongs to the same branch.
SameBranch == [e \in Envs |-> "branch"]

\* Nothing, or an app and Postgres of every environment's name.
SomeLeftovers == {[e \in Envs |-> held] : held \in {{}, {"app", "db"}}}

NoLeftovers == {[e \in Envs |-> {}]}

\* The environments have one scope and the same leftovers.
Symmetry == Permutations(Envs) \cup Permutations(Requests)
=============================================================================
