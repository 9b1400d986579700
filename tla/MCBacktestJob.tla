---------------------------- MODULE MCBacktestJob ----------------------------
(* Instances of BacktestJob for TLC.                                         *)
EXTENDS BacktestJob, TLC

\* RetryConfig::default() excludes only kinds that are not transient here.
NoKinds == {}
AllKinds == Kinds

TrialSymmetry == Permutations(Trials)
=============================================================================
