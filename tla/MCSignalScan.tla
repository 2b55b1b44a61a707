---------------------------- MODULE MCSignalScan ----------------------------
(***************************************************************************)
(* SignalScan for TLC.  The code treats the options of an index alike, and *)
(* no property names one: their permutations are symmetries.               *)
(***************************************************************************)
EXTENDS SignalScan, TLC

Alike == Permutations(Symbols)

=============================================================================
