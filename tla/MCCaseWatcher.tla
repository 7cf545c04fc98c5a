---------------------------- MODULE MCCaseWatcher ----------------------------
(* CaseWatcher with its bounds; the cfg files give the constants.  Tools      *)
(* threads are alike, and are exchanged only where no liveness is checked.   *)
EXTENDS CaseWatcher, TLC

Symmetry == Permutations(Tools)
=============================================================================
