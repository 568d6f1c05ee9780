------------------------- MODULE MCOperatorSettings -------------------------
(***************************************************************************)
(* Small instances of OperatorSettings.                                    *)
(***************************************************************************)
EXTENDS OperatorSettings, TLC

MCSymmetry == Permutations(Handlers) \cup Permutations(Entries)
=============================================================================
