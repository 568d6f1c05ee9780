-------------------------- MODULE MCProviderAccess --------------------------
(***************************************************************************)
(* Small instances of ProviderAccess: the ticker t, and handlers a and b,  *)
(* which are alike, as are the models.                                     *)
(***************************************************************************)
EXTENDS ProviderAccess, TLC

CONSTANTS t

MCSymmetry == Permutations(Models) \cup Permutations(Procs \ {t})
=============================================================================
