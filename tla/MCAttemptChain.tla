--------------------------- MODULE MCAttemptChain ---------------------------
(***************************************************************************)
(* Small instances of AttemptChain.                                        *)
(***************************************************************************)
EXTENDS AttemptChain, TLC

CONSTANTS p1, p2, m1, m2

At(p, m) == [provider |-> p, model |-> m]

\* A plan across two providers, one that stays with a single provider, and
\* none at all.
MCPlans == {<<At(p1, m1), At(p2, m1)>>, <<At(p1, m1), At(p1, m2)>>, <<>>}

\* The plan of the liveness run.
MCTwoProviders == {<<At(p1, m1), At(p2, m1)>>}

MCFree == {At(p1, m1), At(p1, m2)}

MCSymmetry == Permutations(Requests)
=============================================================================
