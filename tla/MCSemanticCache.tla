-------------------------- MODULE MCSemanticCache --------------------------
EXTENDS SemanticCache, TLC

CONSTANTS a, b, m, n, p, q

MCRequests == {a, b}
MCModels == {m, n}
MCPrompts == {p, q}
\* Two conversations that are not close enough to stand for each other.
MCSimilar == [pair \in MCPrompts \X MCPrompts |-> IF pair[1] = pair[2] THEN 2 ELSE 1]
MCSymmetry == Permutations({a, b}) \cup Permutations({p, q})
=============================================================================
