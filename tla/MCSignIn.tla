------------------------------ MODULE MCSignIn ------------------------------
EXTENDS SignIn, TLC

CONSTANTS ann, bob, host, c1, c2

MCUsers == {ann, bob}
MCAddrs == {host}
MCConns == {c1, c2}
MCSymmetry == Permutations({c1, c2})
=============================================================================
