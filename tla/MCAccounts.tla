----------------------------- MODULE MCAccounts -----------------------------
EXTENDS Accounts, TLC
CONSTANTS u1, u2, u3, c1, k1, k2, k3, b1, s1, s2
Alike == Permutations({u1, u2, u3}) \cup Permutations({k1, k2, k3}) \cup Permutations({s1, s2})
=============================================================================
