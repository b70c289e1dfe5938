----------------------------- MODULE MCKeyStore -----------------------------
EXTENDS KeyStore, TLC

Processes == Permutations(Procs)
=============================================================================
