---- MODULE MCSessionTurn ----
EXTENDS SessionTurn, TLC

RequestSymmetry == Permutations(Requests)
====
