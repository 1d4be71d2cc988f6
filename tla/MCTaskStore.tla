----------------------------- MODULE MCTaskStore -----------------------------
(* Task trees for TLC: a root r with an agent a and its nested agent b, a    *)
(* second activation d of the agent a below r, and a second root q with a    *)
(* further activation c of the same agent.                                   *)
EXTENDS TaskStore, TLC

CONSTANTS r, a, b, c, d, q

MCParent  == [t \in Tasks |-> CASE t \in {r, q} -> None
                              [] t \in {a, d} -> r
                              [] t = b -> a
                              [] t = c -> q]
MCRoot    == [t \in Tasks |-> IF t \in {q, c} THEN q ELSE r]
MCAgentOf == [t \in Tasks |-> CASE t \in {r, q} -> None
                              [] t \in {a, c, d} -> a
                              [] t = b -> b]

\* Two roots without agents may be exchanged.
SameRoots == Permutations({r, q})

\* Leases may be exchanged anywhere.
SameLeases == Permutations(Leases)

\* One accepted submission at a time is enough for startup to restore it.
OneAccepted == Cardinality(owed) <= 1

\* Acceptance is the matter of MCTaskLostAcceptance.cfg and its neighbours.
Unaccepted == owed = {}

\* Only an active lease is asked whether it is overdue, and a new one starts
\* afresh: states that differ in the other leases alone are one.
Seen == <<tasks, leases, overdue \cap Active(leases), disk, snap, journal, owed, used, phase>>

=============================================================================
