-------------------------- MODULE MCToolApproval --------------------------
(* Instances of ToolApproval.                                            *)
EXTENDS ToolApproval, TLC

CONSTANTS w,            \* a tool with its arguments
          t1, t2, ag,   \* a Turn, the Turn after it, an agent's Turn
          k1, k2, kx    \* tasks of the two Turns, and of an agent or a token

SameTool == [c \in Calls |-> w]

\* A call in a Turn and the same call in the Turn that continues it.
ResumeTurnOf  == 1 :> t1 @@ 2 :> t2
ResumeTaskOf  == 1 :> k1 @@ 2 :> k2
ResumeResumes == t1 :> None @@ t2 :> t1
ResumeSources == k1 :> {k1} @@ k2 :> {k2, k1}

\* A call of an agent with a Turn of its own, after one of the main line or
\* before an external one; nothing is continued.
AgentTurnOf      == 1 :> t1 @@ 2 :> ag
AgentMixedTurnOf == 1 :> ag @@ 2 :> 2
MixedTaskOf      == 1 :> k1 @@ 2 :> kx
AgentResumes     == t1 :> None @@ ag :> None
SharedSources    == [k \in Tasks |-> {k}]
===========================================================================
