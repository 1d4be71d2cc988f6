--------------------------- MODULE ApprovalLedger ---------------------------
(***************************************************************************)
(* What the tool approvals of a session promise, whatever the registry,    *)
(* the clients and the restarts do in between: an approval is opened once, *)
(* settled once, and an allowed one is spent by at most one run.           *)
(* ToolApproval implements it.                                             *)
(***************************************************************************)
EXTENDS Naturals

CONSTANTS Calls     \* the calls that may need an approval

VARIABLES
    stage,   \* how far the approval of a call is
    ran      \* the calls that ran on it

vars == <<stage, ran>>

Stages == {"none", "open", "cancelled", "deny", "allow", "spent"}

Init == /\ stage = [c \in Calls |-> "none"]
        /\ ran = [c \in Calls |-> {}]

(* A call asks; what was granted or refused before is noted at once. *)
Ask(c) ==
    /\ stage[c] = "none"
    /\ \E s \in {"open", "allow", "deny"} : stage' = [stage EXCEPT ![c] = s]
    /\ UNCHANGED ran

(* One answer may settle several open approvals, and all of them alike. *)
Settle(C, s) ==
    /\ C # {} /\ \A c \in C : stage[c] = "open"
    /\ stage' = [c \in Calls |-> IF c \in C THEN s ELSE stage[c]]
    /\ UNCHANGED ran

(* A run spends the approval it rests on. *)
Spend(a, c) ==
    /\ stage[a] = "allow" /\ ran[a] = {}
    /\ stage' = [stage EXCEPT ![a] = "spent"]
    /\ ran' = [ran EXCEPT ![a] = {c}]

Next ==
    \/ \E c \in Calls : Ask(c)
    \/ \E C \in SUBSET Calls, s \in {"allow", "deny", "cancelled"} : Settle(C, s)
    \/ \E a, c \in Calls : Spend(a, c)

Spec == Init /\ [][Next]_vars
=============================================================================
