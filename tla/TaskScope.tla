----------------------------- MODULE TaskScope -----------------------------
(***************************************************************************)
(* What running a scope promises, whatever loops, admission, stops and     *)
(* Continue do in between: a task is worked on by one execution at a time, *)
(* only the execution that holds it finishes it, and an ended scope is     *)
(* opened again only when nobody is left at work.  TaskRunner implements   *)
(* it.                                                                     *)
(***************************************************************************)
CONSTANTS Root, Agents, Executions, None

Tasks == Agents \cup {Root}
Live  == {"pending", "running"}
Ended == {"completed", "failed", "killed"}

VARIABLES
    status,   \* of every task
    holder,   \* the execution a task was granted to
    job,      \* the task an execution was granted
    gone      \* executions that have left

vars == <<status, holder, job, gone>>

AtWork == {x \in Executions : job[x] # None} \ gone

Init ==
    /\ status = [t \in Tasks |-> IF t = Root THEN "pending" ELSE "none"]
    /\ holder = [t \in Tasks |-> None]
    /\ job = [x \in Executions |-> None]
    /\ gone = {}

(* Only a root that is being worked on has agents. *)
Spawn(a) ==
    /\ status[a] = "none" /\ holder[Root] \in AtWork
    /\ status' = [status EXCEPT ![a] = "pending"]
    /\ UNCHANGED <<holder, job, gone>>

(* Each grant is a new execution, and the task's former ones are gone. *)
Grant(t, x) ==
    /\ status[t] = "pending" /\ job[x] = None
    /\ \A y \in AtWork : job[y] # t
    /\ status' = [status EXCEPT ![t] = "running"]
    /\ holder' = [holder EXCEPT ![t] = x]
    /\ job' = [job EXCEPT ![x] = t]
    /\ UNCHANGED gone

(* A task completes through its holder. *)
Complete(x) ==
    /\ x \in AtWork /\ holder[job[x]] = x
    /\ status' = [status EXCEPT ![job[x]] = "completed"]
    /\ holder' = [holder EXCEPT ![job[x]] = None]
    /\ UNCHANGED <<job, gone>>

(* Failures and stops end tasks together and take them from their holders. *)
Abort(S, st) ==
    /\ S # {} /\ \A t \in S : status[t] \in Live
    /\ status' = [t \in Tasks |-> IF t \in S THEN st ELSE status[t]]
    /\ holder' = [t \in Tasks |-> IF t \in S THEN None ELSE holder[t]]
    /\ UNCHANGED <<job, gone>>

Leave(x) ==
    /\ x \in AtWork
    /\ gone' = gone \cup {x}
    /\ UNCHANGED <<status, holder, job>>

(* Only failed tasks are opened again, by a Continue that found all quiet. *)
Reopen(E) ==
    /\ AtWork = {} /\ E # {} /\ \A t \in E : status[t] = "failed"
    /\ \E st \in Live :
         status' = [t \in Tasks |-> IF t \notin E THEN status[t]
                                    ELSE IF t = Root THEN st ELSE "pending"]
    /\ UNCHANGED <<holder, job, gone>>

Next ==
    \/ \E a \in Agents : Spawn(a)
    \/ \E t \in Tasks, x \in Executions : Grant(t, x)
    \/ \E x \in Executions : Complete(x) \/ Leave(x)
    \/ \E S \in SUBSET Tasks, st \in {"failed", "killed"} : Abort(S, st)
    \/ \E E \in SUBSET Tasks : Reopen(E)

Spec == Init /\ [][Next]_vars
=============================================================================
