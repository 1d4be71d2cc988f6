------------------------------ MODULE TaskRunner ------------------------------
(***************************************************************************)
(* One execution scope at work: the loop that RunnerManager spawns for the *)
(* scope's root, the cycle of TaskRunner it runs, the admission table that *)
(* bounds how many tasks run at once, and the executor threads that the    *)
(* dispatcher starts.  Statuses and leases are those of TaskStore, one     *)
(* mutation of the store being one step here; a cycle makes several of     *)
(* them, and executors, stops and Continue run in between.                 *)
(*                                                                         *)
(* A lease has the name of the execution that was granted it.  A mutation  *)
(* whose checkpoint fails leaves the store unchanged and reports an error; *)
(* MaxFaults bounds how often.  A reader of the store takes its lock for    *)
(* each question: a cycle that lists the tasks of the scope and then looks *)
(* at them one by one makes a step of each look.                           *)
(*                                                                         *)
(* Left out: the dispatch gate, which the daemon never sets, and a panic   *)
(* of the cycle itself, which is settled as an error is.                   *)
(***************************************************************************)
EXTENDS Naturals, FiniteSets

CONSTANTS Root,           \* the root task of the scope
          Agents,         \* the tasks its executor may spawn
          Executions,     \* leases, and the executor threads they are granted to
          Runners,        \* runner handles, one for each start of the loop
          None,
          MaxActive,      \* ExecutionAdmissionLimits.max_active_tasks
          MaxStalls,      \* in one behaviour: overdue leases, removed roles, panics, memory shortages
          MaxStops,       \* stops and Continues in one behaviour
          MaxFaults,      \* failing checkpoints in one behaviour
          MaxUpsets       \* all of these together

Tasks == Agents \cup {Root}

ASSUME TaskRunnerAssumption ==
    /\ Root \notin Agents
    /\ None \notin Tasks \cup Executions \cup Runners
    /\ IsFiniteSet(Executions) /\ IsFiniteSet(Tasks)
    /\ MaxActive \in Nat \ {0}
    /\ {MaxStalls, MaxStops, MaxFaults, MaxUpsets} \subseteq Nat

VARIABLES
    status,     \* status of every task, "none" before it exists
    lease,      \* the active lease of a task
    overdue,    \* tasks whose lease has run out
    adm,        \* phase of a task in the admission table
    queued,     \* tasks that wait for admission
    exec,       \* where an executor thread is
    job,        \* the task an execution belongs to
    loop,       \* the loops, by handle
    runner,     \* the handle in RunnerManager's map
    lock,       \* who holds the restart lock of the root, and how far it is
    unmatched,  \* tasks no worker can take any more
    short,      \* the machine has less memory than the admission table asks for
    stalls, stops, faults,
    abandoned   \* a stop, a Continue or the loop itself ended on an error that it reported

store   == <<status, lease, overdue>>
table   == <<adm, queued>>
threads == <<exec, job>>
world   == <<unmatched, short>>
counted == <<stalls, stops, faults>>
vars    == <<store, table, threads, loop, runner, lock, world, abandoned, counted>>

Live  == {"pending", "running"}
Ended == {"completed", "failed", "killed"}
LiveTasks == {t \in Tasks : status[t] \in Live}
Known     == {t \in Tasks : status[t] # "none"}

(* Registered with the dispatcher; a thread that panicked is so no more *)
(* before its failure is reported.                                      *)
InFlight  == {x \in Executions : exec[x] \notin {"none", "unseen", "over"}}
Running(h) == loop[h].pc \notin {"none", "ended"}

Idle == [pc |-> "none", cancel |-> FALSE, active |-> FALSE, seen |-> FALSE,
         ids |-> {}, whole |-> FALSE, bad |-> FALSE,
         todo |-> {}, at |-> None, did |-> FALSE, blocked |-> FALSE, cand |-> {}]

Statuses == {"none"} \cup Live \cup Ended
Phases   == {"none", "reserved", "running", "waiting"}
ExecPCs  == {"none", "granted", "working", "waiting", "ending", "reported", "released",
             "fallen", "unseen", "over"}
LoopPCs  == {"none", "top", "expire", "orphans", "scan", "list", "root", "read", "pick", "look",
             "gather", "each", "claim", "dispatch", "save", "unrunnable", "error", "ended"}
Loops    == [pc : LoopPCs, cancel : BOOLEAN, active : BOOLEAN, seen : BOOLEAN,
             ids : SUBSET Tasks, whole : BOOLEAN, bad : BOOLEAN,
             todo : SUBSET Tasks, at : Tasks \cup Executions \cup {None}, did : BOOLEAN,
             blocked : BOOLEAN, cand : SUBSET Tasks]

TypeOK ==
    /\ status \in [Tasks -> Statuses]
    /\ lease \in [Tasks -> Executions \cup {None}]
    /\ \A t \in Tasks : lease[t] # None => status[t] = "running" /\ job[lease[t]] = t
    /\ overdue \subseteq Tasks
    /\ adm \in [Tasks -> Phases]
    /\ queued \subseteq Tasks
    /\ exec \in [Executions -> ExecPCs]
    /\ job \in [Executions -> Tasks \cup {None}]
    /\ loop \in [Runners -> Loops]
    /\ runner \in Runners \cup {None}
    /\ lock \in {"free", "stopping", "quiescing", "continuing"}
    /\ unmatched \subseteq Tasks
    /\ short \in BOOLEAN /\ abandoned \in BOOLEAN
    /\ stalls \in 0 .. MaxStalls /\ stops \in 0 .. MaxStops /\ faults \in 0 .. MaxFaults

Init ==
    /\ status = [t \in Tasks |-> IF t = Root THEN "pending" ELSE "none"]
    /\ lease = [t \in Tasks |-> None]
    /\ overdue = {}
    /\ adm = [t \in Tasks |-> "none"] /\ queued = {}
    /\ exec = [x \in Executions |-> "none"] /\ job = [x \in Executions |-> None]
    /\ loop = [h \in Runners |-> Idle]
    /\ runner = None /\ lock = "free"
    /\ unmatched = {}
    /\ short = FALSE /\ abandoned = FALSE
    /\ stalls = 0 /\ stops = 0 /\ faults = 0

MayUpset == stalls + stops + faults < MaxUpsets
CanStall == stalls < MaxStalls /\ MayUpset
CanStop  == stops < MaxStops /\ MayUpset
CanFail  == faults < MaxFaults /\ MayUpset
Fault    == faults' = faults + 1
Abandon  == abandoned' = TRUE

-----------------------------------------------------------------------------
(* The admission table (ExecutionAdmissionController) *)

Occupying == {t \in Tasks : adm[t] \in {"reserved", "running"}}

(* Mutant: the limit is compared with the tasks already past it. *)
HasRoomLate == Cardinality(Occupying) <= MaxActive

(* block_reason; the limits of the session and of the role have the same form. *)
HasRoom == ~short /\ Cardinality(Occupying) < MaxActive

(* admit_locked *)
Admitted(t, phase) ==
    IF HasRoom THEN /\ adm' = [adm EXCEPT ![t] = phase]
                    /\ queued' = queued \ {t}
               ELSE /\ queued' = queued \cup {t}
                    /\ UNCHANGED adm

(* acquire: a reservation becomes the permit, whatever the load. *)
Acquires(t) == adm[t] = "reserved" \/ (adm[t] = "none" /\ HasRoom)
Acquire(t) ==
    IF adm[t] = "reserved"
    THEN adm' = [adm EXCEPT ![t] = "running"] /\ UNCHANGED queued
    ELSE IF adm[t] = "none" THEN Admitted(t, "running") ELSE UNCHANGED table

(* release_pending of every task in S *)
ReleasePending(S) ==
    /\ queued' = queued \ S
    /\ adm' = [t \in Tasks |-> IF t \in S /\ adm[t] = "reserved" THEN "none" ELSE adm[t]]

-----------------------------------------------------------------------------
(* Mutations of the store, and what goes with them *)

(* Mutant: the leases of what ends stay. *)
EndKeepsLease(S, st) ==
    /\ status' = [t \in Tasks |-> IF t \in S /\ status[t] \in Live THEN st ELSE status[t]]
    /\ overdue' = overdue \ S
    /\ UNCHANGED lease

(* revoke_active_leases_and_set_...: S ends, its leases are revoked. *)
End(S, st) ==
    /\ status' = [t \in Tasks |-> IF t \in S /\ status[t] \in Live THEN st ELSE status[t]]
    /\ lease' = [t \in Tasks |-> IF t \in S THEN None ELSE lease[t]]
    /\ overdue' = overdue \ S

(***************************************************************************)
(* settle_subtree_in_store: only what is durably ended gives up its        *)
(* admission.  With nothing live there is nothing to write.                *)
(***************************************************************************)
Settled(S, st) == End(S, st) /\ ReleasePending(S \cap Known) /\ UNCHANGED faults
Unsettled(S) ==
    /\ S \cap LiveTasks # {} /\ CanFail /\ Fault
    /\ ReleasePending({t \in S : status[t] \in Ended})
    /\ UNCHANGED store
Settle(S, st) ==
    \/ Settled(S, st) /\ UNCHANGED abandoned
    \/ Unsettled(S) /\ Abandon

(* get_runnable_leaves; a LocalAgent root comes before its pending agents. *)
Runnable ==
    {t \in Tasks : /\ status[t] = "pending"
                   /\ t # Root => status[Root] = "running"
                   /\ t = Root => \A a \in Agents : status[a] # "running"}

-----------------------------------------------------------------------------
(* RunnerManager *)

(* start_after_quiesce refuses while the handle in the map is active. *)
Startable == runner # None => ~loop[runner].active

NewHandles == {h \in Runners : loop[h].pc = "none"}

(* The new handle goes into the map and its loop starts. *)
Spawned ==
    LET h == CHOOSE g \in NewHandles : TRUE
    IN /\ Startable /\ NewHandles # {}
       /\ loop' = [loop EXCEPT ![h].pc = "top", ![h].active = TRUE]
       /\ runner' = h

(* start takes the restart lock; an accepted task is started once. *)
Start ==
    /\ lock = "free"
    /\ NewHandles = Runners
    /\ status[Root] = "pending"
    /\ Spawned
    /\ UNCHANGED <<store, table, threads, lock, world, abandoned, counted>>

SignalStop == loop' = IF runner = None THEN loop ELSE [loop EXCEPT ![runner].cancel = TRUE]

(* kill_execution_scope under the restart lock; an error is only logged. *)
Stop ==
    /\ lock = "free" /\ CanStop
    /\ stops' = stops + 1
    /\ lock' = "stopping"
    /\ SignalStop
    /\ Settle(Tasks, "killed")
    /\ UNCHANGED <<threads, runner, world, stalls>>

(* Continue takes the restart lock and stops what is left of the old run. *)
Continue ==
    /\ lock = "free" /\ CanStop
    /\ stops' = stops + 1
    /\ lock' = "quiescing"
    /\ SignalStop
    /\ UNCHANGED <<store, table, threads, runner, world, abandoned, stalls, faults>>

(* Mutant: only the loop is waited for. *)
QuietLoop == runner # None => ~Running(runner)

(* quiesce_for_restart joins the loop, then waits for every executor. *)
Quiet == /\ runner # None => ~Running(runner)
         /\ InFlight = {}

Quiesce ==
    /\ lock \in {"stopping", "quiescing"}
    /\ Quiet
    /\ loop' = IF runner = None THEN loop ELSE [loop EXCEPT ![runner].active = FALSE]
    /\ runner' = None
    /\ lock' = IF lock = "stopping" THEN "free" ELSE "continuing"
    /\ UNCHANGED <<store, table, threads, world, abandoned, counted>>

FailedTasks == {t \in Known : status[t] = "failed"}

(* The scope is opened again: E, and the root as st. *)
Reopened(E, st) ==
    status' = [t \in Tasks |-> IF t = Root /\ status[t] = "failed" THEN st
                               ELSE IF t \in E THEN "pending" ELSE status[t]]

(***************************************************************************)
(* The rest of Continue: what has failed is opened again, or only the      *)
(* agents the user named, whose root then counts as running; a new loop    *)
(* starts under the same lock.                                             *)
(***************************************************************************)
Continuable == status[Root] \in {"running", "failed"} /\ FailedTasks # {}

Reopening ==
    \/ Reopened(FailedTasks, "pending")
    \/ \E E \in (SUBSET FailedTasks) \ {{}} : Reopened(E, "running")

Resume ==
    /\ lock = "continuing"
    /\ lock' = "free"
    /\ Continuable /\ Reopening /\ Spawned
    /\ UNCHANGED <<lease, overdue, table, threads, world, abandoned, counted>>

(***************************************************************************)
(* Or it ends with an error, and the old loop is gone: nothing to continue,*)
(* a directory, an input or a record that is refused; from then on every   *)
(* error fails the tasks to be continued again, and the root with them.    *)
(* That roll-back may fail too, after some of them were opened.            *)
(***************************************************************************)
GiveUpContinue ==
    /\ lock = "continuing"
    /\ lock' = "free"
    /\ Abandon
    /\ \/ UNCHANGED <<store, faults>>
       \/ Continuable /\ End({Root}, "failed") /\ UNCHANGED faults
       \/ /\ Continuable /\ Reopening /\ CanFail /\ Fault
          /\ UNCHANGED <<lease, overdue>>
    /\ UNCHANGED <<table, threads, loop, runner, world, stalls, stops>>

(* kill_task on one agent *)
KillAgent(a) ==
    /\ status[a] \in Live /\ CanStop
    /\ stops' = stops + 1
    /\ Settled({a}, "killed") \/ Unsettled({a})
    /\ UNCHANGED <<threads, loop, runner, lock, world, abandoned, stalls>>

-----------------------------------------------------------------------------
(* One cycle of the loop *)

At(h, pc) == loop[h].pc = pc
Go(h, pc) == loop' = [loop EXCEPT ![h].pc = pc]

(* What a cycle kept in its variables is gone when it is over. *)
Fresh(h)  == loop' = [loop EXCEPT ![h] = [Idle EXCEPT !.pc = "expire", !.active = TRUE]]
Exit(h)   == loop' = [loop EXCEPT ![h] = [Idle EXCEPT !.pc = "ended", !.cancel = loop[h].cancel,
                                                      !.ids = loop[h].ids]]

(* The top of the loop looks at the cancel flag. *)
Top(h) ==
    /\ loop[h].pc \in {"top", "save"}
    /\ IF loop[h].cancel THEN Exit(h) ELSE Fresh(h)
    /\ UNCHANGED <<store, table, threads, runner, lock, world, abandoned, counted>>

(* expire_stale_leases: a lease that ran out fails its task. *)
Expire(h) ==
    /\ At(h, "expire")
    /\ \/ /\ overdue = {}
          /\ Go(h, "orphans")
          /\ UNCHANGED <<store, faults>>
       \/ /\ \E t \in overdue : End({t}, "failed")
          /\ UNCHANGED <<loop, faults>>
       \/ /\ overdue # {} /\ CanFail /\ Fault
          /\ Go(h, "error")
          /\ UNCHANGED store
    /\ UNCHANGED <<table, threads, runner, lock, world, abandoned, stalls, stops>>

Orphaned == IF status[Root] \in Ended THEN LiveTasks ELSE {}

(* kill_descendants_of_terminal_tasks *)
Orphans(h) ==
    /\ At(h, "orphans")
    /\ \/ /\ End(Orphaned, "killed")
          /\ ReleasePending({t \in Tasks : status'[t] \in Ended})
          /\ Go(h, "scan")
          /\ UNCHANGED faults
       \/ /\ Orphaned # {} /\ CanFail /\ Fault
          /\ ReleasePending({t \in Tasks : status[t] \in Ended})
          /\ Go(h, "error")
          /\ UNCHANGED store
    /\ UNCHANGED <<threads, runner, lock, world, abandoned, stalls, stops>>

(* The active leases are read, and renewed whether or not an executor lives. *)
Scan(h) ==
    /\ At(h, "scan")
    /\ loop' = [loop EXCEPT ![h].pc = "list", ![h].seen = \E t \in Tasks : lease[t] # None]
    /\ overdue' = {}
    /\ UNCHANGED <<status, lease, table, threads, runner, lock, world, abandoned, counted>>

(***************************************************************************)
(* terminal_state: the tasks of the scope are listed, the root is read,    *)
(* then each task of the list.                                             *)
(***************************************************************************)
List(h) ==
    /\ At(h, "list")
    /\ loop' = [loop EXCEPT ![h].pc = "root", ![h].ids = Known, ![h].todo = Known]
    /\ UNCHANGED <<store, table, threads, runner, lock, world, abandoned, counted>>

ReadRoot(h) ==
    /\ At(h, "root")
    /\ loop' = [loop EXCEPT ![h].pc = "read", ![h].whole = status[Root] = "completed"]
    /\ UNCHANGED <<store, table, threads, runner, lock, world, abandoned, counted>>

(* Mutant: below an ended root nothing is looked at. *)
SawLiveRoot(h, t) == ~loop[h].whole /\ status[t] \in Live

SawLive(h, t) == status[t] \in Live

(* The root is first in the list.  One live task settles it. *)
Read(h) ==
    /\ At(h, "read")
    /\ \E t \in loop[h].todo :
         /\ Root \in loop[h].todo => t = Root
         /\ loop' = IF SawLive(h, t)
                    THEN [loop EXCEPT ![h].pc = "pick", ![h].ids = {}, ![h].todo = {},
                                      ![h].whole = FALSE, ![h].bad = FALSE]
                    ELSE [loop EXCEPT ![h].todo = @ \ {t},
                                      ![h].bad = @ \/ status[t] \in {"failed", "killed"}]
    /\ UNCHANGED <<store, table, threads, runner, lock, world, abandoned, counted>>

(* None was live: the scope has ended, and the loop with it. *)
Judge(h) ==
    /\ At(h, "read") /\ loop[h].todo = {}
    /\ IF loop[h].whole \/ ~loop[h].bad THEN Exit(h) ELSE Go(h, "error")
    /\ UNCHANGED <<store, table, threads, runner, lock, world, abandoned, counted>>

(* Nothing runnable, and the leases read before decide what that means. *)
Pick(h) ==
    /\ At(h, "pick")
    /\ loop' = IF Runnable # {}
               THEN [loop EXCEPT ![h].pc = "each", ![h].todo = Runnable,
                                 ![h].did = FALSE, ![h].blocked = FALSE, ![h].cand = {}]
               ELSE [loop EXCEPT ![h].pc = IF loop[h].seen THEN "save" ELSE "look"]
    /\ UNCHANGED <<store, table, threads, runner, lock, world, abandoned, counted>>

(* collect_non_terminal_task_ids: listed again, and read one by one again. *)
Look(h) ==
    /\ At(h, "look")
    /\ loop' = [loop EXCEPT ![h].pc = "gather", ![h].todo = Known, ![h].cand = {}]
    /\ UNCHANGED <<store, table, threads, runner, lock, world, abandoned, counted>>

Gather(h) ==
    /\ At(h, "gather")
    /\ \/ \E t \in loop[h].todo :
            /\ Root \in loop[h].todo => t = Root
            /\ loop' = [loop EXCEPT ![h].todo = @ \ {t},
                                    ![h].cand = IF t \in LiveTasks THEN @ \cup {t} ELSE @]
       \/ /\ loop[h].todo = {}
          /\ Go(h, IF loop[h].cand = {} THEN "save" ELSE "unrunnable")
    /\ UNCHANGED <<store, table, threads, runner, lock, world, abandoned, counted>>

(* One runnable task: no worker, no room, or the permit to claim it. *)
Each(h) ==
    /\ At(h, "each")
    /\ \E t \in loop[h].todo :
         \/ /\ t \in unmatched
            /\ loop' = [loop EXCEPT ![h].todo = @ \ {t}, ![h].cand = @ \cup {t}]
            /\ UNCHANGED table
         \/ /\ t \notin unmatched
            /\ Acquire(t)
            /\ loop' = IF Acquires(t)
                       THEN [loop EXCEPT ![h].todo = @ \ {t}, ![h].pc = "claim", ![h].at = t]
                       ELSE [loop EXCEPT ![h].todo = @ \ {t}, ![h].blocked = TRUE]
    /\ UNCHANGED <<store, threads, runner, lock, world, abandoned, counted>>

(* The list is done: go on, wait, or give the unmatched tasks up. *)
CycleEnds(h) ==
    /\ At(h, "each") /\ loop[h].todo = {}
    /\ Go(h, IF loop[h].did \/ loop[h].blocked \/ loop[h].cand = {} THEN "save" ELSE "unrunnable")
    /\ UNCHANGED <<store, table, threads, runner, lock, world, abandoned, counted>>

DropPermit(t) == adm' = [adm EXCEPT ![t] = "none"] /\ UNCHANGED queued

Unused == {x \in Executions : exec[x] = "none"}

(* claim_task_for_execution_scope repeats the check; a lost race drops the permit. *)
Claim(h) ==
    /\ At(h, "claim")
    /\ LET t == loop[h].at
           x == CHOOSE y \in Unused : TRUE
       IN
       \/ /\ t \in Runnable
          /\ Unused # {}
          /\ status' = [status EXCEPT ![t] = "running"]
          /\ lease' = [lease EXCEPT ![t] = x]
          /\ exec' = [exec EXCEPT ![x] = "granted"]
          /\ job' = [job EXCEPT ![x] = t]
          /\ loop' = [loop EXCEPT ![h].pc = "dispatch", ![h].at = x]
          /\ UNCHANGED <<table, faults>>
       \/ /\ t \notin Runnable
          /\ DropPermit(t)
          /\ loop' = [loop EXCEPT ![h].pc = "each", ![h].at = None]
          /\ UNCHANGED <<status, lease, threads, faults>>
       \/ /\ t \in Runnable /\ CanFail /\ Fault
          /\ DropPermit(t)
          /\ loop' = [loop EXCEPT ![h].pc = "error", ![h].at = None]
          /\ UNCHANGED <<status, lease, threads>>
    /\ UNCHANGED <<overdue, runner, lock, world, abandoned, stalls, stops>>

(***************************************************************************)
(* dispatch registers the thread and hands it the permit.  In the daemon's *)
(* runtime it never refuses: what goes wrong is reported by the thread.    *)
(***************************************************************************)
Dispatch(h) ==
    /\ At(h, "dispatch")
    /\ exec' = [exec EXCEPT ![loop[h].at] = "working"]
    /\ loop' = [loop EXCEPT ![h].pc = "each", ![h].at = None, ![h].did = TRUE]
    /\ UNCHANGED <<store, table, job, runner, lock, world, abandoned, counted>>

(* Mutant: what the cycle saw is taken as it is. *)
StillUnrunnableAsSeen(C) == C # {}

(* Mutant: a running task without a lease is left to its executor. *)
StillUnrunnablePending(C) == \E t \in C : status[t] = "pending" /\ lease[t] = None

(* fail_unrunnable_execution_scope looks again before it fails the scope. *)
StillUnrunnable(C) == \E t \in C : status[t] \in Live /\ lease[t] = None

(* finalize_unrunnable_outcome *)
Unrunnable(h) ==
    /\ At(h, "unrunnable")
    /\ \/ /\ StillUnrunnable(loop[h].cand)
          /\ Settle(Tasks, "failed")
          /\ Exit(h)
       \/ /\ ~StillUnrunnable(loop[h].cand)
          /\ Go(h, "top")
          /\ UNCHANGED <<store, table, faults, abandoned>>
    /\ UNCHANGED <<threads, runner, lock, world, stalls, stops>>

(***************************************************************************)
(* An error ends the loop; a live root is failed first, as far as that     *)
(* works.  Below an ended root nothing more is done: after terminal_state  *)
(* its tasks have ended, after a failed checkpoint they may be live.       *)
(***************************************************************************)
Error(h) ==
    /\ At(h, "error")
    /\ Exit(h)
    /\ \/ status[Root] \in Live /\ Settle(Tasks, "failed")
       \/ /\ status[Root] \in Ended
          /\ abandoned' = (abandoned \/ loop[h].ids = {})
          /\ UNCHANGED <<store, table, faults>>
    /\ UNCHANGED <<threads, runner, lock, world, stalls, stops>>

(***************************************************************************)
(* The loop's own checkpoint after a cycle fails: the loop ends and leaves *)
(* the scope as it is.  Roots with another checkpoint_mode than "turn",    *)
(* which is what the daemon gives every task, have such checkpoints.       *)
(***************************************************************************)
Unsaved(h) ==
    /\ loop[h].pc \in {"save", "unrunnable", "error"}
    /\ CanFail /\ Fault
    /\ Exit(h) /\ Abandon
    /\ UNCHANGED <<store, table, threads, runner, lock, world, stalls, stops>>

-----------------------------------------------------------------------------
(* Executor threads *)

Holds(x) == lease[job[x]] = x

(* agent_spawn: the place is reserved first, the task is inserted after it. *)
Spawn(x, a) ==
    /\ exec[x] = "working" /\ job[x] = Root /\ Holds(x)
    /\ status[a] = "none"
    /\ \/ /\ Admitted(a, "reserved")
          /\ status' = [status EXCEPT ![a] = "pending"]
          /\ UNCHANGED faults
       \/ /\ CanFail /\ Fault
          /\ UNCHANGED <<table, status>>
    /\ UNCHANGED <<lease, overdue, threads, loop, runner, lock, world, abandoned, stalls, stops>>

(* suspend_while_waiting gives the place back while the executor waits. *)
Suspend(x) ==
    /\ exec[x] = "working" /\ adm[job[x]] = "running" /\ Holds(x)
    /\ exec' = [exec EXCEPT ![x] = "waiting"]
    /\ adm' = [adm EXCEPT ![job[x]] = "waiting"]
    /\ UNCHANGED <<store, queued, job, loop, runner, lock, world, abandoned, counted>>

(* try_resume *)
MayResume(t) == adm[t] = "waiting" /\ HasRoom

(* AdmissionWaitGuard::resume; a stopped task gives up and drops the guard. *)
Return(x) ==
    /\ exec[x] = "waiting"
    /\ \/ /\ Holds(x) /\ MayResume(job[x])
          /\ exec' = [exec EXCEPT ![x] = "working"]
          /\ adm' = [adm EXCEPT ![job[x]] = "running"]
       \/ /\ ~Holds(x)
          /\ exec' = [exec EXCEPT ![x] = "ending"]
          /\ adm' = IF adm[job[x]] = "waiting" THEN [adm EXCEPT ![job[x]] = "none"] ELSE adm
    /\ UNCHANGED <<store, queued, job, loop, runner, lock, world, abandoned, counted>>

(***************************************************************************)
(* TaskCompletionNotifier: the result of the lease that is still active,   *)
(* or nothing; a completion below an ended root is dropped too.  If its    *)
(* checkpoint fails, the error is logged and the thread is gone.           *)
(***************************************************************************)
MayComplete(x) == job[x] = Root \/ status[Root] \in Live

Report(x) ==
    /\ exec[x] \in {"working", "ending"}
    /\ exec' = [exec EXCEPT ![x] = "reported"]
    /\ \/ /\ Holds(x)
          /\ \/ MayComplete(x) /\ End({job[x]}, "completed")
             \/ \E st \in {"failed", "killed"} : End({job[x]}, st)
          /\ UNCHANGED faults
       \/ (~Holds(x) \/ ~MayComplete(x)) /\ UNCHANGED <<store, faults>>
       \/ /\ Holds(x) /\ CanFail /\ Fault
          /\ UNCHANGED store
    /\ UNCHANGED <<table, job, loop, runner, lock, world, abandoned, stalls, stops>>

(* The thread's closure drops the permit first and its registration last. *)
Release(x) ==
    /\ exec[x] = "reported"
    /\ exec' = [exec EXCEPT ![x] = "released"]
    /\ adm' = [adm EXCEPT ![job[x]] = "none"]
    /\ UNCHANGED <<store, queued, job, loop, runner, lock, world, abandoned, counted>>

Leave(x) ==
    /\ exec[x] = "released"
    /\ exec' = [exec EXCEPT ![x] = "over"]
    /\ UNCHANGED <<store, table, job, loop, runner, lock, world, abandoned, counted>>

(***************************************************************************)
(* A panic: the closure unwinds and drops permit and registration, and     *)
(* only then the observer of the join reports the failure.                 *)
(***************************************************************************)
Panic(x) ==
    /\ exec[x] \in {"working", "ending"} /\ CanStall
    /\ stalls' = stalls + 1
    /\ exec' = [exec EXCEPT ![x] = "fallen"]
    /\ adm' = [adm EXCEPT ![job[x]] = "none"]
    /\ UNCHANGED <<store, queued, job, loop, runner, lock, world, abandoned, stops, faults>>

Vanish(x) ==
    /\ exec[x] = "fallen"
    /\ exec' = [exec EXCEPT ![x] = "unseen"]
    /\ UNCHANGED <<store, table, job, loop, runner, lock, world, abandoned, counted>>

ReportPanic(x) ==
    /\ exec[x] = "unseen"
    /\ exec' = [exec EXCEPT ![x] = "over"]
    /\ \/ Holds(x) /\ End({job[x]}, "failed") /\ UNCHANGED faults
       \/ ~Holds(x) /\ UNCHANGED <<store, faults>>
       \/ Holds(x) /\ CanFail /\ Fault /\ UNCHANGED store
    /\ UNCHANGED <<table, job, loop, runner, lock, world, abandoned, stalls, stops>>

(* The loop was held up and a lease ran out; or a role lost its worker. *)
Overdue(t) ==
    /\ lease[t] # None /\ t \notin overdue /\ CanStall
    /\ stalls' = stalls + 1
    /\ overdue' = overdue \cup {t}
    /\ UNCHANGED <<status, lease, table, threads, loop, runner, lock, world, abandoned, stops, faults>>

RemoveRole(t) ==
    /\ t \notin unmatched /\ CanStall
    /\ stalls' = stalls + 1
    /\ unmatched' = unmatched \cup {t}
    /\ UNCHANGED <<store, table, threads, loop, runner, lock, short, abandoned, stops, faults>>

(* Memory runs short, and comes back. *)
Shortage ==
    /\ ~short /\ CanStall
    /\ stalls' = stalls + 1
    /\ short' = TRUE
    /\ UNCHANGED <<store, table, threads, loop, runner, lock, unmatched, abandoned, stops, faults>>

Relief ==
    /\ short /\ short' = FALSE
    /\ UNCHANGED <<store, table, threads, loop, runner, lock, unmatched, abandoned, counted>>

Cycle(h) ==
    \/ Top(h) \/ Expire(h) \/ Orphans(h) \/ Scan(h)
    \/ List(h) \/ ReadRoot(h) \/ Read(h) \/ Judge(h)
    \/ Pick(h) \/ Look(h) \/ Gather(h) \/ Each(h) \/ CycleEnds(h) \/ Claim(h) \/ Dispatch(h)
    \/ Unrunnable(h) \/ Error(h) \/ Unsaved(h)

Thread(x) ==
    Return(x) \/ Report(x) \/ Release(x) \/ Leave(x) \/ Panic(x) \/ Vanish(x) \/ ReportPanic(x)

Next ==
    \/ Start \/ Stop \/ Continue \/ Quiesce \/ Resume \/ GiveUpContinue
    \/ \E h \in Runners : Cycle(h)
    \/ \E x \in Executions : Thread(x) \/ Suspend(x) \/ (\E a \in Agents : Spawn(x, a))
    \/ \E a \in Agents : KillAgent(a)
    \/ \E t \in Tasks : Overdue(t) \/ RemoveRole(t)
    \/ Shortage \/ Relief

Spec == Init /\ [][Next]_vars

(***************************************************************************)
(* A spawned loop and a spawned thread run; an executor's rounds are       *)
(* bounded and each of its model calls ends, and its wait is polled again  *)
(* and again; an accepted task is started, a lock holder goes on, and a    *)
(* shortage of memory passes.                                              *)
(***************************************************************************)
Fairness ==
    /\ \A h \in Runners : WF_vars(Cycle(h))
    /\ \A x \in Executions :
         /\ WF_vars(Return(x)) /\ SF_vars(Report(x))
         /\ WF_vars(Release(x) \/ Leave(x) \/ Vanish(x) \/ ReportPanic(x))
    /\ WF_vars(Start) /\ WF_vars(Quiesce) /\ WF_vars(Resume \/ GiveUpContinue)
    /\ WF_vars(Relief)

FairSpec == Spec /\ Fairness

-----------------------------------------------------------------------------
(***************************************************************************)
(* Properties.                                                             *)
(***************************************************************************)
(***************************************************************************)
(* The limit bounds the threads that really work, not only the table's     *)
(* entries: permits, waits, stops and restarts never let one more thread   *)
(* work than there are places.                                             *)
(***************************************************************************)
WorkIsAdmitted ==
    Cardinality({x \in Executions : exec[x] \in {"granted", "working"}}) <= MaxActive

(***************************************************************************)
(* When loop, threads and locks are at rest, the scope holds nothing: no   *)
(* live task without a runner and no place of the admission table.  What   *)
(* may be left is a pending agent that entered the store after             *)
(* terminal_state had listed the tasks and before the root ended: the loop *)
(* then ends without having seen it.  A stop, a Continue or a loop that    *)
(* ended on an error of its own may leave more; failing checkpoints and    *)
(* panics elsewhere may not.                                               *)
(***************************************************************************)
Missed(t) ==
    /\ status[t] = "pending"
    /\ runner # None
    /\ loop[runner].pc = "ended" /\ loop[runner].ids # {} /\ t \notin loop[runner].ids
AtRest == /\ lock = "free" /\ InFlight = {}
          /\ \A h \in Runners : ~Running(h)
          /\ \E h \in Runners : loop[h].pc = "ended"
RestsClean ==
    AtRest /\ ~abandoned =>
        \A t \in Tasks : status[t] \in Live \/ adm[t] # "none" => Missed(t)

(***************************************************************************)
(* "Under an ended task nobody collects the results of descendants that    *)
(* have not ended; they are terminated together" (                         *)
(* kill_descendants_of_terminal_tasks).  An agent the last look of the     *)
(* loop missed stays pending below the ended root.                         *)
(***************************************************************************)
NoneIsLeft ==
    AtRest /\ ~abandoned /\ faults = 0 /\ status[Root] \in Ended => LiveTasks = {}

(***************************************************************************)
(* What the queue reports is waiting can still run: "a task that need not  *)
(* run any more (stopped or ended): its queue record is removed"           *)
(* (release_pending).  A cycle that is under way when its scope is stopped *)
(* puts the record back, and the cancelled loop never looks again.         *)
(***************************************************************************)
QueueIsLive == AtRest /\ faults = 0 /\ ~abandoned => \A t \in queued : status[t] \notin Ended

(***************************************************************************)
(* A task that holds a lease is never failed as unrunnable on the strength *)
(* of what the cycle read before it was claimed: a scope is given up only  *)
(* while one of its live tasks has no executor.                            *)
(***************************************************************************)
GivenUpForCause ==
    [][\A h \in Runners :
          At(h, "unrunnable") /\ loop'[h].pc = "ended" /\ status' # status
             => \E t \in LiveTasks : lease[t] = None]_vars

(***************************************************************************)
(* Every scope ends and stays ended: tasks that compete for too few places *)
(* with the agents they wait for, shortages of memory, panics, stops and   *)
(* expiries never leave the loop turning on nothing.  Apart from what      *)
(* RestsClean allows, only a result that could not be written keeps a loop *)
(* for good: it renews the lease of a thread that is gone.                 *)
(***************************************************************************)
ResultLost == \E x \in Executions : exec[x] = "over" /\ Holds(x)
ScopeEnds ==
    \/ <>abandoned
    \/ <>[]ResultLost
    \/ <>[](InFlight = {} /\ \A t \in LiveTasks : Missed(t))

(***************************************************************************)
(* TaskRunner implements TaskScope: seen from the store and the threads,   *)
(* all the loop, the admission table, the stops and Continue do is grant,  *)
(* complete, abort and reopen, each where the contract allows it.          *)
(***************************************************************************)
Scope == INSTANCE TaskScope WITH holder <- lease,
                                 gone <- {x \in Executions : exec[x] \in {"unseen", "over"}}
ImplementsScope == Scope!Spec
=============================================================================
