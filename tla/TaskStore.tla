------------------------------ MODULE TaskStore ------------------------------
(***************************************************************************)
(* TaskStore of magi-orchestrator: the tasks of one session (one mission), *)
(* the execution leases on them, and the projection directory on disk that *)
(* they are restored from.  Every mutation runs under mutation_lock, so an *)
(* operation is one step; between two operations of a caller anything may  *)
(* happen.  An operation hands the candidate maps to the checkpoint        *)
(* callback first and commits them to memory only when that succeeds.  A   *)
(* failed checkpoint leaves everything as it was, unless it fails after    *)
(* the new manifest is in place: then the disk is ahead of memory.         *)
(*                                                                         *)
(* A task is a root (the coordinator of one Turn) or an agent activation   *)
(* below it, at most two levels deep.  A direct child of a root can be     *)
(* handed over: its subtree becomes an execution scope of its own, while   *)
(* parent and root stay what they were.                                    *)
(***************************************************************************)
EXTENDS Naturals, FiniteSets

CONSTANTS
    Tasks,       \* task ids
    Parent,      \* parent_task_id
    Root,        \* root_task_id
    AgentOf,     \* agent id of an activation: its first task; None for a root
    Leases,      \* lease ids
    MaxRetry,    \* the largest retry_count: checked_add fails beyond it
    LateWrites,  \* TRUE: RunnerManager writes snapshots of its own
    LateErrors,  \* TRUE: a checkpoint may fail after it replaced the manifest
    None         \* Option::None

\* The strict ancestors of t, and t with them.
Above ==
    [t \in Tasks |->
        IF Parent[t] = None THEN {}
        ELSE {Parent[t]} \cup
             (IF Parent[Parent[t]] = None THEN {} ELSE {Parent[Parent[t]]})]
Line == [t \in Tasks |-> Above[t] \cup {t}]

ASSUME TreeAssumption ==
    /\ None \notin Tasks
    /\ Parent \in [Tasks -> Tasks \cup {None}]
    /\ Root \in [Tasks -> Tasks]
    /\ \A t \in Tasks : /\ Parent[Root[t]] = None
                        /\ Root[t] \in Line[t]
                        /\ t \notin Above[t]
                        /\ \A u \in Above[t] : Root[u] = Root[t]

ASSUME AgentAssumption ==
    /\ AgentOf \in [Tasks -> Tasks \cup {None}]
    /\ \A t \in Tasks : AgentOf[t] = None <=> Parent[t] = None

ASSUME BoundAssumption == MaxRetry \in Nat /\ {LateWrites, LateErrors} \subseteq BOOLEAN

Roots == {t \in Tasks : Parent[t] = None}

Live     == {"pending", "running"}
Terminal == {"completed", "failed", "killed"}

\* Task: gen and prev are the agent activation, handed its run transfer.
TaskRecords ==
    [status : Live \cup Terminal, retry : 0..MaxRetry,
     handed : {"no", "yes"}, gen : Nat, prev : Tasks \cup {None}]

\* TaskLease; round is a history field, the retry_count it was granted at.
LeaseRecords ==
    [task : Tasks, round : 0..MaxRetry,
     state : {"active", "completed", "revoked"}]

TaskMaps  == [Tasks -> TaskRecords \cup {None}]
LeaseMaps == [Leases -> LeaseRecords \cup {None}]

ASSUME NoneAssumption == None \notin TaskRecords /\ None \notin LeaseRecords

VARIABLES
    tasks,    \* TaskStore.tasks
    leases,   \* TaskStore.leases
    overdue,  \* leases whose expires_at has passed
    disk,     \* the committed projection: its tasks and leases
    snap,     \* a snapshot a runner took and has not written yet
    journal,  \* accepted-submission record of a root
    owed,     \* history: accepted roots nobody removed
    used,     \* history: ids already given to a task
    phase     \* "up", how far startup has come, or "down" when it failed

store == <<tasks, leases, overdue, disk>>
vars  == <<store, snap, journal, owed, used, phase>>

Images == [tasks : TaskMaps, leases : LeaseMaps]

TypeOK ==
    /\ tasks \in TaskMaps
    /\ leases \in LeaseMaps
    /\ overdue \subseteq Leases
    /\ disk \in Images
    /\ snap \in Images \cup {None}
    /\ journal \in [Roots -> {"none", "open", "covered"}]
    /\ owed \subseteq Roots
    /\ used \subseteq Tasks
    /\ phase \in {"up", "restored", "reconciled", "down"}

Empty == [tasks |-> [t \in Tasks |-> None], leases |-> [l \in Leases |-> None]]

Init ==
    /\ tasks = Empty.tasks
    /\ leases = Empty.leases
    /\ overdue = {}
    /\ disk = Empty
    /\ snap = None
    /\ journal = [r \in Roots |-> "none"]
    /\ owed = {}
    /\ used = {}
    /\ phase = "up"

-----------------------------------------------------------------------------
(* Reading the maps *)

Stored(ts)     == {t \in Tasks : ts[t] # None}
LiveIn(ts)     == {t \in Stored(ts) : ts[t].status \in Live}
IsHanded(ts,t) == ts[t] # None /\ ts[t].handed = "yes"

Active(ls)      == {l \in Leases : ls[l] # None /\ ls[l].state = "active"}
ActiveOf(ls, t) == {l \in Active(ls) : ls[l].task = t}

\* execution_scope_root: the handed-over task on t's line, or else its root.
ScopeRoot(ts, t, s) ==
    \/ s \in Line[t] /\ IsHanded(ts, s)
    \/ s = Root[t] /\ \A u \in Line[t] : ~IsHanded(ts, u)

\* The tasks below and including s.
Subtree(s) == {t \in Stored(tasks) : s \in Line[t]}

\* Mutant of Members: handed-over tasks are not cut off.
MembersAcrossTransfers(s) == Subtree(s)

\* collect_subtree_ids_in_scope: the subtree, cut at handed-over tasks.
Members(s) ==
    {t \in Subtree(s) :
        \A u \in Line[t] \ Line[s] : tasks[u] # None /\ ~IsHanded(tasks, u)}

\* ancestor_chain_is_active: the walk from t up to the root of its scope.
Walk(t) == {u \in Line[t] : \A v \in Line[t] : IsHanded(tasks, v) => u \notin Above[v]}

AncestorsLive(t)    == \A u \in Walk(t) : u \in LiveIn(tasks)
AncestorsStarted(t) == \A u \in Walk(t) \ {t} : tasks[u].status = "running"

\* validate_lease_contract, and at most one active lease.
LeaseContract(ts, ls, t) ==
    \A l, m \in ActiveOf(ls, t) : l = m /\ ts[t].status = "running"

-----------------------------------------------------------------------------
(* The projection on disk *)

\* same_agent_owner
SameOwner(p, q) ==
    IF Parent[p] = None \/ Parent[q] = None
    THEN Parent[p] = None /\ Parent[q] = None
    ELSE AgentOf[p] = AgentOf[q]

\* Mutant of Continuable: any ended activation will do.
ContinuableEnded(x) == x.status \in Terminal

\* Only an activation that completed may be continued by another one.
Continuable(x) == x.status = "completed"

\* validate_agent_history
AgentHistory(ts) ==
    \A t \in Stored(ts) : Parent[t] # None =>
        /\ ts[Parent[t]] # None
        /\ ts[t].handed = "yes" => Parent[Parent[t]] = None
        /\ \A u \in Stored(ts) :
              AgentOf[u] = AgentOf[t] /\ ts[u].gen = ts[t].gen => u = t
        /\ ts[t].prev # None =>
              /\ ts[ts[t].prev] # None
              /\ AgentOf[ts[t].prev] = AgentOf[t]
              /\ ts[ts[t].prev].gen + 1 = ts[t].gen
              /\ Continuable(ts[ts[t].prev])
              /\ SameOwner(Parent[ts[t].prev], Parent[t])

\* AgentActivation::validate
ValidBinding(x, t) ==
    /\ x.gen # 0
    /\ x.gen = 1 <=> AgentOf[t] = t /\ x.prev = None
    /\ x.gen > 1 => AgentOf[t] # t /\ x.prev \notin {None, t}

\* validate_checkpoint
Consistent(ts, ls) ==
    /\ \A t \in Stored(ts) : /\ ts[Root[t]] # None
                             /\ Parent[t] # None => ValidBinding(ts[t], t)
    /\ \A l \in Leases : ls[l] # None => ts[ls[l].task] # None
    /\ \A t \in Tasks : LeaseContract(ts, ls, t)

\* The part of the maps that belongs to the roots in D.
CutTasks(ts, D)  == [t \in Tasks |-> IF Root[t] \in D THEN ts[t] ELSE None]
CutLeases(ls, D) ==
    [l \in Leases |->
        IF ls[l] # None /\ Root[ls[l].task] \in D THEN ls[l] ELSE None]

\* validate_snapshot and validate_projection_set, on the dirty roots only.
Accepts(ts, ls, D) ==
    /\ Consistent(CutTasks(ts, D), CutLeases(ls, D))
    /\ AgentHistory(CutTasks(ts, D))

\* Roots whose file of the previous generation may be linked into the new one.
Linkable(ts, D) ==
    {r \in Roots \ D : disk.tasks[r] # None /\ ts[r] # None}

\* Mutant of Written: the leases of linked roots come from memory.
WrittenMixed(ts, ls, K) ==
    [tasks  |-> [t \in Tasks |-> IF Root[t] \in K THEN disk.tasks[t] ELSE ts[t]],
     leases |-> ls]

\* checkpoint_snapshot_to_projection_directory: the files of the roots in K are
\* linked, every other root gets what memory has of it.
Written(ts, ls, K) ==
    [tasks  |-> [t \in Tasks |-> IF Root[t] \in K THEN disk.tasks[t] ELSE ts[t]],
     leases |-> [l \in Leases |->
                    IF disk.leases[l] # None /\ Root[disk.leases[l].task] \in K
                    THEN disk.leases[l]
                    ELSE IF ls[l] # None /\ Root[ls[l].task] \in K
                         THEN None ELSE ls[l]]]

\* A new manifest generation covers every record accepted before it.
Covered == [r \in Roots |-> IF journal[r] = "open" THEN "covered" ELSE journal[r]]

\* fire_checkpoint, up to the new manifest; any of the links may fail.
Persist(ts, ls, D) ==
    /\ Accepts(ts, ls, D)
    /\ \E K \in SUBSET Linkable(ts, D) : disk' = Written(ts, ls, K)
    /\ journal' = Covered

\* fire_checkpoint and commit_maps.  Without a disk write there is no commit.
Commit(ts, ls, D) ==
    /\ Persist(ts, ls, D)
    /\ tasks' = ts
    /\ leases' = ls

\* sync_directory or cleanup_stale_generations fails behind the manifest: the
\* operation returns an error and memory stays, but the disk has changed.
LateError(ts, ls, D) ==
    /\ LateErrors
    /\ Persist(ts, ls, D)
    /\ UNCHANGED <<tasks, leases>>

Checkpoint(ts, ls, D) == Commit(ts, ls, D) \/ LateError(ts, ls, D)

-----------------------------------------------------------------------------
(* Creating, handing over and removing tasks *)

Created(g, p) ==
    [status |-> "pending", retry |-> 0, handed |-> "no", gen |-> g, prev |-> p]

\* insert_task_without_checkpoint of a new root: memory only.
InsertRoot(r) ==
    /\ phase = "up"
    /\ r \in Roots \ used /\ tasks[r] = None
    /\ tasks' = [tasks EXCEPT ![r] = Created(0, None)]
    /\ used' = used \cup {r}
    /\ UNCHANGED <<leases, overdue, disk, snap, journal, owed, phase>>

\* The canonical event that accepts the root's Turn and records the committed
\* generation.  "covered": a newer generation, or the root's file, is committed.
Accept(r) ==
    /\ phase = "up"
    /\ r \in Roots /\ tasks[r] # None
    /\ journal[r] = "none"
    /\ journal' = [journal EXCEPT ![r] = IF disk.tasks[r] # None THEN "covered" ELSE "open"]
    /\ owed' = owed \cup {r}
    /\ UNCHANGED <<store, snap, used, phase>>

\* validate_agent_delegation_inner, for an agent that spawns agents.
MayDelegate(p) ==
    Parent[p] # None =>
        /\ Parent[Parent[p]] = None
        /\ tasks[Root[p]] # None
        /\ tasks[Root[p]].status = "running" \/ IsHanded(tasks, p)
        /\ AncestorsLive(p)

\* The activation with the highest generation of t's agent.
Heads(t) ==
    {h \in Stored(tasks) :
        /\ AgentOf[h] = AgentOf[t]
        /\ \A u \in Stored(tasks) :
              AgentOf[u] = AgentOf[t] => tasks[u].gen <= tasks[h].gen}

\* validate_agent_activation_insert: a first activation, or the next one.
Follows(t, h) == Continuable(tasks[h]) /\ SameOwner(Parent[h], Parent[t])
Activations(t) ==
    IF AgentOf[t] = t
    THEN {x \in {Created(1, None)} : Heads(t) = {}}
    ELSE {Created(tasks[h].gen + 1, h) : h \in {k \in Heads(t) : Follows(t, k)}}

Insertable(t) ==
    /\ Parent[t] # None
    /\ t \notin used /\ tasks[t] = None
    /\ Parent[t] \in LiveIn(tasks)
    /\ MayDelegate(Parent[t])

\* insert_task of an agent activation.
InsertAgent(t) ==
    /\ phase = "up"
    /\ Insertable(t)
    /\ \E a \in Activations(t) :
          Checkpoint([tasks EXCEPT ![t] = a], leases, {Root[t]})
    /\ used' = used \cup {t}
    /\ UNCHANGED <<overdue, snap, owed, phase>>

\* transfer_agent_subtree
Transfer(t) ==
    /\ phase = "up"
    /\ t \in LiveIn(tasks)
    /\ Parent[t] \in Roots
    /\ tasks[t].handed = "no"
    /\ tasks[Parent[t]] # None /\ tasks[Parent[t]].status = "running"
    /\ Checkpoint([tasks EXCEPT ![t].handed = "yes"], leases, {Root[t]})
    /\ UNCHANGED <<overdue, snap, owed, used, phase>>

Dropped(S) ==
    [l \in Leases |-> IF leases[l] # None /\ leases[l].task \in S
                      THEN None ELSE leases[l]]

\* remove_task refuses while an activation or a child points at t.
Referenced(t) ==
    \E u \in Stored(tasks) : tasks[u].prev = t \/ Parent[u] = t

\* remove_task: always a full checkpoint, even when t is not there.
RemoveTask(t) ==
    /\ phase = "up"
    /\ ~Referenced(t)
    /\ Checkpoint([tasks EXCEPT ![t] = None], Dropped({t}), Roots)
    /\ owed' = owed \ {t}
    /\ UNCHANGED <<overdue, snap, used, phase>>

\* remove_tasks_by_mission
RemoveMission ==
    /\ phase = "up"
    /\ Checkpoint(Empty.tasks, Empty.leases, Roots)
    /\ owed' = {}
    /\ UNCHANGED <<overdue, snap, used, phase>>

-----------------------------------------------------------------------------
(* Leases *)

\* build_lease makes an id nobody has seen.
FreshLease(l) ==
    /\ leases[l] = None /\ disk.leases[l] = None
    /\ snap # None => snap.leases[l] = None

Granted(l, t) ==
    [leases EXCEPT ![l] = [task |-> t, round |-> tasks[t].retry, state |-> "active"]]

\* claim_task_for_execution_scope: the runner of scope s takes t.
Claimable(t) ==
    /\ t \in Stored(tasks) /\ tasks[t].status = "pending"
    /\ AncestorsLive(t) /\ AncestorsStarted(t)
    /\ ActiveOf(leases, t) = {}
Claim(l, t, s) ==
    /\ phase = "up"
    /\ FreshLease(l)
    /\ Claimable(t)
    /\ ScopeRoot(tasks, t, s)
    /\ Checkpoint([tasks EXCEPT ![t].status = "running"], Granted(l, t), {Root[t]})
    /\ overdue' = overdue \ {l}
    /\ UNCHANGED <<snap, owed, used, phase>>

\* Mutant of GrantLease: another active lease is not looked for.
GrantLeaseBeside(l, t) ==
    /\ phase = "up"
    /\ FreshLease(l)
    /\ t \in Stored(tasks) /\ tasks[t].status = "running"
    /\ leases' = Granted(l, t)
    /\ overdue' = overdue \ {l}
    /\ UNCHANGED <<tasks, disk, snap, journal, owed, used, phase>>

\* grant_lease: for a running task without one; memory only.
GrantLease(l, t) ==
    /\ phase = "up"
    /\ FreshLease(l)
    /\ t \in Stored(tasks) /\ tasks[t].status = "running"
    /\ ActiveOf(leases, t) = {}
    /\ leases' = Granted(l, t)
    /\ overdue' = overdue \ {l}
    /\ UNCHANGED <<tasks, disk, snap, journal, owed, used, phase>>

\* revoke_lease; memory only.
RevokeLease(l) ==
    /\ phase = "up"
    /\ l \in Active(leases)
    /\ leases' = [leases EXCEPT ![l].state = "revoked"]
    /\ UNCHANGED <<tasks, overdue, disk, snap, journal, owed, used, phase>>

\* The clock passes expires_at.
Elapse(l) ==
    /\ phase = "up"
    /\ l \in Active(leases) \ overdue
    /\ overdue' = overdue \cup {l}
    /\ UNCHANGED <<tasks, leases, disk, snap, journal, owed, used, phase>>

\* heartbeat_lease_for_execution_scope
Heartbeat(l, s) ==
    /\ phase = "up"
    /\ l \in Active(leases) \cap overdue
    /\ ScopeRoot(tasks, leases[l].task, s)
    /\ overdue' = overdue \ {l}
    /\ UNCHANGED <<tasks, leases, disk, snap, journal, owed, used, phase>>

-----------------------------------------------------------------------------
(* Results and cancellation *)

WithStatus(t, st) == [tasks EXCEPT ![t].status = st]

\* Mutant of AcceptsResult: a revoked lease may still report.
AcceptsResultLate(l) == leases[l].state # "completed" /\ AncestorsLive(leases[l].task)

\* complete_lease_and_task; a late result is dropped.
AcceptsResult(l) == leases[l].state = "active" /\ AncestorsLive(leases[l].task)
CompleteLease(l) ==
    /\ phase = "up"
    /\ leases[l] # None
    /\ AcceptsResult(l)
    /\ LET t == leases[l].task
       IN  /\ tasks[t].status = "running"
           /\ Checkpoint(WithStatus(t, "completed"),
                     [leases EXCEPT ![l].state = "completed"], {Root[t]})
    /\ UNCHANGED <<overdue, snap, owed, used, phase>>

\* complete_task: only without an active lease.
CompleteTask(t) ==
    /\ phase = "up"
    /\ t \in Stored(tasks) /\ tasks[t].status = "running"
    /\ ActiveOf(leases, t) = {}
    /\ Checkpoint(WithStatus(t, "completed"), leases, {Root[t]})
    /\ UNCHANGED <<overdue, snap, owed, used, phase>>

\* update_status_checked with is_valid_transition: live statuses only.
UpdateStatus(t) ==
    /\ phase = "up"
    /\ t \in LiveIn(tasks)
    /\ \E st \in {tasks[t].status, "running"} :
          Checkpoint(WithStatus(t, st), leases, {Root[t]})
    /\ UNCHANGED <<overdue, snap, owed, used, phase>>

\* prepare_task_terminal_in_maps, for each task of S.
Endable(S) == {t \in S \cap LiveIn(tasks) : LeaseContract(tasks, leases, t)}
Ended(S, st) ==
    [t \in Tasks |-> IF t \in S THEN [tasks[t] EXCEPT !.status = st] ELSE tasks[t]]
Revoked(S) ==
    [l \in Leases |-> IF l \in Active(leases) /\ leases[l].task \in S
                      THEN [leases[l] EXCEPT !.state = "revoked"]
                      ELSE leases[l]]

EndAll(S, st) ==
    LET E == Endable(S)
    IN  /\ phase = "up"
        /\ E # {}
        /\ Checkpoint(Ended(E, st), Revoked(E), {Root[t] : t \in S})
        /\ UNCHANGED <<overdue, snap, owed, used, phase>>

\* revoke_lease_and_set_task_terminal with the lease the caller saw.
EndByLease(l, st) ==
    /\ l \in Active(leases)
    /\ EndAll({leases[l].task}, st)

\* The same without a lease: refused while one is active.
EndUnleased(t, st) ==
    /\ ActiveOf(leases, t) = {}
    /\ EndAll({t}, st)

\* revoke_active_lease_and_set_task_terminal
Kill(t) == EndAll({t}, "killed")

\* expire_lease_for_execution_scope
ExpireLease(l, s) ==
    /\ l \in Active(leases) \cap overdue
    /\ ScopeRoot(tasks, leases[l].task, s)
    /\ EndAll({leases[l].task}, "failed")

\* revoke_active_leases_and_set_execution_subtree_terminal
StopScope(s, st) == EndAll(Members(s), st)

\* revoke_active_leases_and_set_subtree_terminal: across transfers.
StopTree(s, st) == EndAll(Subtree(s), st)

\* fail_unrunnable_execution_scope by the runner of s: a candidate is live and
\* without a lease.
FailUnrunnable(s) ==
    /\ ScopeRoot(tasks, s, s)
    /\ \E t \in Members(s) \cap LiveIn(tasks) : ActiveOf(leases, t) = {}
    /\ EndAll(Members(s), "failed")

\* Mutant of Orphans: only the end of the scope's root counts.
OrphansOfRoot(s) ==
    {t \in Members(s) \ {s} : tasks[s].status \in Terminal}

\* revoke_orphaned_execution_descendants by the runner of s: what is below an
\* ended task of the scope.
Orphans(s) ==
    {t \in Members(s) :
        \E u \in Members(s) \cap Above[t] : tasks[u].status \in Terminal}
CleanOrphans(s) ==
    /\ ScopeRoot(tasks, s, s)
    /\ EndAll(Orphans(s), "killed")

-----------------------------------------------------------------------------
(* Recovery of ended tasks *)

\* transition_recovery_status
Recovered(t, st) ==
    [tasks EXCEPT ![t].status = st,
                  ![t].retry = IF st \in Live THEN @ + 1 ELSE @]
\* Mutant of TransitionRecovery: retry_count is not checked.
TransitionUnbounded(t, from, to) ==
    /\ phase = "up"
    /\ t \in Stored(tasks) /\ tasks[t].status = from
    /\ ActiveOf(leases, t) = {}
    /\ Checkpoint(Recovered(t, to), leases, {Root[t]})
    /\ UNCHANGED <<overdue, snap, owed, used, phase>>

TransitionRecovery(t, from, to) ==
    /\ phase = "up"
    /\ t \in Stored(tasks) /\ tasks[t].status = from
    /\ ActiveOf(leases, t) = {}
    /\ to \in Live => tasks[t].retry < MaxRetry
    /\ Checkpoint(Recovered(t, to), leases, {Root[t]})
    /\ UNCHANGED <<overdue, snap, owed, used, phase>>

ReopenFailed(t)        == TransitionRecovery(t, "failed", "pending")
StartFailedRoot(r)     == r \in Roots /\ TransitionRecovery(r, "failed", "running")
ReopenCompletedRoot(r) == r \in Roots /\ TransitionRecovery(r, "completed", "failed")

\* reopen_transferred_agent_scope: the interrupted tasks E of a handed scope.
ReopenScope(s, E) ==
    /\ phase = "up"
    /\ s \in E /\ E \subseteq Members(s)
    /\ IsHanded(tasks, s)
    /\ \A t \in Members(s) : t \notin LiveIn(tasks) /\ ActiveOf(leases, t) = {}
    /\ \A t \in E : tasks[t].status = "failed" /\ tasks[t].retry < MaxRetry
    /\ Checkpoint([t \in Tasks |->
                  IF t \in E
                  THEN [tasks[t] EXCEPT !.status = "pending", !.retry = @ + 1]
                  ELSE tasks[t]], leases, {Root[s]})
    /\ UNCHANGED <<overdue, snap, owed, used, phase>>

-----------------------------------------------------------------------------
(* RunnerManager's own checkpoints, and the daemon's startup *)

\* TaskStore::snapshot, taken under the lock that is then given up ...
TakeSnapshot ==
    /\ phase = "up" /\ LateWrites
    /\ snap = None
    /\ snap' = [tasks |-> tasks, leases |-> leases]
    /\ UNCHANGED <<store, journal, owed, used, phase>>

\* ... and written as a full checkpoint some time later.
WriteSnapshot ==
    /\ phase = "up"
    /\ snap # None
    /\ Accepts(snap.tasks, snap.leases, Roots)
    /\ disk' = snap
    /\ snap' = None
    /\ journal' = Covered
    /\ UNCHANGED <<tasks, leases, overdue, owed, used, phase>>

\* A crash and restore_from_projection_directory, which refuses a bad set.
Restart ==
    /\ Accepts(disk.tasks, disk.leases, Roots)
    /\ tasks' = disk.tasks
    /\ leases' = disk.leases
    /\ overdue' = {}
    /\ snap' = None
    /\ phase' = "restored"
    /\ UNCHANGED <<disk, journal, owed, used>>

\* The tasks reconcile_volatile_runtime_after_restore finds interrupted; W are
\* those of the worker snapshot's branches.
Interrupted(W) ==
    {t \in Stored(tasks) :
        \/ ActiveOf(leases, t) # {}
        \/ t \in W /\ tasks[t].status \in Live \cup {"failed"}
        \/ Parent[t] # None /\ tasks[t].status \in Live}

\* The tasks only a branch can make interrupted.
Doubtful ==
    {t \in Stored(tasks) : \/ tasks[t].status = "failed"
                           \/ Parent[t] = None /\ tasks[t].status \in Live}

\* reconcile_volatile_runtime_after_restore; an error ends the startup.
Reconcile(W) ==
    LET hit == UNION {Members(s) : s \in {u \in Tasks :
                  \E t \in Interrupted(W) : ScopeRoot(tasks, t, u)}}
        ts  == [t \in Tasks |-> IF t \in hit \cap LiveIn(tasks)
                                THEN [tasks[t] EXCEPT !.status = "failed"]
                                ELSE tasks[t]]
        ls  == [l \in Leases |-> IF l \in Active(leases)
                                 THEN [leases[l] EXCEPT !.state = "revoked"]
                                 ELSE leases[l]]
        D   == {Root[t] : t \in Interrupted(W)}
    IN  /\ phase = "restored"
        /\ \/ /\ phase' = "reconciled"
              /\ IF Interrupted(W) = {} THEN UNCHANGED <<tasks, leases, disk, journal>>
                 ELSE Commit(ts, ls, D)
           \/ /\ phase' = "down"
              /\ Interrupted(W) # {}
              /\ LateError(ts, ls, D)
        /\ UNCHANGED <<overdue, snap, owed, used>>

\* load_accepted_submissions: records no manifest covers are inserted again.
Missing == {r \in Roots : journal[r] = "open" /\ tasks[r] = None}
RestoreAccepted ==
    /\ phase = "reconciled"
    /\ LET ts == [t \in Tasks |-> IF t \in Missing THEN Created(0, None) ELSE tasks[t]]
       IN  \/ /\ phase' = "up"
              /\ IF Missing = {} THEN UNCHANGED <<tasks, leases, disk, journal>>
                 ELSE Commit(ts, leases, Roots)
           \/ /\ phase' = "down"
              /\ Missing # {}
              /\ LateError(ts, leases, Roots)
    /\ UNCHANGED <<overdue, snap, owed, used>>

-----------------------------------------------------------------------------

Next ==
    \/ \E r \in Tasks : InsertRoot(r) \/ Accept(r)
    \/ \E t \in Tasks : InsertAgent(t) \/ Transfer(t) \/ RemoveTask(t)
    \/ RemoveMission
    \/ \E l \in Leases, t, s \in Tasks : Claim(l, t, s)
    \/ \E l \in Leases, t \in Tasks : GrantLease(l, t)
    \/ \E l \in Leases : RevokeLease(l) \/ Elapse(l) \/ CompleteLease(l)
    \/ \E l \in Leases, s \in Tasks : Heartbeat(l, s) \/ ExpireLease(l, s)
    \/ \E t \in Tasks : CompleteTask(t) \/ UpdateStatus(t) \/ Kill(t)
    \/ \E l \in Leases, st \in {"failed", "killed"} : EndByLease(l, st)
    \/ \E t \in Tasks, st \in {"failed", "killed"} :
          EndUnleased(t, st) \/ StopScope(t, st) \/ StopTree(t, st)
    \/ \E s \in Tasks : FailUnrunnable(s) \/ CleanOrphans(s)
    \/ \E t \in Tasks :
          ReopenFailed(t) \/ StartFailedRoot(t) \/ ReopenCompletedRoot(t)
    \/ \E s \in Tasks, E \in SUBSET Tasks : ReopenScope(s, E)
    \/ TakeSnapshot \/ WriteSnapshot
    \/ Restart
    \/ \E W \in SUBSET Doubtful : Reconcile(W)
    \/ RestoreAccepted

Spec == Init /\ [][Next]_vars

-----------------------------------------------------------------------------
(* Properties *)

\* A task has at most one active lease, and only while it is running: however
\* claims, late results, kills, reopenings and restarts interleave, two
\* executors never own a task and none owns a task that has ended
\* (validate_lease_contract, which cancellation and recovery rely on).
LeaseSound == \A t \in Tasks : LeaseContract(tasks, leases, t)

\* A result ends a task only when it comes from an execution of the task's
\* current recovery round; what an execution from before a reopening reports
\* is dropped (complete_lease_and_task, retry_count).
ResultOfThisRound ==
    [][\A l \in Leases :
          leases[l] # None /\ leases[l].round # tasks[leases[l].task].retry
             => ~CompleteLease(l)]_vars

\* An agent runs in one activation at a time: every activation but the newest
\* has completed, also after older ones could be reopened
\* (validate_agent_activation_insert).
OneLiveActivation ==
    \A t, u \in Stored(tasks) :
        (AgentOf[t] # None /\ AgentOf[t] = AgentOf[u] /\ tasks[t].gen < tasks[u].gen)
            => tasks[t].status = "completed"

\* Whatever was written last, the daemon can start from it: the projection
\* passes the validation of restore_from_projection_directory.
Restorable == Accepts(disk.tasks, disk.leases, Roots)

\* The runner and the stop button of one execution scope leave every task of
\* another scope alone: a handed-over subtree survives the end of its root.
ScopeStep(s) ==
    \/ \E st \in {"failed", "killed"} : StopScope(s, st)
    \/ FailUnrunnable(s)
    \/ CleanOrphans(s)
    \/ \E l \in Leases : ExpireLease(l, s)
ReachesOutside(s) ==
    \E t \in Stored(tasks) : ~ScopeRoot(tasks, t, s) /\ tasks'[t] # tasks[t]
ScopesAreIsolated ==
    [][\A s \in Stored(tasks) :
          ScopeRoot(tasks, s, s) /\ ReachesOutside(s) => ~ScopeStep(s)]_vars

\* "When persisting fails, memory takes effect no earlier than the durable
\* projection" (TaskStoreSnapshot): a task that is seen ended is ended on disk.
\* Commit alone would give it; a late snapshot or a checkpoint that fails behind
\* the manifest breaks it (MCTaskStaleSnapshot.cfg, MCTaskLateError.cfg).
EndedIsDurable ==
    \A t \in Stored(tasks) :
        tasks[t].status \in Terminal => disk.tasks[t] = tasks[t]

\* A Turn whose acceptance was recorded has its root task again after any
\* number of crashes, until somebody removes it: what load_accepted_submissions
\* and the comment on the task manifest promise.
AcceptedIsKept == phase = "up" => \A r \in owed : tasks[r] # None

\* An activation the store would admit is not refused by the checkpoint: a
\* finished agent of the session can be continued from a new root.
ActivationAdmitted ==
    \A t \in Tasks : Insertable(t) =>
        \A x \in Activations(t) :
            Accepts([tasks EXCEPT ![t] = x], leases, {Root[t]})

\* A task below an ended one is not left running: the runner of its scope, or
\* a restart, ends it (kill_descendants_of_terminal_tasks).
IsOrphan(t) ==
    t \in LiveIn(tasks) /\ \E u \in Walk(t) : tasks[u] # None /\ tasks[u].status \in Terminal
OrphansEnd == \A t \in Tasks : []<>(~IsOrphan(t))

\* Every runner keeps cycling until its scope has ended, and startup finishes.
FairSpec ==
    /\ Spec
    /\ \A s \in Tasks : WF_vars(CleanOrphans(s))
    /\ WF_vars(\E W \in SUBSET Doubtful : Reconcile(W))
    /\ WF_vars(RestoreAccepted)

=============================================================================
