# Magi: a TLA+ verification of the Turn and Task core

Magi is a local coding assistant. A daemon (Rust, `crates/`) serves a web or
desktop client; a user *session* runs one *Turn* at a time, a Turn runs a tree of
*tasks*, and tasks run *agents*, models and tools. This directory keeps TLA+
modules of the parts of the daemon whose correctness depends on the order of
events: which Turn owns a session, which execution owns a task, who may run a
tool and how often, which extension process answers a guard, what is on disk when the
process dies, and what a restart makes of it.

Paths below are relative to the repository root (`src/` in `PROJECT.json`).

## 1. The system

| Component | State it keeps | Operations | What makes it hard, and correct |
|---|---|---|---|
| `SessionTurnCoordinator` (`magi-conversation-runtime/src/session_turn_coordinator.rs`) | per session: the active Turn, the index of finished Turns for replays (bounded), the steer input slot, the attempt counter | Start, SetStatus, Steer, Continue, Finish, Cancel, Abort, Recover, clear_session | commands of old attempts arrive late; Continue is three critical sections; eviction; restart. One Turn owns the slot; a request never becomes two Turns; results are final |
| `TaskStore` (`magi-orchestrator/src/task_store.rs`) | task map, lease map, dirty roots; the projection directory (manifest and one file per root, in generations) | insert, transfer, claim, heartbeat, expire, complete, cancel, reopen, remove, checkpoint, restore, reconcile | many runners, cancellations and results race; the checkpoint is incremental; a crash may come anywhere. One executor per task; stopping one scope leaves others alone; startup accepts what was written |
| `TaskRunner`, `RunnerManager` (`magi-conversation-runtime/src/task_runner.rs`, `execution_admission.rs`, `task_execution_dispatcher.rs`, `magi-api/src/state.rs`) | a loop per execution scope, the admission table, executor threads, the restart lock | run_cycle, start, stop, quiesce_for_restart, kill, admit, suspend, resume, notify | check in one lock, act in the next; a checkpoint error ends the loop; parents wait for agents. One loop, one thread per task, the limit holds, every scope ends |
| Turn service and inputs (`magi-api/src/turn_service.rs`, `input_service.rs`) | the session's Turn lock, the durable inbox, queue tasks | submit, steer, queue, guide, withdraw, stop, replace, delete | four pieces of state and no common transaction; stops await executors with the lock held. They agree whenever the lock is free; nothing is lost or started out of order |
| Conversation loop (`conversation_loop.rs`, `session_turn_execution.rs`) | the rounds of one execution | model call, tool call, drain steers, settle | the last steer races the end of the Turn |
| Tool approvals (`magi-conversation-runtime/src/tool_approval.rs`, `magi-session-store/src/store/tool_approvals.rs`, `magi-api/src/interaction_service.rs`) | registry of waiting calls, grants and denials of a Turn; the durable approvals | request, decide (two paths), expire, cancel, begin_turn, claim, run | expiry races the decision, crashes between decision, claim and run. One run per approval, only with consent |
| Extensions (`magi-extension-host/src`, `magi-daemon/src/daemon/extension_runtime.rs`, `magi-plugin-system/src/lifecycle*`) | package facts and drains, running entries, supervisor, Node processes, bus slot and breaker | activate, drain, commit, reconcile, quiesce, launch, crash, stop, dispatch | a reconciler with facts read earlier, stops that overtake launches, requests that are dropped. One process of the right package; the runtime settles on the facts |
| `magi-session-store` | canonical Turns and Items, Goals, Plans | durable accept, status changes | facts that the coordinator is rebuilt from |
| Daemon startup (`magi-daemon/src/daemon/runtime.rs`, `persistence.rs`) | state repository, accepted-submission records | restore, reconcile, restore accepted submissions | order of the steps |
| `magi-event-bus`, `magi-browser-authority`, `magi-session-isolation`, `magi-snapshot`, `magi-usage-authority`, `magi-plan`, Goals | ledgers, leases, work copies | see `PROJECT.json` | planned |
| everything else (`magi-bridge-client`, `magi-tool-runtime`, `magi-git`, `web/`, `apps/`, ...) | | I/O, text, views | not modelled, reasons in `PROJECT.json` |

How they interact: the Turn service takes the session lock, asks the coordinator
for an attempt (Start), writes the canonical Turn, inserts the root task in
memory, records the acceptance together with the task generation it saw, and
starts a runner. The runner claims tasks from the store and hands them to the
conversation loop, which reports through `complete_lease_and_task`. Cancelling,
pausing and deleting act on the same store and coordinator from other threads.
At startup the daemon restores the projection, reconciles interrupted
tasks, then reads the accepted submissions, and replays the canonical Turns into the
coordinator with Recover commands.

`PROJECT.json` lists the hazards of this code, each at its line, with the
properties that cover it or the reason why none does yet.

## 2. Modules

| Module | Models |
|---|---|
| `TurnCoordinator` | `SessionTurnCoordinator` of one session, its callers' order, the startup restore |
| `SessionTurn` | the Turn service above it: Turn lock, canonical Turn, durable inbox, executor |
| `ToolApproval` | approvals of one session: registry, durable records, waiting threads, clients, restarts |
| `ApprovalLedger` | what the durable approvals promise; implemented by `ToolApproval` |
| `TaskStore` | `TaskStore` of one session with its projection directory, RunnerManager's snapshots, crash, restore, reconciliation and accepted submissions |
| `TaskRunner` | the loop of one execution scope, the admission table, executor threads, stop and Continue |
| `TaskScope` | what running a scope promises; implemented by `TaskRunner` |
| `ExtensionHost` | one executable extension from the plugin manager to the guard dispatch |
| `TurnCoordinatorProofs`, `TaskStoreProofs`, `ToolApprovalProofs`, `SessionTurnProofs`, `TaskRunnerProofs`, `ExtensionHostProofs` | theorems about the module of that name |
| `MC...` | instances for TLC |

How they fit together. `SessionTurn` uses the coordinator through what
`TurnCoordinator` shows of it: its variable `slot` is the Turn of `active`, `input` the
steer input slot, and it adds the state that decides when the commands are given.
`TaskRunner` takes each mutation of the store as one step on statuses and leases, which is
what `TaskStore` allows of it, and adds what happens between two mutations. Each of the two
drops what the other one already checks (replay index and Recover commands; checkpoints,
generations and roots), so that the interleavings stay within reach.

A definition with the comment "Mutant of ..." is not part of the specification:
it is a wrong version of the definition it names, listed in `PROJECT.json` under
`mutants`, and shows that a property can fail.

### TurnCoordinator

Sessions share nothing in the coordinator, so one session is modelled.
`active`, `recent`, `nextOrder`, `attemptSeq` and `input` are the fields of the
code. A command is an action that fires at any time with any attempt handed out
in this process (`issued`): that is how late, repeated and reordered commands
come about. A command with several critical sections is several actions:
Continue is `ContinueCheck`, `ContinueFinish`, `ContinueTerminal`,
`ContinueAccept` with its place in `cont`; Steer is `SteerCheck` and
`SteerCommit`; `clear_session` is `ClearState` and `ClearInputs`. `submitting`
holds Turns admitted by Start whose durable accept is outstanding; `canon` is
the part of the SessionStore's facts that recovery reads, changed by the external
actions `CanonAccept` and `CanonStatus`. `Restart` is a crash at any point followed by the
startup restore, which replays `todo` fact by fact, newest first. `born` is a
history variable: what each Turn was admitted with.

`LiveRestore` adds Recover commands to a coordinator in use. The command's
contract allows that, no caller does it today; the run that sets it checks the
contract. Turn ids contain the time of acceptance; the model takes the wall
clock not to go back across a restart.

### TaskStore

`tasks` and `leases` are the maps, `disk` the committed projection. All
mutations run under `mutation_lock`, so an operation is one step; what
a caller saw in an earlier operation may have changed before its next one.
`Commit` is `fire_checkpoint` followed by `commit_maps`: validate the
dirty roots, write them, link the files of the other roots from the previous
generation (`Linkable`, `Written`), and only then change memory. A link that fails gives
the root's file what memory has of it. A checkpoint that fails before the
manifest is replaced changes nothing and is no step; one that fails behind it
(`LateError`, enabled by `LateErrors`) leaves the disk ahead of memory, and during startup
ends the startup. `InsertRoot`, `GrantLease` and `RevokeLease` change memory
only, as in the code.

`Parent`, `Root` and `AgentOf` are functions on task ids, fixed by the
configuration; the trees in which an id may appear are the instance. An agent is named
by the task of its first activation. A task is a root or an agent activation, at
most two levels below a root (`validate_agent_delegation_inner`). A record keeps status,
retry count, whether its run was handed over, and the activation's generation
and predecessor. Left out as data: titles, goals, outputs, evidence, policies, dependency ids,
delegation flags, completion contracts and role bindings. The history fields
are `round` of a lease (the retry count at its grant), `used` and `owed`.

`TakeSnapshot` and `WriteSnapshot` are RunnerManager's `persist(&snapshot())`,
with anything in between; they are enabled by `LateWrites`. `Restart`,
`Reconcile` and `RestoreAccepted` are the steps of startup in the code's
order; `W` is the set of tasks that the worker snapshot names. `journal` is the accepted-submission
record of a root: "open" while its generation is the committed one, "covered"
when a newer generation is committed. `grant_lease`, `revoke_lease`,
`complete_task` and `update_status_checked` are public operations that only tests
call at this commit; they are modelled because a new caller meets them.

### SessionTurn

A request and the Turn it opens have one name. `held` is the session's Turn lock: a
critical section without an await is one action; stopping a Turn awaits its
executor with the lock held and is three (`BeginStop`, the executor's own steps, `FinishStop`).
`wakes` counts the queue tasks that were spawned and did not run yet. `canon`, `current`,
`inbox` and `at` survive a restart, the rest does not. `MaxTries` is
`MAX_QUEUED_SUBMISSION_RETRIES`. An executor's rounds are `Step` (any number) and
`Boundary`, where it takes the last steers or closes the input; `Settle` writes the
canonical end, and only a changed Turn makes the coordinator finish.

### ToolApproval and ApprovalLedger

A call asks at most once, so the approval has its name. `pend`, `mail`, `grants` and
`denied` are the registry; `rec` the durable approval on the canonical tool item; `pc` the
waiting thread. A client looks up and then decides (`LookUp`, then `Resolve` or
`ResolveStored`), as `interaction_service.rs` does. `Age` lets an approval expire, and
every registry operation expires stale entries first. Claim and run are two steps with
a possible restart in between; a continued Turn makes the call again under a new id and
may use the approval of the old one. `consent` and `runs` are history. `ApprovalLedger` has
one stage per approval (none, open, cancelled, deny, allow, spent) and the runs
it was spent on; the refinement maps `rec` to the stage.

### TaskRunner and TaskScope

A lease and the thread it is granted to have one name. A loop walks through the steps of
`run_cycle` (`Top`, `Expire`, `Orphans`, `Scan`, the look of `terminal_state`, `Pick`, the look of
`collect_non_terminal_task_ids`, `Each`, `Claim`, `Dispatch`, `CycleEnds`, ...) with what it read before
in `loop[h]`. Both looks list the tasks in one step (`List`, `Look`) and read them afterwards one by one, as
the code takes the store's lock for each question (`ReadRoot`, `Read`, `Judge`, `Gather`): agents may be
inserted and tasks may end in between. `adm` is the admission table with reserved, running and waiting
places; `short` is its memory limit. `Quiesce`, `Quiet` and `Resume` are Continue under the restart lock, and
`GiveUpContinue` its errors after the old loop is gone. Every mutation of the store may fail, and the step does
then what its caller does: `Unsettled` for a settlement, an error of the cycle, a claim given back, a
result that is lost, a rolled back Continue, a loop that cannot write its own checkpoint (`Unsaved`). A panic
is three steps, as permit and registration are dropped before the failure is reported (`Panic`, `Vanish`, `ReportPanic`).
`abandoned` remembers that a stop, a Continue or a loop ended on an error that it reported.
`TaskScope` knows only statuses, holders and threads: one execution per task, only
the holder completes it, and a scope is opened again only when nobody is left at work.

### ExtensionHost

`installed` and `draining` are the manager's facts, `handler` the HTTP request of a
lifecycle transaction and `task` the detached task of `quiesce`, which outlives it. `rec` is
the reconciler; it reads the active package before it waits for the lock that it shares
with `task`. `sup` is the supervisor, `proc` the Node processes with a
"doomed" process being one that was told to stop and is not gone yet. `slot`, `instance`
and `breaker` are the bus; a dispatch freezes the slot first, so it may go on with a slot that
was unregistered since. Deadlines are abstract: a call does not outlast the cooldown of
the breaker. `HostInstance::stop` waits ten seconds; the model takes a killed process
tree to be gone by then.

## 3. Runs

Bounds are constants of the modules, named in each configuration. A run takes at most about
three and a half minutes.

| Run | Instance | Checks | Shows |
|---|---|---|---|
| `turn_lifecycle` | 3 Turns, 2 requests, index of 1 | `TypeOK`, `SlotExclusive`, `OneTurnPerRequest`, `ReplayWindow`, `ContinueAgrees`, `RestoreRevivesNewest` | every order of commands, crashes, restores and deletions |
| `turn_recover_live` | 2 Turns, 2 requests, index of 2, live Recover | `TerminalImmutable` | a stale fact does not rewrite a result |
| `session_turns` | 3 requests; one failing write, one stop, one restart, a deletion | `TypeOK`, `SlotFollowsCanon`, `OneExecutor`, `NoOrphanTurn`, `NoSteerLost`, `DeletedStaysEmpty`, `StartsInOrder` | coordinator, canonical Turn, inbox and executor agree whenever the lock is free |
| `session_queue` | 2 requests; one stop, one restart | `QueueMoves` | liveness: every input is answered and every Turn ends |
| `approval_resume` | the same call in a Turn and in its continuation; two restarts, failing commits | `TypeOK`, `OneRunPerApproval`, `DecisionsAgree`, `ImplementsLedger` | an approval is spent once, whenever the daemon dies |
| `approval_wait` | the same tool called by an agent and by an external client | `RunsAreConsented`, `WaitEnds` | grants stay in their Turn and task; liveness: no call waits for ever |
| `task_scopes` | root, agent, nested agent, 1 lease | `TypeOK`, `ScopesAreIsolated`, `OrphansEnd` | scopes leave each other alone; liveness: nothing stays live below an ended task |
| `task_rounds` | root, two activations of one agent, two leases, one retry; no accepted submissions | `LeaseSound`, `OneLiveActivation`, `ResultOfThisRound` | one executor per task, with a second claim beside an old, expired or renewed lease; late results are dropped |
| `task_late_snapshots` | two roots, one accepted submission at a time, runner snapshots, checkpoints that fail behind the manifest | `Restorable` | any mixture of older and newer files starts |
| `task_lost_acceptance` | two roots | `AcceptedIsKept` | **violated**: see findings |
| `runner_scope` | root and agent, one place, two loops, four executions; two of: a stop or Continue, a failing checkpoint, and one overdue lease, removed role, panic or shortage of memory | `TypeOK`, `WorkIsAdmitted`, `RestsClean`, `GivenUpForCause`, `ImplementsScope`, `ScopeEnds` | the loop, its restarts and the admission table; liveness: a scope ends |
| `extension_host` | two packages, two processes, two callers; two operations (drained or not), one fault (a pending data reset among them) | `TypeOK`, `OneHostOfThePackage`, `DrainedIsQuiet`, `ProbeIsOwned`, `Settles` | the right process or none; liveness: the runtime settles |

Deadlock is checked in the runs of `TurnCoordinator`, `SessionTurn` and `TaskStore`. In those of
`ToolApproval`, `TaskRunner` and `ExtensionHost` the system may stop: all calls are over,
the scope has ended, the bounded operations are used up.

Nine more configurations are not among the runs. Each checks one property
that does not hold and reproduces an observation of section 4: `MCTurnRestore.cfg`,
`MCTaskStaleSnapshot.cfg`, `MCTaskCrossRoot.cfg`, `MCApprovalAgent.cfg`,
`MCTaskLateError.cfg`, `MCSessionSelfLock.cfg`, `MCRunnerQueue.cfg`,
`MCRunnerMissed.cfg` and `MCExtensionProbe.cfg`.

Why the bounds are enough. *Turns*: three Turns on two requests with room for
one record give a retry of an evicted request, a Turn finished twice, and a
Continue between them; Turn and request ids are only compared, hence symmetry.
`MaxSteers` bounds a queue nothing depends on. `Reached` restricts the statuses a
canonical fact moves to, to one of each kind that `RecoveredStatus` tells
apart in the run. *Inputs*: three give a live Turn, an older and a newer waiting input, or a
replacement before an older one; a queue task that is spawned twice is like two, and
`MaxTries = 2` a retry and the last one. The liveness run has two, and no symmetry. *Approvals*: two
calls are one that holds an approval and one that might profit from it; two restarts
come before and after the continuation. *Tasks*: three levels are all the code permits. `task_rounds` has two leases, so that a task or the two
activations of an agent may be claimed a second time beside a lease of before, and pays with a constraint: no
submission is accepted (`Unaccepted`; the journal it leaves out touches neither leases nor rounds). `task_scopes` asks about
scopes, not about leases, and has one. Theorem `LeasesAreSound` covers every tree and number of leases. `MaxRetry = 1`
is one reopening, and stands for the largest value of `retry_count`, beyond which `checked_add` refuses. Lease
ids are interchangeable, hence the symmetry, and nothing asks whether a lease that is not active is overdue,
hence the view (`Seen`), which leaves that out of the comparison of states. The late-snapshot run has only roots because images of
three tasks in memory, on disk and in a snapshot are too many states;
theorem `AlwaysRestorable` covers every tree. The two roots may be exchanged, hence the symmetry. One accepted submission at a time
(`OneAccepted`) is enough for startup to insert it again, late failure included. One pending snapshot at a time is
enough to be older than any number of commits. *Scope*: one place for root and agent is the
instance in which waiting parents matter; two loops are the old and the new one of a restart, four
executions two for each task; `MaxUpsets` lets any two kinds of trouble meet, the theorems cover every number. *Extension*: an old and a new process and an old and
a new package are all the code can meet at once; two callers are a probe and its rival;
`TripAfter = 1` trips the breaker as soon as it can.

Fairness. `TaskStore`: the runner of each
scope keeps running `kill_descendants_of_terminal_tasks` (the first steps of every
`run_cycle`) and startup completes. It assumes that the disk can be written
eventually: after a checkpoint error the loop ends (`state.rs`,
`fail_runner_for_checkpoint_error`), and the tasks wait for the scope to be started
again; `OrphansEnd` therefore speaks of a runner that goes on.
`SessionTurn`: spawned queue tasks and executors run and a model call ends or fails (it has a
deadline); nothing is assumed of clients, stops or crashes. `ToolApproval`: the waiting thread
polls (every 250 ms) and the clock goes on; nobody has to decide. `TaskRunner`: loops,
threads and the observers of panicked threads run, a lock holder goes on, and a shortage of memory passes
(`Relief`). Strong fairness of `Report` says that an executor's rounds are bounded although it may wait for agents in
between; its wait is only polled (weak fairness of `Return`): that the parent gets its place back is shown. Nothing is
assumed of failing checkpoints: `ScopeEnds` names the outcomes that a reported error (`abandoned`) and a
result that could not be written (`ResultLost`) leave. `ExtensionHost`:
reconcile is called every five seconds and the lock it takes is fair, launches and stops have
deadlines, a killed process dies; nobody has to operate the plugin or to call the hook.

## 4. Findings and observations

Finding, with a run:

1. `task_lost_acceptance`. Reconciliation commits a new generation before the
   accepted submissions are read, so a root that was accepted and never written looks covered
   and is dropped. Quotes and lines are in `PROJECT.json`.

Observations, each with the configuration that reproduces it:

2. `MCTurnRestore.cfg` (`RestoreKeepsNewest`). The startup restore replays finished Turns newest first
   (`magi-api/src/state.rs:5012`), and `record_finished` evicts the one recorded first. After a restart
   with more finished Turns than the limit, the index holds the oldest ones, against the
   comments on `finished_order` (`session_turn_coordinator.rs:184`, `:199`) and on the
   restore (`state.rs:5010`). Retried submissions are still answered from the canonical facts.
3. `MCTaskStaleSnapshot.cfg` (`EndedIsDurable`). RunnerManager's snapshot (`state.rs:600`) is written outside
   the lock and can replace a newer generation; after a crash an ended task is live again,
   although memory is not to run ahead of the projection (`task_store.rs:105`).
4. `MCTaskCrossRoot.cfg` (`ActivationAdmitted`). An agent's next activation below a new root passes
   the insert's validation and fails in the incremental checkpoint, which sees
   the dirty root only (`task_store.rs:3056`; the comment at `:3417` warns of exactly this).
5. `MCApprovalAgent.cfg` (`AgentApprovalKept`). `begin_turn` of the main line withdraws every pending
   approval of the session (`tool_approval.rs:395`), those of agents that were handed over included,
   whose interactions their new owner goes on managing (`agent_turns.rs:1156`).
6. `MCSessionSelfLock.cfg` (`NoSelfLock`). `submit_conversation_session_turn` runs with the Turn lock held; when
   another Turn's steer input is still open, its failure path awaits the same lock
   (`turn_service.rs:1718`), and the session accepts nothing more. It takes a running
   status that could not be written, and a submission between the release of the slot
   and the closing of the input.
7. `MCRunnerQueue.cfg` (`QueueIsLive`). A cycle that read its runnable leaves before its scope was stopped puts
   the queue record of a killed task back (`execution_admission.rs:301`); it stays in
   the admission snapshot until the session is deleted.
8. `MCExtensionProbe.cfg` (`ProbeReports`). The breaker's only probe (`breaker.rs:33`) is lost when the budget
   of the hook point is used up before the host is asked (`bus.rs:456`) or the caller's
   future is dropped; the slot then refuses every call until the plugin is restarted.
9. `MCTaskLateError.cfg` (`EndedIsDurable`). When `sync_directory` or `cleanup_stale_generations` fails behind
   the new manifest (`task_store.rs:3150`), the operation returns an error and memory stays, but
   a restart finds it done: a task that was seen ended is gone, or pending again.
10. `MCRunnerMissed.cfg` (`NoneIsLeft`). `terminal_state` (`task_runner.rs:550`) lists the tasks of the scope, then
   reads the root, then the tasks. An agent that is inserted after the list was made, below a root that ends
   before it is read, is not among them: the loop ends with AllComplete and the agent stays pending with its
   reserved place, against "已结束任务下仍未结束的后代没有人会再收集结果，统一级联终止" (`task_runner.rs:472`).
   `RestsClean` and `ScopeEnds` make this exception (`Missed`) and no other.

Seen while modelling, without a property: a Continue may be refused after it has stopped
the scope's loop (`session_continue.rs:804`), and a loop that cannot write its own checkpoint leaves its
scope as it is (`state.rs:305`); `RestsClean` excuses both (`abandoned`). A result whose checkpoint fails is
only logged, and the loop goes on renewing the lease of the thread that is gone (`ScopeEnds`, `ResultLost`). The launch of a
host that failed or was overtaken by a stop does not wait for the killed process, so a killed and
a new process may overlap (`OneHostOfThePackage` speaks of processes nobody has told
to stop); an aborted drain ends in a short window in which the guard of an active plugin
is not registered; an upgrade whose data reset can be neither finished nor rolled back leaves the plugin draining, its
guard registered and its host stopped, until the daemon restarts (`ResetPending`).

## 5. Proofs

`tlapm <module>.tla` checks a proof module from nothing, to the last leaf. Every safety property that a
passing run checks, action properties and the two refinements included, is a theorem for all values of the
constants that satisfy the ASSUMEs of its module. TLC checked each inductive
invariant on the runs' instances before it was proved.

| Module (obligations) | Theorem | States |
|---|---|---|
| `TurnCoordinatorProofs` (2262) | `TypeCorrect`, `SlotIsExclusive`, `IdentityIsStable` | `TypeOK`, `SlotExclusive`, `IdentityStable` |
| | `ResultsAreFinal`, `RequestsAreKeys`, `IndexIsWindow` | `TerminalImmutable`, `OneTurnPerRequest`, `ReplayWindow` |
| | `RestoreIsNewest`, `ContinueIsAgreed` | `RestoreRevivesNewest`, `ContinueAgrees` |
| `TaskStoreProofs` (1339) | `TypeCorrect`, `LeasesAreSound`, `AlwaysRestorable` | `TypeOK`, `LeaseSound`, `Restorable` |
| | `ResultsAreCurrent` | `ResultOfThisRound` |
| | `OneActivationLives`, `ScopesAreApart` | `OneLiveActivation`, `ScopesAreIsolated` |
| `ToolApprovalProofs` (1347) | `TypeCorrect`, `RunsOnce`, `Agreement` | `TypeOK`, `OneRunPerApproval`, `DecisionsAgree` |
| | `Consent`, `Refinement` | `RunsAreConsented`, `ImplementsLedger` |
| `SessionTurnProofs` (2946) | `TypeCorrect`, `SlotAndTurn`, `ExecutorsApart` | `TypeOK`, `SlotFollowsCanon`, `OneExecutor` |
| | `OnlyFaultsOrphan`, `SteersAreHeard` | `NoOrphanTurn`, `NoSteerLost` |
| | `DeletedIsEmpty`, `InOrder` | `DeletedStaysEmpty`, `StartsInOrder` |
| `TaskRunnerProofs` (3831) | `TypeCorrect`, `LimitHolds`, `ScopeAtRest` | `TypeOK`, `WorkIsAdmitted`, `RestsClean` |
| | `GivenUpWithCause`, `Refinement` | `GivenUpForCause`, `ImplementsScope` |
| `ExtensionHostProofs` (881) | `TypeCorrect`, `OneHost`, `Drained`, `ProbeOwned` | `TypeOK`, `OneHostOfThePackage`, `DrainedIsQuiet`, `ProbeIsOwned` |

**Assumptions.** Beside the shapes of constants (a parent relation that is a tree, a limit that is positive,
bounds that are numbers, `None` outside the sets it is compared with):

- `SessionTurn` takes a finite set of inputs (its type invariant counts the accepted ones) and two distinct holders `None` and
  `"stop"` of the lock; `TaskRunner` finite sets of tasks and executions (the admission
  table counts them).
- `ContinueIsAgreed` has the hypothesis `~LiveRestore`: in `MCTurnLifecycle.cfg` with `LiveRestore = TRUE` and three
  requests, a replayed fact puts the Turn that Continue has just settled, and whose record was evicted, back into the slot.
  The code has no caller that restores while it serves. The other theorems of that module hold with and without
  (`RestoreRevivesNewest` speaks of the startup restore alone).

**TurnCoordinator.** Four layers, each proved from the ones before.
`IInv`: `SlotExclusive` alone is not inductive, as a Recover command may fill the slot
according to the identity of the fact it carries; `IdentityStable` and `Unborn` (a Turn that nobody admitted occurs
nowhere) supply that. `BooksInv`: that no request is bound to two Turns needs to know of every place that names
a Turn (`Mentioned`: submissions in flight too), that facts are filed under their Turn and dated by its acceptance
time (`Filed`, `Stamped`), that a session is not deleted under a restore (`Replayed`), and what the Turn
lock promises a Continue between its check and its acceptance (`Promised`). `Window`: the orders of the retained
records are distinct and without gaps up to `nextOrder`, so the record with the lowest order is the one to evict (lemma
`RecordedWindow`). `RestoreInv`: a startup restore is alone (`Undisturbed`), and once its first fact, the newest, is
replayed, the slot is decided and later facts do not change it (`NewestFirst`, lemmas `FirstReplay` and
`LaterReplay`). The second half is delicate when the newest Turn has ended: its own record
may be evicted during the restore, and what keeps an older live fact out is that
every retained record is newer than all that is still to be replayed.
`ContinueAgrees` is inductive together with these, as a Turn has one record at most (lemma `OneRecord`).

**TaskStore.** A checkpoint validates its dirty
roots only and mixes files of different ages, while startup validates
everything. `IInv` says that memory, disk and a pending snapshot are each `Sound`:
consistent, with a valid agent history, *family* closed (all
activations of an agent lie below one root), and each active lease of its task's current
recovery round (`Rounds`, without which a restored image could bring back the lease of an earlier round). Lemma `Glue`: an image put together root by root
from sound images is sound. Lemma `Committed`: a checkpoint that changes its
dirty roots only keeps `IInv`, and so does one that fails behind its manifest
(`FailedLate`); every operation that commits goes through the two, with one lemma per operation. The closure holds because of observation 4: it is what the cross-root refusal
gives, and whoever lifts the refusal has to replace this argument. `OneLiveActivation` then follows by
a descent along the predecessor links of the agent history (`ChainCompleted`, from the least generation that would violate it),
`ScopesAreIsolated` from what a member of a scope can reach (`MembersInScope`).

**ToolApproval.** Registry, waiter's channel, thread and durable record know different things
of one approval. `IInv` says what each may conclude of the others: a call that has not asked has left no trace,
a thread that goes on has its permission on disk (`AllowedIsDurable`), the one run is the execution claimed on disk
(`RunIsExecution`), a permission in any of the four places goes back to a user
(`PermissionsAreConsented`), and the durable path of a client decides nothing somebody waits for
(`StorePathIsLate`). The refinement maps records to `ApprovalLedger` and has one case per action.

**SessionTurn.** The interesting states are those in which a stop waits with the Turn lock held and an executor
still runs. `LockInv` says what the stop knows meanwhile (`StopKnows`, one conjunct per reason to stop), `ExecInv` that
the executor that is tracked owns the slot, `InboxInv` the life of an input and its number in
the queue, `SteerInv` that an input given to a Turn is consumed, in the Turn's context or in its open
steer input; `NoSteerLost` is the last of these at the moment the Turn completes.

**TaskRunner.** `ThreadInv`, `TableInv`, `LoopInv` and `ScopeInv` tie a task's status, its place in the
admission table, its executor thread and the position of the loop. The limit holds because a thread at work has a
place and a place has a keeper (`Seated`, `Owned`). That a scope at rest is clean has two parts (`ScopeInv`). Without an
error that somebody reported, live tasks are `Attended`, by a loop that was not cancelled or by a Continue, or the loop that
ended has `Missed` them; a stop that settled left none. And what the loop concludes from its looks is kept as
long as the looks last (`Looked`): a task it listed and has read as ended stays so, since only Continue opens tasks
again and waits for the loop first; so the one it leaves live is a task it did not list, and that one is pending, since
nobody but the loop claims (lemmas `ReadingStep`, `CycleStep`). In the refinement of `TaskScope` the loop's stale copies of runnable tasks
(`LoopKnows`) are what has to be shown harmless.

**ExtensionHost.** The process nobody has told to stop is the supervisor's (`RunningIsOwned`, `OwnerKnows`), the
probe in flight is the slot's (`OneProbe`), and a lifecycle transaction holds the drain until it has
committed.

**Only model-checked.** The liveness properties `QueueMoves`, `WaitEnds`, `OrphansEnd`, `ScopeEnds` and `Settles`: the
prover has neither fairness nor ENABLED. The finding's property `AcceptedIsKept` and those of the observations are false.

## 6. Plan

1. `SessionTurn` with Goals and task-mode Turns; several scopes on one admission table.
2. The positive counterparts of observations 2, 7 and 8: what a restore keeps below the limit, a queue without
   such a cycle, a breaker whose probes all report.
3. `SessionTurn`'s slot against `TurnCoordinator` as a refinement, in place of the argument in section 2.
4. Event ledger, browser leases, isolation merge, usage reducer.

## 7. Not modelled

Contents of messages, prompts and tool results, formats on disk and on the
wire, timing other than "has passed", failures of the file system in the middle
of a checkpoint (the manifest is replaced atomically), and the components listed as not modelled in `PROJECT.json`. Most of the daemon's lines are of
these kinds: text construction, codecs, routes and tests beside the code.

Of the parts that are modelled: the dispatch gate of `run_cycle` (`with_dispatch_gate` is called by tests only, so its
Blocked and Err outcomes do not occur in the daemon); the outcome Yielded of an execution (nothing constructs it,
and `apply_task_result` commits nothing for it); a panic of the cycle, which RunnerManager settles as it settles an error; a
`commit_chain_recovery` that fails after Continue has started the new loop (`session_continue.rs:1148`); the
limits of the admission table for a session and for a role, which have the form of the one that is modelled; the wall
clock (Turn ids are numbers of acceptance, `monotonic_accepted_at` is taken not to go back across a restart).
