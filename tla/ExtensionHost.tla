---------------------------- MODULE ExtensionHost ----------------------------
(***************************************************************************)
(* One trusted extension with a guard hook: the plugin manager's facts,    *)
(* the lifecycle request that drains it, the reconciling runtime, the      *)
(* supervisor with its Node processes, the slot on the ExtensionBus with   *)
(* its breaker, and the calls that ask the guard.                          *)
(*                                                                         *)
(* Time is abstract.  A call's deadline (HookMode::max_deadline) is not    *)
(* longer than the breaker's cooldown, so that a breaker cools down only   *)
(* when no call is in flight any more.  Neither the failure rate over the  *)
(* breaker's window nor the crashes over the restart window are counted:   *)
(* any record may trip the breaker, any crash may be the last.  A process  *)
(* that was told to stop ends (kill of the process tree).  What a guard    *)
(* decides is not kept: a call that is blocked, or goes on, has ended.     *)
(* Bound: one reclaiming task at a time.                                   *)
(***************************************************************************)
EXTENDS Naturals, FiniteSets

CONSTANTS
    Packages,    \* package digests, installed in any order
    First,       \* the package found by the daemon when it starts
    Hosts,       \* Node processes, used again once they are gone
    Callers,     \* threads that dispatch the hook
    TripAfter,   \* BreakerPolicy.consecutive_failures
    MaxOps,      \* bound on lifecycle operations
    MaxFaults,   \* bound on failing hosts, starts and commits
    None

\* ExtensionRuntime.running of the plugin, if it is there.
Entries == [package : Packages, quiesced : BOOLEAN, supervised : BOOLEAN]

ASSUME BoundAssumption ==
    /\ TripAfter \in Nat \ {0}
    /\ {MaxOps, MaxFaults} \subseteq Nat
    /\ First \in Packages
    /\ None \notin Packages \cup Hosts \cup Entries

VARIABLES
    installed, \* manager: the package and whether it is active
    draining,  \* manager: is_draining, for a lifecycle transaction or a pending reset
    handler,   \* the HTTP request of that transaction
    task,      \* the detached task of quiesce
    rec,       \* reconcile: where it is and the active package it read
    entry,     \* ExtensionRuntime.running of the plugin
    sup,       \* the supervisor task, its package, its process
    stop,      \* stop_signal holds a permit
    proc,      \* the processes
    ver,       \* the package a process was started from
    slot,      \* bus: package of the registered slot
    instance,  \* bus: the attached process
    breaker,   \* bus: the slot's breaker
    lost,      \* history: a probe of this breaker ended without a record
    call,      \* the dispatches
    ops, faults

manager == <<installed, draining>>
runtime == <<rec, entry, task>>
super   == <<sup, stop>>
host    == <<proc, ver>>
bus     == <<slot, instance>>
guard   == <<breaker, lost>>
counted == <<ops, faults>>
vars == <<manager, handler, runtime, super, host, bus, guard, call, counted>>

NoCall    == [pc |-> "idle", on |-> "none", host |-> None, probe |-> FALSE]
NewBreaker == [st |-> "closed", fails |-> 0]
NoSup     == [pc |-> "none", package |-> None, host |-> None]

SupPCs   == {"none", "starting", "launching", "running", "stopping", "dying",
             "backoff", "failed", "stopped"}
Sups     == [pc : SupPCs, package : Packages \cup {None}, host : Hosts \cup {None}]
RecPCs   == {"idle", "wants", "stops", "starts"}
Breakers == [st : {"closed", "open", "cooled", "probing"}, fails : 0 .. TripAfter]
Dispatches == [pc : {"idle", "frozen", "admitted", "asked"}, on : {"none", "slot", "removed"},
               host : Hosts \cup {None}, probe : BOOLEAN]

TypeOK ==
    /\ installed \in [active : BOOLEAN, package : Packages]
    /\ draining \in BOOLEAN
    /\ handler \in {"none", "waits", "commits"}
    /\ task \in {"none", "wants", "stops"}
    /\ rec \in [pc : RecPCs, seen : Packages \cup {None}]
    /\ entry \in Entries \cup {None}
    /\ sup \in Sups
    /\ stop \in BOOLEAN
    /\ proc \in [Hosts -> {"none", "launching", "up", "dead", "doomed"}]
    /\ ver \in [Hosts -> Packages \cup {None}]
    /\ slot \in Packages \cup {None}
    /\ instance \in Hosts \cup {None}
    /\ breaker \in Breakers
    /\ lost \in BOOLEAN
    /\ call \in [Callers -> Dispatches]
    /\ ops \in 0 .. MaxOps
    /\ faults \in 0 .. MaxFaults

Init ==
    /\ installed \in [active : BOOLEAN, package : {First}]
    /\ draining = FALSE /\ handler = "none" /\ task = "none"
    /\ rec = [pc |-> "idle", seen |-> None]
    /\ entry = None /\ sup = NoSup /\ stop = FALSE
    /\ proc = [h \in Hosts |-> "none"] /\ ver = [h \in Hosts |-> None]
    /\ slot = None /\ instance = None
    /\ breaker = NewBreaker /\ lost = FALSE
    /\ call = [c \in Callers |-> NoCall]
    /\ ops = 0 /\ faults = 0

CanFail == faults < MaxFaults
Fault   == faults' = faults + 1

-----------------------------------------------------------------------------
(* The plugin manager and the lifecycle routes *)

Operates == ops < MaxOps /\ ops' = ops + 1

\* activate; an earlier upgrade or a new install may have changed the package.
Activate ==
    /\ ~draining /\ ~installed.active
    /\ Operates
    /\ \E p \in Packages : installed' = [active |-> TRUE, package |-> p]
    /\ UNCHANGED <<draining, handler, runtime, super, host, bus, guard, call, faults>>

\* begin_deactivation, begin_upgrade_drain (which takes an inactive plugin as
\* well), and the spawn of quiesce's task.
BeginDrain ==
    /\ ~draining
    /\ task = "none"
    /\ Operates
    /\ draining' = TRUE
    /\ handler' = "waits"
    /\ task' = "wants"
    /\ UNCHANGED <<installed, rec, entry, super, host, bus, guard, call, faults>>

\* authorize that read the plugin as inactive, before it was activated or while
\* another transaction drained it: an activation it takes away is not drained.
AuthorizeLate ==
    /\ installed.active /\ (draining \/ ops > 0)
    /\ Operates
    /\ installed' = [installed EXCEPT !.active = FALSE]
    /\ UNCHANGED <<draining, handler, runtime, super, host, bus, guard, call, faults>>

\* deactivate; or upgrade, which takes the activation away; or authorize, which
\* may leave it; or neither could be written.  The drain ends with it, except
\* after an upgrade whose data reset could be neither finished nor rolled back:
\* pending_reset keeps the plugin draining.
Commit ==
    /\ handler = "commits"
    /\ handler' = "none"
    /\ \/ draining' = FALSE /\ UNCHANGED faults
       \/ CanFail /\ Fault /\ UNCHANGED draining
    /\ \/ \E p \in Packages : installed' = [active |-> FALSE, package |-> p]
       \/ UNCHANGED installed
    /\ UNCHANGED <<runtime, super, host, bus, guard, call, ops>>

\* The client goes away: PluginDrainGuard is dropped, the task goes on.
Disconnect ==
    /\ handler = "waits"
    /\ CanFail /\ Fault
    /\ handler' = "none"
    /\ draining' = FALSE
    /\ UNCHANGED <<installed, runtime, super, host, bus, guard, call, ops>>

-----------------------------------------------------------------------------
(* The runtime: reconcile and quiesce share the lock on `running` *)

Unlocked == rec.pc \in {"idle", "wants"} /\ task # "stops"

\* PluginSupervisor::stop asks; its callers go on once the task has ended.
AskStop  == stop' = (sup.pc \notin {"none", "failed", "stopped"})

\* Mutant: the request to stop is not followed up.
EndedSoon == TRUE

Ended == sup.pc \in {"none", "failed", "stopped"}

QuiesceLocks ==
    /\ task = "wants" /\ Unlocked
    /\ IF entry = None
       THEN UNCHANGED <<entry, stop>>
       ELSE /\ entry' = [entry EXCEPT !.quiesced = TRUE, !.supervised = FALSE]
            /\ IF entry.supervised THEN AskStop ELSE UNCHANGED stop
    /\ task' = "stops"
    /\ UNCHANGED <<manager, handler, rec, sup, host, bus, guard, call, counted>>

\* The supervisor has ended: detach, unlock, answer the request if it waits.
QuiesceDone ==
    /\ task = "stops" /\ Ended
    /\ task' = "none"
    /\ instance' = None
    /\ handler' = IF handler = "waits" THEN "commits" ELSE handler
    /\ UNCHANGED <<manager, rec, entry, super, host, slot, guard, call, counted>>

\* desired_packages is read before the lock is taken.
ReconcileReads ==
    /\ rec.pc = "idle"
    /\ rec' = [pc |-> "wants", seen |-> IF installed.active THEN installed.package ELSE None]
    /\ UNCHANGED <<manager, handler, entry, task, super, host, bus, guard, call, counted>>

\* Mutant: an entry that was quiesced is as good as a running one.
StaleByPackage == entry # None /\ ~draining /\ entry.package # rec.seen

Stale == /\ entry # None
         /\ ~draining
         /\ entry.quiesced \/ entry.package # rec.seen

\* Stop what is not wanted any more, or go straight to the start.
ReconcileLocks ==
    /\ rec.pc = "wants" /\ Unlocked
    /\ IF Stale
       THEN /\ rec' = [rec EXCEPT !.pc = "stops"]
            /\ IF entry.supervised THEN AskStop ELSE UNCHANGED stop
       ELSE /\ rec' = [rec EXCEPT !.pc = "starts"]
            /\ UNCHANGED stop
    /\ UNCHANGED <<manager, handler, entry, task, sup, host, bus, guard, call, counted>>

\* unregister_plugin: dispatches that froze the slot keep it, without a host.
ReconcileStopped ==
    /\ rec.pc = "stops" /\ Ended
    /\ rec' = [rec EXCEPT !.pc = "starts"]
    /\ entry' = None
    /\ sup' = NoSup
    /\ slot' = None
    /\ instance' = None
    /\ breaker' = NewBreaker /\ lost' = FALSE
    /\ call' = [c \in Callers |->
                  IF call[c].on = "slot" THEN [call[c] EXCEPT !.on = "removed"] ELSE call[c]]
    /\ UNCHANGED <<manager, handler, task, stop, host, counted>>

\* start_plugin: the hooks are registered before anything can fail.
ReconcileStarts ==
    /\ rec.pc = "starts"
    /\ rec' = [pc |-> "idle", seen |-> None]
    /\ IF rec.seen = None \/ entry # None \/ draining
       THEN UNCHANGED <<entry, super, slot, faults>>
       ELSE /\ slot' = rec.seen
            /\ stop' = FALSE
            /\ \/ /\ entry' = [package |-> rec.seen, quiesced |-> FALSE, supervised |-> TRUE]
                  /\ sup' = [NoSup EXCEPT !.pc = "starting", !.package = rec.seen]
                  /\ UNCHANGED faults
               \/ /\ CanFail /\ Fault
                  /\ entry' = [package |-> rec.seen, quiesced |-> FALSE, supervised |-> FALSE]
                  /\ UNCHANGED sup
    /\ UNCHANGED <<manager, handler, task, host, instance, guard, call, ops>>

-----------------------------------------------------------------------------
(* The supervisor and its processes *)

Dead(h)  == proc[h] \in {"none", "dead", "doomed"}
Doom(h)  == proc' = [proc EXCEPT ![h] = IF @ = "none" THEN @ ELSE "doomed"]

\* spawn_tokio; the select may poll the launch before a stop that is there.
Launch ==
    /\ sup.pc = "starting"
    /\ \E h \in Hosts : proc[h] = "none"
    /\ LET h == CHOOSE h \in Hosts : proc[h] = "none"  \* which one: a mere name
       IN  /\ proc' = [proc EXCEPT ![h] = "launching"]
           /\ ver' = [ver EXCEPT ![h] = sup.package]
           /\ sup' = [sup EXCEPT !.pc = "launching", !.host = h]
    /\ UNCHANGED <<manager, handler, runtime, stop, bus, guard, call, counted>>

\* Handshake and host.ready, then attach: the select may prefer the result to
\* a stop that is there as well.  Without a slot the host is stopped again.
Attach ==
    /\ sup.pc = "launching"
    /\ IF slot # None
       THEN /\ proc' = [proc EXCEPT ![sup.host] = "up"]
            /\ instance' = sup.host
            /\ sup' = [sup EXCEPT !.pc = "running"]
       ELSE /\ Doom(sup.host)
            /\ sup' = [sup EXCEPT !.pc = "stopping"]
            /\ UNCHANGED instance
    /\ UNCHANGED <<manager, handler, runtime, stop, ver, slot, guard, call, counted>>

\* on_crash
Crash == \E pc \in {"backoff", "failed"} : sup' = [sup EXCEPT !.pc = pc, !.host = None]

\* A launch that fails aborts its process and does not wait for it.
LaunchFails ==
    /\ sup.pc = "launching"
    /\ CanFail /\ Fault
    /\ Doom(sup.host)
    /\ Crash
    /\ UNCHANGED <<manager, handler, runtime, stop, ver, bus, guard, call, ops>>

\* The stop signal is seen while launching or waiting: LaunchGuard dooms the
\* process.
StopEarly ==
    /\ sup.pc \in {"starting", "launching", "backoff"} /\ stop
    /\ stop' = FALSE
    /\ sup' = [sup EXCEPT !.pc = "stopped", !.host = None]
    /\ IF sup.pc = "launching" THEN Doom(sup.host) ELSE UNCHANGED proc
    /\ UNCHANGED <<manager, handler, runtime, ver, bus, guard, call, counted>>

BackoffOver ==
    /\ sup.pc = "backoff"
    /\ sup' = [sup EXCEPT !.pc = "starting"]
    /\ UNCHANGED <<manager, handler, runtime, stop, host, bus, guard, call, counted>>

\* Exit of the process, loss of its connection, a ping without an answer.
HostDies(h) ==
    /\ proc[h] = "up"
    /\ CanFail /\ Fault
    /\ proc' = [proc EXCEPT ![h] = "dead"]
    /\ UNCHANGED <<manager, handler, runtime, super, ver, bus, guard, call, ops>>

\* wait_or_stop returns: detach, then HostInstance::stop.
Detach ==
    /\ sup.pc = "running"
    /\ \/ /\ proc[sup.host] = "dead"
          /\ sup' = [sup EXCEPT !.pc = "dying"]
          /\ UNCHANGED stop
       \/ /\ stop
          /\ stop' = FALSE
          /\ sup' = [sup EXCEPT !.pc = "stopping"]
    /\ instance' = None
    /\ Doom(sup.host)
    /\ UNCHANGED <<manager, handler, runtime, ver, slot, guard, call, counted>>

\* The process tree is gone.
Reap(h) ==
    /\ proc[h] = "doomed"
    /\ proc' = [proc EXCEPT ![h] = "none"]
    /\ ver' = [ver EXCEPT ![h] = None]
    /\ UNCHANGED <<manager, handler, runtime, super, bus, guard, call, counted>>

\* HostInstance::stop waited for that.
HostStopped ==
    /\ sup.pc \in {"stopping", "dying"}
    /\ proc[sup.host] = "none"
    /\ IF sup.pc = "stopping" THEN sup' = [sup EXCEPT !.pc = "stopped", !.host = None]
                              ELSE Crash
    /\ UNCHANGED <<manager, handler, runtime, stop, host, bus, guard, call, counted>>

-----------------------------------------------------------------------------
(* The breaker and the dispatch of a guard *)

\* Mutant: failures are counted on after the breaker has tripped.
RecordOn(ok) ==
    \/ /\ breaker.st = "probing"
       /\ breaker' = IF ok THEN NewBreaker ELSE [breaker EXCEPT !.st = "open"]
    \/ /\ breaker.st # "probing"
       /\ LET n == IF ok THEN 0 ELSE breaker.fails + 1
          IN  \E trips \in IF n = TripAfter THEN {TRUE} ELSE BOOLEAN :
                 breaker' = [st |-> IF trips THEN "open" ELSE breaker.st, fails |-> n]

\* Breaker::record
Record(ok) ==
    \/ /\ breaker.st = "probing"
       /\ breaker' = IF ok THEN NewBreaker ELSE [breaker EXCEPT !.st = "open"]
    \/ /\ breaker.st # "probing"
       /\ LET n == IF ok THEN 0
                   ELSE IF breaker.fails < TripAfter THEN breaker.fails + 1 ELSE TripAfter
          IN  \E trips \in IF n = TripAfter THEN {TRUE} ELSE BOOLEAN :
                 breaker' = [st |-> IF trips THEN "open" ELSE breaker.st, fails |-> n]

\* A call on a removed slot tells the breaker that was removed with it.
RecordOf(c, ok) == IF call[c].on = "slot" THEN Record(ok) ELSE UNCHANGED breaker

\* The cooldown is over.
Cool ==
    /\ breaker.st = "open"
    /\ \A c \in Callers : ~(call[c].on = "slot" /\ call[c].pc \in {"admitted", "asked"})
    /\ breaker' = [breaker EXCEPT !.st = "cooled"]
    /\ UNCHANGED <<manager, handler, runtime, super, host, bus, lost, call, counted>>

Ends(c) == call' = [call EXCEPT ![c] = NoCall]

\* frozen: a hook nobody registered does not hold anything up.
Begin(c) ==
    /\ call[c].pc = "idle"
    /\ slot # None
    /\ call' = [call EXCEPT ![c].pc = "frozen", ![c].on = "slot"]
    /\ UNCHANGED <<manager, handler, runtime, super, host, bus, guard, counted>>

\* Mutant: every call after the cooldown is a probe.
MayProbeAgain == breaker.st \in {"cooled", "probing"}

MayProbe == breaker.st = "cooled"

\* Breaker::admit; a removed slot has no host behind it, whatever its breaker.
Admit(c) ==
    /\ call[c].pc = "frozen"
    /\ \/ /\ call[c].on = "slot" /\ breaker.st = "closed"
          /\ call' = [call EXCEPT ![c].pc = "admitted"]
          /\ UNCHANGED breaker
       \/ /\ call[c].on = "slot" /\ MayProbe
          /\ breaker' = [breaker EXCEPT !.st = "probing"]
          /\ call' = [call EXCEPT ![c].pc = "admitted", ![c].probe = TRUE]
       \/ /\ call[c].on = "removed" \/ (breaker.st # "closed" /\ ~MayProbe)
          /\ Ends(c)
          /\ UNCHANGED breaker
    /\ UNCHANGED <<manager, handler, runtime, super, host, bus, lost, counted>>

Probes(c) == call[c].probe /\ call[c].on = "slot"

Available(c) == call[c].on = "slot" /\ instance # None /\ proc[instance] = "up"

\* The host is asked, or is not there, or the budget of the hook point is
\* used up, which nobody tells the breaker.
Ask(c) ==
    /\ call[c].pc = "admitted"
    /\ \/ /\ Available(c)
          /\ call' = [call EXCEPT ![c].pc = "asked", ![c].host = instance]
          /\ UNCHANGED guard
       \/ /\ ~Available(c)
          /\ Ends(c)
          /\ IF call[c].probe THEN RecordOf(c, FALSE) ELSE UNCHANGED breaker
          /\ UNCHANGED lost
       \/ /\ Available(c)
          /\ Ends(c)
          /\ lost' = (lost \/ Probes(c))
          /\ UNCHANGED breaker
    /\ UNCHANGED <<manager, handler, runtime, super, host, bus, counted>>

\* A decision, from a host that may be shutting down; or a timeout, a protocol
\* error or HostGone.
Answer(c) ==
    /\ call[c].pc = "asked"
    /\ \/ /\ proc[call[c].host] \in {"up", "doomed"}
          /\ Ends(c)
          /\ RecordOf(c, TRUE)
       \/ /\ Ends(c)
          /\ RecordOf(c, FALSE)
    /\ UNCHANGED <<manager, handler, runtime, super, host, bus, lost, counted>>

\* The caller drops the future while it waits for the host.
Abandon(c) ==
    /\ call[c].pc = "asked"
    /\ call' = [call EXCEPT ![c] = NoCall]
    /\ lost' = (lost \/ Probes(c))
    /\ UNCHANGED <<manager, handler, runtime, super, host, bus, breaker, counted>>

-----------------------------------------------------------------------------
Operation == Activate \/ AuthorizeLate \/ BeginDrain \/ Commit \/ Disconnect
Reconcile == ReconcileReads \/ ReconcileLocks \/ ReconcileStopped \/ ReconcileStarts
Quiesce   == QuiesceLocks \/ QuiesceDone
Supervise == Launch \/ Attach \/ LaunchFails \/ StopEarly \/ BackoffOver \/ Detach
                \/ HostStopped
Dispatch(c) == Begin(c) \/ Admit(c) \/ Ask(c) \/ Answer(c) \/ Abandon(c)

Next ==
    \/ Operation \/ Reconcile \/ Quiesce \/ Supervise \/ Cool
    \/ \E h \in Hosts : HostDies(h) \/ Reap(h)
    \/ \E c \in Callers : Dispatch(c)

Spec == Init /\ [][Next]_vars

(***************************************************************************)
(* reconcile runs every five seconds and the lock is fair, tasks that were *)
(* spawned run, launches and stops have deadlines, and a doomed process    *)
(* dies.  Nobody has to call the hook or to operate the plugin.            *)
(***************************************************************************)
Fairness ==
    /\ WF_vars(Commit)
    /\ WF_vars(ReconcileReads) /\ SF_vars(ReconcileLocks)
    /\ WF_vars(ReconcileStopped) /\ WF_vars(ReconcileStarts)
    /\ SF_vars(QuiesceLocks) /\ WF_vars(QuiesceDone)
    /\ WF_vars(Supervise)
    /\ \A h \in Hosts : WF_vars(Reap(h))

FairSpec == Spec /\ Fairness

-----------------------------------------------------------------------------
(* Properties *)

Running(h) == proc[h] \in {"launching", "up", "dead"}

(***************************************************************************)
(* Stops that overtake launches, drains that are given up and restarts     *)
(* never leave two processes of the plugin that nobody has told to stop,   *)
(* and the guard of a package is answered by a process of that package.    *)
(***************************************************************************)
OneHostOfThePackage ==
    /\ \A g, h \in Hosts : Running(g) /\ Running(h) => g = h
    /\ instance # None => slot # None /\ ver[instance] = slot

(***************************************************************************)
(* When a lifecycle transaction commits, quiesce has reclaimed the         *)
(* extension: nothing is attached, and no process runs that is not already *)
(* being killed, although reconcile may have read the plugin as active.    *)
(***************************************************************************)
DrainedIsQuiet ==
    handler = "commits" => instance = None /\ \A h \in Hosts : ~Running(h)

(***************************************************************************)
(* "Half open, one probe only": while the breaker waits for its probe, one *)
(* call is that probe; unless a probe ended without telling the breaker,   *)
(* after which nothing is admitted any more.                               *)
(***************************************************************************)
InFlightProbes == {c \in Callers : Probes(c) /\ call[c].pc \in {"admitted", "asked"}}
ProbeIsOwned ==
    /\ Cardinality(InFlightProbes) <= 1
    /\ breaker.st = "probing" /\ ~lost => InFlightProbes # {}

(***************************************************************************)
(* "One probe decides": a half-open breaker has a probe in flight.  The    *)
(* budget of the hook point and callers that give up break it.             *)
(***************************************************************************)
ProbeReports == breaker.st = "probing" => InFlightProbes # {}

(***************************************************************************)
(* Once nobody operates the plugin any more, the runtime settles: nothing  *)
(* registered, attached or running for an inactive plugin; for an active   *)
(* one, the guard of its package registered, and its process attached or   *)
(* the start given up.  A plugin whose upgrade left a data reset pending   *)
(* keeps what it had: it is neither stopped nor started.                   *)
(***************************************************************************)
Settled ==
    IF installed.active
    THEN /\ slot = installed.package
         /\ \/ instance # None
            \/ sup.pc = "failed"
            \/ entry # None /\ ~entry.supervised /\ ~entry.quiesced
    ELSE slot = None /\ \A h \in Hosts : proc[h] = "none"
ResetPending == draining /\ handler = "none"
Settles == <>[](Settled \/ ResetPending)
=============================================================================
