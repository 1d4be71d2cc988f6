------------------------ MODULE ExtensionHostProofs ------------------------
(***************************************************************************)
(* Proofs about ExtensionHost, for every number of packages, processes,    *)
(* callers, operations and faults.                                         *)
(*                                                                         *)
(* The supervisor is the owner of the one process that is not doomed, and  *)
(* the slot is the owner of the one probe: IInv says so.                   *)
(***************************************************************************)
EXTENDS ExtensionHost, TLAPS, FiniteSetTheorems

\* A process that nobody has told to stop is the supervisor's.
RunningIsOwned ==
    \A h \in Hosts : Running(h) => sup.pc \in {"launching", "running"} /\ sup.host = h

\* The supervisor launches and watches a process of its own package.
OwnerKnows ==
    /\ sup.pc = "launching" =>
         sup.host \in Hosts /\ proc[sup.host] = "launching" /\ ver[sup.host] = sup.package
    /\ sup.pc = "running" =>
         sup.host \in Hosts /\ proc[sup.host] \in {"up", "dead"} /\ ver[sup.host] = sup.package

\* The slot is registered as long as there is a supervisor, for its package.
SlotIsSupervised ==
    /\ entry = None => sup = NoSup /\ slot = None
    /\ sup.pc # "none" => slot = sup.package /\ slot # None

AttachedIsRunning == instance # None => sup.pc = "running" /\ instance = sup.host

\* A lifecycle transaction holds the drain until it has committed.
TransactionDrains ==
    /\ handler # "none" => draining
    /\ handler = "commits" => Ended

InFlight(c) == Probes(c) /\ call[c].pc \in {"admitted", "asked"}

\* The breaker has one probe at a time, and cools down with no call under way.
OneProbe ==
    /\ \A c, d \in Callers : InFlight(c) /\ InFlight(d) => c = d
    /\ \A c \in Callers : call[c].pc \in {"idle", "frozen"} => ~call[c].probe
    /\ breaker.st = "cooled" =>
         \A c \in Callers : ~(call[c].on = "slot" /\ call[c].pc \in {"admitted", "asked"})
    /\ breaker.st = "probing" /\ ~lost => \E c \in Callers : InFlight(c)

HostInv ==
    /\ RunningIsOwned /\ OwnerKnows
    /\ SlotIsSupervised /\ AttachedIsRunning
    /\ TransactionDrains

IInv == TypeOK /\ HostInv /\ OneProbe

-----------------------------------------------------------------------------
(* Types *)

LEMMA CountTypes ==
    /\ ops \in 0 .. MaxOps /\ Operates => ops' \in 0 .. MaxOps
    /\ faults \in 0 .. MaxFaults /\ CanFail /\ Fault => faults' \in 0 .. MaxFaults
BY BoundAssumption DEF Operates, CanFail, Fault

LEMMA OperationTypes == TypeOK /\ Operation => TypeOK'
<1> SUFFICES ASSUME TypeOK, Operation PROVE TypeOK'
  OBVIOUS
<1> USE CountTypes DEF runtime, super, host, bus, guard
<1>1. CASE Activate
  <2>1. installed' \in [active : BOOLEAN, package : Packages] /\ ops' \in 0 .. MaxOps
    BY <1>1 DEF Activate, TypeOK
  <2> QED
    BY <1>1, <2>1 DEF Activate, TypeOK
<1>2. CASE BeginDrain
  <2>1. ops' \in 0 .. MaxOps
    BY <1>2 DEF BeginDrain, TypeOK
  <2> QED
    BY <1>2, <2>1 DEF BeginDrain, TypeOK
<1>5. CASE AuthorizeLate
  <2>1. installed' \in [active : BOOLEAN, package : Packages] /\ ops' \in 0 .. MaxOps
    BY <1>5 DEF AuthorizeLate, TypeOK
  <2> QED
    BY <1>5, <2>1 DEF AuthorizeLate, TypeOK
<1>3. CASE Commit
  <2>1. \A p \in Packages :
           [active |-> FALSE, package |-> p] \in [active : BOOLEAN, package : Packages]
    OBVIOUS
  <2>2. installed' \in [active : BOOLEAN, package : Packages]
    BY <1>3, <2>1 DEF Commit, TypeOK
  <2>3. faults' \in 0 .. MaxFaults /\ draining' \in BOOLEAN
    BY <1>3 DEF Commit, TypeOK
  <2> QED
    BY <1>3, <2>2, <2>3 DEF Commit, TypeOK
<1>4. CASE Disconnect
  <2>1. faults' \in 0 .. MaxFaults
    BY <1>4 DEF Disconnect, TypeOK
  <2> QED
    BY <1>4, <2>1 DEF Disconnect, TypeOK
<1> QED
  BY <1>1, <1>2, <1>3, <1>4, <1>5 DEF Operation

LEMMA ReconcileTypes == TypeOK /\ (Reconcile \/ Quiesce) => TypeOK'
<1> SUFFICES ASSUME TypeOK, Reconcile \/ Quiesce PROVE TypeOK'
  OBVIOUS
<1> USE DEF manager, super, host, bus, guard, counted
<1>1. CASE QuiesceLocks
  <2>1. entry' \in Entries \cup {None}
    BY <1>1 DEF QuiesceLocks, TypeOK, Entries
  <2>2. stop' \in BOOLEAN
    BY <1>1 DEF QuiesceLocks, TypeOK, AskStop
  <2> QED
    BY <1>1, <2>1, <2>2 DEF QuiesceLocks, TypeOK
<1>2. CASE QuiesceDone
  BY <1>2 DEF QuiesceDone, TypeOK
<1>3. CASE ReconcileReads
  <2>1. rec' \in [pc : RecPCs, seen : Packages \cup {None}]
    BY <1>3 DEF ReconcileReads, TypeOK, RecPCs
  <2> QED
    BY <1>3, <2>1 DEF ReconcileReads, TypeOK
<1>4. CASE ReconcileLocks
  <2>1. rec' \in [pc : RecPCs, seen : Packages \cup {None}]
    BY <1>4 DEF ReconcileLocks, TypeOK, RecPCs
  <2>2. stop' \in BOOLEAN
    BY <1>4 DEF ReconcileLocks, TypeOK, AskStop
  <2> QED
    BY <1>4, <2>1, <2>2 DEF ReconcileLocks, TypeOK
<1>5. CASE ReconcileStopped
  <2>1. rec' \in [pc : RecPCs, seen : Packages \cup {None}]
    BY <1>5 DEF ReconcileStopped, TypeOK, RecPCs
  <2>2. sup' \in Sups
    BY <1>5 DEF ReconcileStopped, NoSup, Sups, SupPCs
  <2>3. breaker' \in Breakers
    BY <1>5, BoundAssumption DEF ReconcileStopped, NewBreaker, Breakers
  <2>4. ASSUME NEW c \in Callers PROVE [call[c] EXCEPT !.on = "removed"] \in Dispatches
    BY DEF TypeOK, Dispatches
  <2>5. call' \in [Callers -> Dispatches]
    BY <1>5, <2>4 DEF ReconcileStopped, TypeOK
  <2> QED
    BY <1>5, <2>1, <2>2, <2>3, <2>5 DEF ReconcileStopped, TypeOK
<1>6. CASE ReconcileStarts
  <2>1. rec' \in [pc : RecPCs, seen : Packages \cup {None}]
    BY <1>6 DEF ReconcileStarts, RecPCs
  <2>2. CASE UNCHANGED <<entry, super, slot, faults>>
    BY <1>6, <2>1, <2>2 DEF ReconcileStarts, TypeOK
  <2>3. CASE rec.seen # None /\ slot' = rec.seen /\ stop' = FALSE
    <3>1. rec.seen \in Packages
      BY <2>3 DEF TypeOK
    <3>2. \A b \in BOOLEAN : [package |-> rec.seen, quiesced |-> FALSE, supervised |-> b] \in Entries
      BY <3>1 DEF Entries
    <3>3. [NoSup EXCEPT !.pc = "starting", !.package = rec.seen] \in Sups
      BY <3>1 DEF NoSup, Sups, SupPCs
    <3>4. /\ entry' \in Entries \cup {None} /\ sup' \in Sups
          /\ faults' \in 0 .. MaxFaults
      BY <1>6, <2>3, <3>2, <3>3, CountTypes DEF ReconcileStarts, TypeOK
    <3> QED
      BY <1>6, <2>1, <2>3, <3>4 DEF ReconcileStarts, TypeOK
  <2> QED
    BY <1>6, <2>2, <2>3 DEF ReconcileStarts
<1> QED
  BY <1>1, <1>2, <1>3, <1>4, <1>5, <1>6 DEF Reconcile, Quiesce

LEMMA SupUpdate ==
    ASSUME TypeOK, NEW p \in SupPCs, NEW h \in Hosts \cup {None}
    PROVE  /\ [sup EXCEPT !.pc = p] \in Sups
           /\ [sup EXCEPT !.pc = p, !.host = h] \in Sups
BY DEF TypeOK, Sups

LEMMA ProcUpdate ==
    ASSUME TypeOK, NEW h, NEW p \in {"none", "launching", "up", "dead", "doomed"}
    PROVE  /\ [proc EXCEPT ![h] = p] \in [Hosts -> {"none", "launching", "up", "dead", "doomed"}]
           /\ Doom(h) => proc' \in [Hosts -> {"none", "launching", "up", "dead", "doomed"}]
BY DEF TypeOK, Doom

LEMMA CrashType ==
    ASSUME TypeOK, Crash
    PROVE  sup' \in Sups
<1>1. PICK p \in {"backoff", "failed"} : sup' = [sup EXCEPT !.pc = p, !.host = None]
  BY DEF Crash
<1>2. p \in SupPCs
  BY DEF SupPCs
<1> QED
  BY <1>1, <1>2, SupUpdate

LEMMA SuperviseTypes ==
    TypeOK /\ (Supervise \/ \E h \in Hosts : HostDies(h) \/ Reap(h)) => TypeOK'
<1> SUFFICES ASSUME TypeOK, Supervise \/ \E h \in Hosts : HostDies(h) \/ Reap(h)
             PROVE  TypeOK'
  OBVIOUS
<1> DEFINE Procs == [Hosts -> {"none", "launching", "up", "dead", "doomed"}]
<1>0. /\ {"starting", "launching", "running", "stopping", "dying", "backoff", "failed", "stopped"}
           \subseteq SupPCs
      /\ sup.host \in Hosts \cup {None} /\ sup.package \in Packages \cup {None}
  BY DEF SupPCs, TypeOK, Sups
<1> USE DEF manager, runtime, super, host, bus, guard, counted
<1>1. CASE Launch
  <2> DEFINE h == CHOOSE h \in Hosts : proc[h] = "none"
  <2>1. h \in Hosts
    BY <1>1 DEF Launch
  <2> HIDE DEF h
  <2>2. proc' = [proc EXCEPT ![h] = "launching"] /\ ver' = [ver EXCEPT ![h] = sup.package]
        /\ sup' = [sup EXCEPT !.pc = "launching", !.host = h]
    BY <1>1 DEF Launch, h
  <2>0. sup' \in Sups
    BY <1>0, <2>1, <2>2, SupUpdate
  <2>3. proc' \in Procs
    BY <1>0, <2>1, <2>2, ProcUpdate
  <2>4. ver' \in [Hosts -> Packages \cup {None}]
    BY <1>0, <2>2 DEF TypeOK
  <2> QED
    BY <1>1, <2>0, <2>3, <2>4 DEF Launch, TypeOK
<1>2. CASE Attach
  <2>1. proc' \in Procs
    BY <1>0, <1>2, ProcUpdate DEF Attach
  <2>0. sup' \in Sups
    BY <1>0, <1>2, SupUpdate DEF Attach
  <2>2. instance' \in Hosts \cup {None}
    BY <1>0, <1>2 DEF Attach, TypeOK
  <2> QED
    BY <1>2, <2>0, <2>1, <2>2 DEF Attach, TypeOK
<1>3. CASE LaunchFails
  <2>1. proc' \in Procs
    BY <1>0, <1>3, ProcUpdate DEF LaunchFails
  <2>0. sup' \in Sups
    BY <1>3, CrashType DEF LaunchFails
  <2>2. faults' \in 0 .. MaxFaults
    BY <1>3, CountTypes DEF LaunchFails, TypeOK
  <2> QED
    BY <1>3, <2>0, <2>1, <2>2 DEF LaunchFails, TypeOK
<1>4. CASE StopEarly
  <2>1. proc' \in Procs
    BY <1>0, <1>4, ProcUpdate DEF StopEarly, TypeOK
  <2>2. sup' \in Sups
    BY <1>0, <1>4, SupUpdate DEF StopEarly
  <2> QED
    BY <1>4, <2>1, <2>2 DEF StopEarly, TypeOK
<1>5. CASE BackoffOver
  <2>1. sup' \in Sups
    BY <1>0, <1>5, SupUpdate DEF BackoffOver
  <2> QED
    BY <1>5, <2>1 DEF BackoffOver, TypeOK
<1>6. CASE Detach
  <2>1. proc' \in Procs
    BY <1>0, <1>6, ProcUpdate DEF Detach
  <2>0. sup' \in Sups
    BY <1>0, <1>6, SupUpdate DEF Detach
  <2>2. stop' \in BOOLEAN
    BY <1>6 DEF Detach, TypeOK
  <2> QED
    BY <1>6, <2>0, <2>1, <2>2 DEF Detach, TypeOK
<1>7. CASE HostStopped
  <2>1. sup' \in Sups
    <3>1. CASE Crash
      BY <3>1, CrashType
    <3>2. CASE sup' = [sup EXCEPT !.pc = "stopped", !.host = None]
      BY <1>0, <3>2, SupUpdate
    <3> QED
      BY <1>7, <3>1, <3>2 DEF HostStopped
  <2> QED
    BY <1>7, <2>1 DEF HostStopped, TypeOK
<1>8. ASSUME NEW h \in Hosts, HostDies(h)
      PROVE  TypeOK'
  <2>1. proc' \in Procs
    BY <1>8, ProcUpdate DEF HostDies
  <2>2. faults' \in 0 .. MaxFaults
    BY <1>8, CountTypes DEF HostDies, TypeOK
  <2> QED
    BY <1>8, <2>1, <2>2 DEF HostDies, TypeOK
<1>9. ASSUME NEW h \in Hosts, Reap(h)
      PROVE  TypeOK'
  <2>1. proc' \in Procs
    BY <1>9, ProcUpdate DEF Reap
  <2>2. ver' \in [Hosts -> Packages \cup {None}]
    BY <1>9 DEF Reap, TypeOK
  <2> QED
    BY <1>9, <2>1, <2>2 DEF Reap, TypeOK
<1> QED
  BY <1>1, <1>2, <1>3, <1>4, <1>5, <1>6, <1>7, <1>8, <1>9 DEF Supervise

\* Whatever the breaker is told, it stays a breaker, and does not wait for the
\* probe any more.
LEMMA RecordFacts ==
    ASSUME TypeOK, NEW ok \in BOOLEAN, Record(ok)
    PROVE  /\ breaker' \in Breakers
           /\ breaker'.st \in {"closed", "open", breaker.st} \ {"probing"}
<1>1. breaker \in Breakers
  BY DEF TypeOK
<1>2. CASE breaker.st = "probing" /\ breaker' = IF ok THEN NewBreaker ELSE [breaker EXCEPT !.st = "open"]
  <2>1. CASE ok
    BY <1>2, <2>1, BoundAssumption DEF NewBreaker, Breakers
  <2>2. CASE ~ok
    BY <1>1, <1>2, <2>2 DEF Breakers
  <2> QED
    BY <2>1, <2>2
<1>3. CASE breaker.st # "probing"
  <2> DEFINE n == IF ok THEN 0
                  ELSE IF breaker.fails < TripAfter THEN breaker.fails + 1 ELSE TripAfter
  <2>1. n \in 0 .. TripAfter
    BY <1>1, BoundAssumption DEF Breakers
  <2>2. PICK trips \in BOOLEAN :
            breaker' = [st |-> IF trips THEN "open" ELSE breaker.st, fails |-> n]
    BY <1>3 DEF Record
  <2>3. breaker.st \in {"closed", "open", "cooled"}
    BY <1>1, <1>3 DEF Breakers
  <2> HIDE DEF n
  <2> QED
    BY <2>1, <2>2, <2>3 DEF Breakers
<1> QED
  BY <1>2, <1>3 DEF Record

\* What a dispatch writes of its call.
LEMMA CallUpdate ==
    ASSUME TypeOK, NEW c \in Callers
    PROVE  /\ NoCall \in Dispatches
           /\ [call[c] EXCEPT !.pc = "frozen", !.on = "slot"] \in Dispatches
           /\ [call[c] EXCEPT !.pc = "admitted"] \in Dispatches
           /\ [call[c] EXCEPT !.pc = "admitted", !.probe = TRUE] \in Dispatches
           /\ \A h \in Hosts \cup {None} :
                 [call[c] EXCEPT !.pc = "asked", !.host = h] \in Dispatches
<1>1. call[c] \in Dispatches
  BY DEF TypeOK
<1>2. /\ NoCall \in Dispatches
      /\ [call[c] EXCEPT !.pc = "frozen", !.on = "slot"] \in Dispatches
      /\ [call[c] EXCEPT !.pc = "admitted"] \in Dispatches
  BY <1>1 DEF Dispatches, NoCall
<1>3. /\ [call[c] EXCEPT !.pc = "admitted", !.probe = TRUE] \in Dispatches
      /\ \A h \in Hosts \cup {None} :
            [call[c] EXCEPT !.pc = "asked", !.host = h] \in Dispatches
  BY <1>1 DEF Dispatches
<1> QED
  BY <1>1, <1>2, <1>3

LEMMA CallUpdated ==
    ASSUME TypeOK, NEW c \in Callers, NEW d \in Dispatches, call' = [call EXCEPT ![c] = d]
    PROVE  call' \in [Callers -> Dispatches]
BY DEF TypeOK

LEMMA DispatchTypes ==
    ASSUME TypeOK, NEW c \in Callers, Dispatch(c)
    PROVE  TypeOK'
<1> USE DEF manager, runtime, super, host, bus, guard, counted
<1>1. CASE Begin(c)
  <2>1. call' = [call EXCEPT ![c] = [call[c] EXCEPT !.pc = "frozen", !.on = "slot"]]
    BY <1>1 DEF Begin, TypeOK
  <2>2. call' \in [Callers -> Dispatches]
    BY <2>1, CallUpdate, CallUpdated
  <2> QED
    BY <1>1, <2>2 DEF Begin, TypeOK
<1>2. CASE Admit(c)
  <2>1. \E d \in Dispatches : call' = [call EXCEPT ![c] = d]
    <3>1. CASE Ends(c)
      BY <3>1, CallUpdate DEF Ends
    <3>2. CASE call' = [call EXCEPT ![c].pc = "admitted"]
      BY <3>2, CallUpdate DEF TypeOK
    <3>3. CASE call' = [call EXCEPT ![c].pc = "admitted", ![c].probe = TRUE]
      BY <3>3, CallUpdate DEF TypeOK
    <3> QED
      BY <1>2, <3>1, <3>2, <3>3 DEF Admit
  <2>2. call' \in [Callers -> Dispatches]
    BY <2>1, CallUpdated
  <2>3. breaker' \in Breakers
    BY <1>2 DEF Admit, TypeOK, Breakers
  <2> QED
    BY <1>2, <2>2, <2>3 DEF Admit, TypeOK
<1>3. CASE Ask(c)
  <2>1. \E d \in Dispatches : call' = [call EXCEPT ![c] = d]
    <3>1. CASE Ends(c)
      BY <3>1, CallUpdate DEF Ends
    <3>2. CASE call' = [call EXCEPT ![c].pc = "asked", ![c].host = instance]
      <4>1. call' = [call EXCEPT ![c] = [call[c] EXCEPT !.pc = "asked", !.host = instance]]
        BY <3>2 DEF TypeOK
      <4> QED
        BY <4>1, CallUpdate DEF TypeOK
    <3> QED
      BY <1>3, <3>1, <3>2 DEF Ask
  <2>2. call' \in [Callers -> Dispatches]
    BY <2>1, CallUpdated
  <2>3. breaker' \in Breakers /\ lost' \in BOOLEAN
    <3>1. breaker' \in Breakers
      BY <1>3, RecordFacts DEF Ask, RecordOf, TypeOK
    <3>2. lost' \in BOOLEAN
      BY <1>3 DEF Ask, TypeOK
    <3> QED
      BY <3>1, <3>2
  <2> QED
    BY <1>3, <2>2, <2>3 DEF Ask, TypeOK
<1>4. CASE Answer(c)
  <2>1. call' \in [Callers -> Dispatches]
    BY <1>4, CallUpdate, CallUpdated DEF Answer, Ends
  <2>2. breaker' \in Breakers
    BY <1>4, RecordFacts DEF Answer, RecordOf, TypeOK
  <2> QED
    BY <1>4, <2>1, <2>2 DEF Answer, TypeOK
<1>5. CASE Abandon(c)
  <2>1. call' \in [Callers -> Dispatches]
    BY <1>5, CallUpdate, CallUpdated DEF Abandon
  <2>2. lost' \in BOOLEAN
    BY <1>5 DEF Abandon, TypeOK
  <2> QED
    BY <1>5, <2>1, <2>2 DEF Abandon, TypeOK
<1> QED
  BY <1>1, <1>2, <1>3, <1>4, <1>5 DEF Dispatch

LEMMA TypeStep == TypeOK /\ [Next]_vars => TypeOK'
<1> SUFFICES ASSUME TypeOK, [Next]_vars PROVE TypeOK'
  OBVIOUS
<1>1. CASE UNCHANGED vars
  BY <1>1 DEF vars, manager, runtime, super, host, bus, guard, counted, TypeOK
<1>2. CASE Cool
  <2>1. breaker' \in Breakers
    BY <1>2 DEF Cool, TypeOK, Breakers
  <2> QED
    BY <1>2, <2>1 DEF Cool, TypeOK, manager, runtime, super, host, bus, counted
<1> QED
  BY <1>1, <1>2, OperationTypes, ReconcileTypes, SuperviseTypes, DispatchTypes DEF Next

-----------------------------------------------------------------------------
(* The process and its owner *)

LEMMA OperationHost ==
    ASSUME TypeOK, HostInv,
           \/ Operation \/ ReconcileReads \/ ReconcileLocks \/ QuiesceLocks \/ Cool
           \/ \E c \in Callers : Dispatch(c)
           \/ UNCHANGED vars
    PROVE  HostInv'
<1>1. /\ UNCHANGED <<sup, proc, ver, slot, instance>>
      /\ entry' = None <=> entry = None
      /\ \/ UNCHANGED <<draining, handler>>
         \/ draining' /\ handler' = "waits"
         \/ handler' = "none"
  <2> USE DEF runtime, super, host, bus, manager
  <2>1. CASE Operation
    BY <2>1 DEF Operation, Activate, AuthorizeLate, BeginDrain, Commit, Disconnect
  <2>2. CASE ReconcileReads \/ ReconcileLocks
    BY <2>2 DEF ReconcileReads, ReconcileLocks
  <2>3. CASE QuiesceLocks
    <3>1. entry # None => [entry EXCEPT !.quiesced = TRUE, !.supervised = FALSE] \in Entries
      BY DEF TypeOK, Entries
    <3>2. entry' = None <=> entry = None
      BY <2>3, <3>1, BoundAssumption DEF QuiesceLocks
    <3> QED
      BY <2>3, <3>2 DEF QuiesceLocks
  <2>4. CASE Cool \/ \E c \in Callers : Dispatch(c)
    BY <2>4 DEF Cool, Dispatch, Begin, Admit, Ask, Answer, Abandon
  <2>5. CASE UNCHANGED vars
    BY <2>5 DEF vars
  <2> QED
    BY <2>1, <2>2, <2>3, <2>4, <2>5
<1>2. RunningIsOwned' /\ OwnerKnows'
  BY <1>1 DEF HostInv, RunningIsOwned, OwnerKnows, Running
<1>3. SlotIsSupervised' /\ AttachedIsRunning'
  BY <1>1 DEF HostInv, SlotIsSupervised, AttachedIsRunning
<1>4. TransactionDrains'
  BY <1>1 DEF HostInv, TransactionDrains, Ended
<1> QED
  BY <1>2, <1>3, <1>4 DEF HostInv

LEMMA QuiesceDoneHost ==
    ASSUME HostInv, QuiesceDone
    PROVE  HostInv'
<1> USE DEF manager, super, host, QuiesceDone
<1>1. RunningIsOwned' /\ OwnerKnows'
  BY DEF HostInv, RunningIsOwned, OwnerKnows, Running
<1>2. SlotIsSupervised' /\ AttachedIsRunning'
  BY DEF HostInv, SlotIsSupervised, AttachedIsRunning
<1>3. TransactionDrains'
  BY DEF HostInv, TransactionDrains, Ended
<1> QED
  BY <1>1, <1>2, <1>3 DEF HostInv

\* The process is gone before its slot is.
LEMMA ReconcileStoppedHost ==
    ASSUME HostInv, ReconcileStopped
    PROVE  HostInv'
<1> USE DEF manager, host, ReconcileStopped
<1>1. sup' = NoSup /\ NoSup.pc = "none" /\ sup.pc \notin {"launching", "running"}
  BY DEF NoSup, Ended
<1>2. RunningIsOwned' /\ OwnerKnows'
  BY <1>1 DEF HostInv, RunningIsOwned, OwnerKnows, Running
<1>3. SlotIsSupervised' /\ AttachedIsRunning'
  BY <1>1 DEF SlotIsSupervised, AttachedIsRunning
<1>4. TransactionDrains'
  BY <1>1 DEF HostInv, TransactionDrains, Ended
<1> QED
  BY <1>2, <1>3, <1>4 DEF HostInv

\* Without an entry there is no supervisor and nothing registered.
LEMMA ReconcileStartsHost ==
    ASSUME TypeOK, HostInv, ReconcileStarts
    PROVE  HostInv'
<1>1. CASE UNCHANGED <<entry, super, slot, faults>>
  <2>1. UNCHANGED <<sup, proc, ver, slot, instance, entry, draining, handler>>
    BY <1>1 DEF ReconcileStarts, manager, host, super
  <2> QED
    BY <2>1 DEF HostInv, RunningIsOwned, OwnerKnows, Running, SlotIsSupervised,
                AttachedIsRunning, TransactionDrains, Ended
<1>2. CASE ~(rec.seen = None \/ entry # None \/ draining)
  <2>1. /\ slot' = rec.seen /\ rec.seen \in Packages /\ rec.seen # None
        /\ UNCHANGED <<handler, proc, ver, instance, draining>>
        /\ sup' \in {sup, [NoSup EXCEPT !.pc = "starting", !.package = rec.seen]}
    BY <1>2 DEF ReconcileStarts, manager, host, super, TypeOK
  <2>2. entry' # None
    <3>1. \A b \in BOOLEAN : [package |-> rec.seen, quiesced |-> FALSE, supervised |-> b] \in Entries
      BY <2>1 DEF Entries
    <3> QED
      BY <1>2, <3>1, BoundAssumption DEF ReconcileStarts
  <2>3. sup = NoSup /\ sup.pc = "none" /\ handler = "none" /\ instance = None
    BY <1>2 DEF HostInv, SlotIsSupervised, TransactionDrains, AttachedIsRunning, NoSup
  <2>4. /\ sup'.pc \in {"none", "starting"}
        /\ sup'.pc = "starting" => sup'.package = rec.seen
    BY <2>1, <2>3 DEF NoSup
  <2>5. RunningIsOwned' /\ OwnerKnows'
    BY <2>1, <2>3, <2>4 DEF HostInv, RunningIsOwned, OwnerKnows, Running
  <2>6. SlotIsSupervised' /\ AttachedIsRunning' /\ TransactionDrains'
    BY <2>1, <2>2, <2>3, <2>4 DEF SlotIsSupervised, AttachedIsRunning, TransactionDrains
  <2> QED
    BY <2>5, <2>6 DEF HostInv
<1> QED
  BY <1>1, <1>2 DEF ReconcileStarts

\* The supervisor gives up its process, and no other is running.
LEMMA SupervisorLeaves ==
    ASSUME TypeOK, HostInv, sup.pc # "none",
           NEW p \in SupPCs \ {"none", "launching", "running"},
           sup'.pc = p, sup'.package = sup.package,
           sup.pc \in {"launching", "running"} => Doom(sup.host),
           sup.pc \notin {"launching", "running"} => proc' = proc,
           instance' = None \/ (instance' = instance /\ sup.pc # "running"),
           p \in {"failed", "stopped"} \/ ~Ended,
           UNCHANGED <<ver, entry, slot, handler, draining>>
    PROVE  HostInv'
<1>1. sup'.pc = p /\ sup'.package = sup.package
  OBVIOUS
<1>2. \A g \in Hosts : ~Running(g)'
  <2>1. CASE sup.pc \in {"launching", "running"}
    <3>1. sup.host \in Hosts
      BY <2>1 DEF HostInv, OwnerKnows
    <3>2. \A g \in Hosts : proc'[g] = IF g = sup.host /\ proc[g] # "none" THEN "doomed" ELSE proc[g]
      BY <2>1, <3>1 DEF Doom, TypeOK
    <3> QED
      BY <3>2 DEF HostInv, RunningIsOwned, Running
  <2>2. CASE sup.pc \notin {"launching", "running"}
    BY <2>2 DEF HostInv, RunningIsOwned, Running
  <2> QED
    BY <2>1, <2>2
<1>3. entry # None
  BY DEF HostInv, SlotIsSupervised, NoSup
<1>4. RunningIsOwned' /\ OwnerKnows'
  BY <1>1, <1>2 DEF RunningIsOwned, OwnerKnows
<1>5. SlotIsSupervised'
  BY <1>1, <1>3 DEF HostInv, SlotIsSupervised
<1>6. AttachedIsRunning'
  BY DEF HostInv, AttachedIsRunning
<1>7. TransactionDrains'
  BY <1>1 DEF HostInv, TransactionDrains, Ended
<1> QED
  BY <1>4, <1>5, <1>6, <1>7 DEF HostInv

LEMMA SuperviseHost ==
    ASSUME TypeOK, HostInv, Supervise
    PROVE  HostInv'
<1>1. /\ sup.pc \in SupPCs /\ sup.package \in Packages \cup {None}
      /\ proc \in [Hosts -> {"none", "launching", "up", "dead", "doomed"}]
      /\ ver \in [Hosts -> Packages \cup {None}]
  BY DEF TypeOK, Sups
<1>2. CASE Launch
  <2> DEFINE h == CHOOSE h \in Hosts : proc[h] = "none"
  <2>1. h \in Hosts /\ proc[h] = "none" /\ sup.pc = "starting"
    BY <1>2 DEF Launch
  <2> HIDE DEF h
  <2>2. /\ proc' = [proc EXCEPT ![h] = "launching"] /\ ver' = [ver EXCEPT ![h] = sup.package]
        /\ sup' = [sup EXCEPT !.pc = "launching", !.host = h]
        /\ UNCHANGED <<entry, slot, instance, handler, draining>>
    BY <1>2 DEF Launch, h, manager, runtime, bus
  <2>3. sup'.pc = "launching" /\ sup'.host = h /\ sup'.package = sup.package
    BY <2>2 DEF TypeOK, Sups
  <2>4. \A g \in Hosts : /\ proc'[g] = IF g = h THEN "launching" ELSE proc[g]
                         /\ ver'[g] = IF g = h THEN sup.package ELSE ver[g]
    BY <1>1, <2>2
  <2>5. RunningIsOwned' /\ OwnerKnows'
    <3>1. \A g \in Hosts : ~Running(g)
      BY <2>1 DEF HostInv, RunningIsOwned
    <3> QED
      BY <2>1, <2>3, <2>4, <3>1 DEF RunningIsOwned, OwnerKnows, Running
  <2>6. entry # None /\ instance = None /\ handler # "commits"
    BY <2>1 DEF HostInv, SlotIsSupervised, AttachedIsRunning, TransactionDrains, Ended, NoSup
  <2>7. SlotIsSupervised' /\ AttachedIsRunning' /\ TransactionDrains'
    BY <2>1, <2>2, <2>3, <2>6
    DEF HostInv, SlotIsSupervised, AttachedIsRunning, TransactionDrains
  <2> QED
    BY <2>5, <2>7 DEF HostInv
<1>3. CASE Attach
  <2>1. sup.pc = "launching" /\ slot # None
    BY <1>3 DEF Attach, HostInv, SlotIsSupervised
  <2>2. /\ proc' = [proc EXCEPT ![sup.host] = "up"] /\ instance' = sup.host
        /\ sup' = [sup EXCEPT !.pc = "running"]
        /\ UNCHANGED <<ver, entry, slot, handler, draining>>
    BY <1>3, <2>1 DEF Attach, manager, runtime
  <2>3. sup'.pc = "running" /\ sup'.host = sup.host /\ sup'.package = sup.package
    BY <2>2 DEF TypeOK, Sups
  <2>4. sup.host \in Hosts /\ ver[sup.host] = sup.package
    BY <2>1 DEF HostInv, OwnerKnows
  <2>5. \A g \in Hosts : proc'[g] = IF g = sup.host THEN "up" ELSE proc[g]
    BY <1>1, <2>2
  <2>6. RunningIsOwned' /\ OwnerKnows'
    BY <2>2, <2>3, <2>4, <2>5 DEF HostInv, RunningIsOwned, OwnerKnows, Running
  <2>7. entry # None /\ handler # "commits"
    BY <2>1 DEF HostInv, SlotIsSupervised, TransactionDrains, Ended, NoSup
  <2>8. SlotIsSupervised' /\ AttachedIsRunning' /\ TransactionDrains'
    BY <2>1, <2>2, <2>3, <2>7
    DEF HostInv, SlotIsSupervised, AttachedIsRunning, TransactionDrains
  <2> QED
    BY <2>6, <2>8 DEF HostInv
<1>4. CASE LaunchFails \/ HostStopped
  <2>1. /\ sup.pc \in {"launching", "stopping", "dying"}
        /\ sup.pc = "launching" => Doom(sup.host)
        /\ sup.pc # "launching" => proc' = proc
        /\ Crash \/ sup' = [sup EXCEPT !.pc = "stopped", !.host = None]
        /\ UNCHANGED <<ver, entry, slot, instance, handler, draining>>
    BY <1>4 DEF LaunchFails, HostStopped, manager, runtime, bus, host
  <2>2. PICK p \in {"backoff", "failed", "stopped"} : sup' = [sup EXCEPT !.pc = p, !.host = None]
    BY <2>1 DEF Crash
  <2>3. p \in SupPCs \ {"none", "launching", "running"}
    BY DEF SupPCs
  <2>4. ~Ended
    BY <2>1 DEF Ended
  <2>5. /\ sup.pc # "none"
        /\ sup'.pc = p /\ sup'.package = sup.package
        /\ sup.pc \in {"launching", "running"} => Doom(sup.host)
        /\ sup.pc \notin {"launching", "running"} => proc' = proc
        /\ instance' = instance /\ sup.pc # "running"
    BY <2>1, <2>2 DEF TypeOK, Sups
  <2> QED
    BY <2>1, <2>3, <2>4, <2>5, SupervisorLeaves
<1>5. CASE StopEarly \/ BackoffOver
  <2>1. /\ sup.pc \in {"starting", "launching", "backoff"}
        /\ sup.pc = "launching" => Doom(sup.host)
        /\ sup.pc # "launching" => proc' = proc
        /\ \/ sup' = [sup EXCEPT !.pc = "stopped", !.host = None]
           \/ sup' = [sup EXCEPT !.pc = "starting"]
        /\ UNCHANGED <<ver, entry, slot, instance, handler, draining>>
    BY <1>5 DEF StopEarly, BackoffOver, manager, runtime, bus, host
  <2>2. PICK p \in {"starting", "stopped"} :
            sup' \in {[sup EXCEPT !.pc = p], [sup EXCEPT !.pc = p, !.host = None]}
    BY <2>1
  <2>4. p \in SupPCs \ {"none", "launching", "running"}
    BY DEF SupPCs
  <2>3. ~Ended
    BY <2>1 DEF Ended
  <2>5. /\ sup.pc # "none"
        /\ sup'.pc = p /\ sup'.package = sup.package
        /\ sup.pc \in {"launching", "running"} => Doom(sup.host)
        /\ sup.pc \notin {"launching", "running"} => proc' = proc
        /\ instance' = instance /\ sup.pc # "running"
    BY <2>1, <2>2 DEF TypeOK, Sups
  <2> QED
    BY <2>1, <2>3, <2>4, <2>5, SupervisorLeaves
<1>6. CASE Detach
  <2>1. /\ sup.pc = "running" /\ Doom(sup.host) /\ instance' = None
        /\ sup'.pc \in {"dying", "stopping"} /\ sup'.package = sup.package
        /\ UNCHANGED <<ver, entry, slot, handler, draining>>
    BY <1>6 DEF Detach, manager, runtime, TypeOK, Sups
  <2>2. {"dying", "stopping"} \subseteq SupPCs \ {"none", "launching", "running"}
    BY DEF SupPCs
  <2>3. ~Ended
    BY <2>1 DEF Ended
  <2> QED
    BY <2>1, <2>2, <2>3, SupervisorLeaves
<1> QED
  BY <1>2, <1>3, <1>4, <1>5, <1>6 DEF Supervise

\* Death of a process and the end of its tree.
LEMMA ProcessHost ==
    ASSUME TypeOK, HostInv, NEW h \in Hosts, HostDies(h) \/ Reap(h)
    PROVE  HostInv'
<1>1. UNCHANGED <<sup, entry, slot, instance, handler, draining>>
  BY DEF HostDies, Reap, manager, runtime, super, bus
<1>2. \A g \in Hosts :
         \/ proc'[g] = proc[g] /\ ver'[g] = ver[g]
         \/ g = h /\ proc[g] = "up" /\ proc'[g] = "dead" /\ ver'[g] = ver[g]
         \/ g = h /\ proc[g] = "doomed" /\ proc'[g] = "none"
  BY DEF HostDies, Reap, TypeOK
<1>3. RunningIsOwned'
  BY <1>1, <1>2 DEF HostInv, RunningIsOwned, Running
<1>4. OwnerKnows'
  BY <1>1, <1>2 DEF HostInv, OwnerKnows
<1>5. SlotIsSupervised' /\ AttachedIsRunning' /\ TransactionDrains'
  BY <1>1 DEF HostInv, SlotIsSupervised, AttachedIsRunning, TransactionDrains, Ended
<1> QED
  BY <1>3, <1>4, <1>5 DEF HostInv

-----------------------------------------------------------------------------
(* The breaker and its probe *)

\* Steps that no call, no breaker and no budget takes part in.
LEMMA ElsewhereProbe ==
    ASSUME OneProbe, UNCHANGED <<breaker, lost, call>>
    PROVE  OneProbe'
BY DEF OneProbe, InFlight, Probes

\* One call moves on, and the breaker with it.
LEMMA ProbeMoves ==
    ASSUME TypeOK, OneProbe, NEW c \in Callers, NEW d \in Dispatches,
           call' = [call EXCEPT ![c] = d],
           d.pc \in {"idle", "frozen"} => ~d.probe,
           \* the call becomes a probe only when the breaker asks for one
           d.probe /\ d.on = "slot" /\ d.pc \in {"admitted", "asked"} =>
              InFlight(c) \/ (breaker.st = "cooled" /\ breaker'.st = "probing"),
           breaker'.st = "cooled" => breaker.st = "cooled" /\
              (d.on = "slot" /\ d.pc \in {"admitted", "asked"} =>
                 call[c].on = "slot" /\ call[c].pc \in {"admitted", "asked"}),
           breaker'.st = "probing" /\ ~lost' =>
              \/ d.probe /\ d.on = "slot" /\ d.pc \in {"admitted", "asked"}
              \/ breaker.st = "probing" /\ ~lost /\ ~InFlight(c)
    PROVE  OneProbe'
<1>1. \A x \in Callers : call'[x] = IF x = c THEN d ELSE call[x]
  BY DEF TypeOK
<1>2. \A x \in Callers : x # c => (InFlight(x)' <=> InFlight(x))
  BY <1>1 DEF InFlight, Probes
<1>3. InFlight(c)' <=> d.probe /\ d.on = "slot" /\ d.pc \in {"admitted", "asked"}
  BY <1>1 DEF InFlight, Probes
<1>4. breaker.st = "cooled" => \A x \in Callers : ~InFlight(x)
  BY DEF OneProbe, InFlight, Probes
<1>5. \A x, y \in Callers : InFlight(x)' /\ InFlight(y)' => x = y
  BY <1>2, <1>3, <1>4 DEF OneProbe
<1>6. \A x \in Callers : call'[x].pc \in {"idle", "frozen"} => ~call'[x].probe
  BY <1>1 DEF OneProbe
<1>7. breaker'.st = "cooled" =>
         \A x \in Callers : ~(call'[x].on = "slot" /\ call'[x].pc \in {"admitted", "asked"})
  BY <1>1 DEF OneProbe
<1>8. breaker'.st = "probing" /\ ~lost' => \E x \in Callers : InFlight(x)'
  BY <1>2, <1>3 DEF OneProbe
<1> QED
  BY <1>5, <1>6, <1>7, <1>8 DEF OneProbe

LEMMA DispatchProbe ==
    ASSUME TypeOK, OneProbe, NEW c \in Callers, Dispatch(c)
    PROVE  OneProbe'
<1> DEFINE b == call[c]
<1>1. b \in Dispatches /\ call \in [Callers -> Dispatches]
  BY DEF TypeOK
<1>2. b.pc \in {"idle", "frozen"} => ~b.probe
  BY DEF OneProbe
<1>3. NoCall \in Dispatches /\ NoCall.pc = "idle" /\ ~NoCall.probe
  BY CallUpdate DEF NoCall
<1>4. InFlight(c) <=> b.probe /\ b.on = "slot" /\ b.pc \in {"admitted", "asked"}
  BY DEF InFlight, Probes
<1>5. ASSUME Ends(c), breaker'.st = "cooled" => breaker.st = "cooled",
             breaker'.st = "probing" /\ ~lost' => breaker.st = "probing" /\ ~lost /\ ~InFlight(c)
      PROVE  OneProbe'
  BY <1>3, <1>5, ProbeMoves DEF Ends
<1>6. CASE Begin(c)
  <2> DEFINE d == [b EXCEPT !.pc = "frozen", !.on = "slot"]
  <2>1. /\ call' = [call EXCEPT ![c] = d] /\ breaker' = breaker /\ lost' = lost /\ b.pc = "idle"
    BY <1>1, <1>6 DEF Begin, guard
  <2>2. d \in Dispatches /\ d.pc = "frozen" /\ d.probe = b.probe
    BY <1>1, CallUpdate DEF Dispatches
  <2> HIDE DEF d
  <2> QED
    BY <1>2, <1>4, <2>1, <2>2, ProbeMoves
<1>7. CASE Admit(c)
  <2>1. b.pc = "frozen" /\ ~b.probe /\ lost' = lost /\ ~InFlight(c)
    BY <1>2, <1>4, <1>7 DEF Admit
  <2>2. CASE breaker.st = "closed" /\ call' = [call EXCEPT ![c].pc = "admitted"] /\ breaker' = breaker
    <3> DEFINE d == [b EXCEPT !.pc = "admitted"]
    <3>1. /\ call' = [call EXCEPT ![c] = d] /\ d \in Dispatches
          /\ d.pc = "admitted" /\ d.probe = b.probe
      BY <1>1, <2>2, CallUpdate DEF Dispatches
    <3> HIDE DEF d
    <3> QED
      BY <2>1, <2>2, <3>1, ProbeMoves
  <2>3. CASE /\ breaker.st = "cooled" /\ breaker' = [breaker EXCEPT !.st = "probing"]
             /\ b.on = "slot"
             /\ call' = [call EXCEPT ![c].pc = "admitted", ![c].probe = TRUE]
    <3> DEFINE d == [b EXCEPT !.pc = "admitted", !.probe = TRUE]
    <3>1. call' = [call EXCEPT ![c] = d]
      BY <1>1, <2>3
    <3>3. d \in Dispatches
      BY CallUpdate
    <3>4. d.pc = "admitted" /\ d.probe /\ d.on = "slot"
      BY <1>1, <2>3 DEF Dispatches
    <3>2. breaker'.st = "probing"
      BY <2>3 DEF TypeOK, Breakers
    <3> HIDE DEF d
    <3> QED
      BY <2>1, <2>3, <3>1, <3>2, <3>3, <3>4, ProbeMoves
  <2>4. CASE Ends(c) /\ breaker' = breaker
    BY <1>5, <2>1, <2>4
  <2> QED
    BY <1>7, <2>2, <2>3, <2>4 DEF Admit, MayProbe
<1>8. ASSUME NEW ok \in BOOLEAN, Ends(c), RecordOf(c, ok), lost' = lost
      PROVE  OneProbe'
  <2>1. CASE b.on = "slot"
    <3>1. breaker'.st \in {"closed", "open", breaker.st} \ {"probing"}
      BY <1>8, <2>1, RecordFacts DEF RecordOf
    <3> QED
      BY <1>5, <1>8, <3>1
  <2>2. CASE b.on # "slot"
    BY <1>4, <1>5, <1>8, <2>2 DEF RecordOf
  <2> QED
    BY <2>1, <2>2
<1>9. CASE Ask(c)
  <2>1. CASE call' = [call EXCEPT ![c].pc = "asked", ![c].host = instance] /\ UNCHANGED guard
    <3> DEFINE d == [b EXCEPT !.pc = "asked", !.host = instance]
    <3>1. call' = [call EXCEPT ![c] = d]
      BY <1>1, <2>1
    <3>2. d \in Dispatches
      BY CallUpdate DEF TypeOK
    <3>3. d.pc = "asked" /\ d.probe = b.probe /\ d.on = b.on /\ b.pc = "admitted"
      BY <1>1, <1>9 DEF Dispatches, Ask
    <3> HIDE DEF d
    <3> QED
      BY <1>4, <2>1, <3>1, <3>2, <3>3, ProbeMoves DEF guard
  <2>2. CASE Ends(c) /\ call[c].probe /\ RecordOf(c, FALSE) /\ UNCHANGED lost
    BY <1>8, <2>2
  <2>3. CASE Ends(c) /\ ~call[c].probe /\ UNCHANGED <<breaker, lost>>
    BY <1>4, <1>5, <2>3
  <2>4. CASE Ends(c) /\ lost' = (lost \/ Probes(c)) /\ UNCHANGED breaker
    BY <1>5, <2>4 DEF InFlight
  <2> QED
    BY <1>9, <2>1, <2>2, <2>3, <2>4 DEF Ask
<1>10. CASE Answer(c)
  BY <1>8, <1>10 DEF Answer
<1>11. CASE Abandon(c)
  BY <1>5, <1>11 DEF Abandon, InFlight, Ends
<1> QED
  BY <1>6, <1>7, <1>9, <1>10, <1>11 DEF Dispatch

LEMMA CoolProbe ==
    ASSUME TypeOK, OneProbe, Cool
    PROVE  OneProbe'
<1>1. breaker'.st = "cooled" /\ call' = call /\ lost' = lost
  BY DEF Cool, TypeOK, Breakers
<1> QED
  BY <1>1 DEF OneProbe, Cool, InFlight, Probes

LEMMA ReconcileStoppedProbe ==
    ASSUME TypeOK, OneProbe, ReconcileStopped
    PROVE  OneProbe'
<1>1. breaker'.st = "closed"
  BY DEF ReconcileStopped, NewBreaker
<1>2. ASSUME NEW c \in Callers
      PROVE  /\ call'[c].on # "slot"
             /\ call'[c].pc = call[c].pc /\ call'[c].probe = call[c].probe
  <2>1. call[c] \in Dispatches
    BY DEF TypeOK
  <2>2. call'[c] = IF call[c].on = "slot" THEN [call[c] EXCEPT !.on = "removed"] ELSE call[c]
    BY DEF ReconcileStopped
  <2> QED
    BY <2>1, <2>2 DEF Dispatches
<1> QED
  BY <1>1, <1>2 DEF OneProbe, InFlight, Probes

-----------------------------------------------------------------------------
(* The theorems *)

LEMMA InitIInv == Init => IInv
<1> SUFFICES ASSUME Init PROVE IInv
  OBVIOUS
<1>1. TypeOK
  <2>1. /\ rec \in [pc : RecPCs, seen : Packages \cup {None}]
        /\ sup \in Sups /\ breaker \in Breakers
    BY BoundAssumption DEF Init, NoSup, NewBreaker, RecPCs, Sups, SupPCs, Breakers
  <2>2. call \in [Callers -> Dispatches]
    BY DEF Init, NoCall, Dispatches
  <2>3. installed \in [active : BOOLEAN, package : Packages]
    BY BoundAssumption DEF Init
  <2>4. ops \in 0 .. MaxOps /\ faults \in 0 .. MaxFaults
    BY BoundAssumption DEF Init
  <2>5. /\ proc \in [Hosts -> {"none", "launching", "up", "dead", "doomed"}]
        /\ ver \in [Hosts -> Packages \cup {None}]
    BY DEF Init
  <2>6. /\ draining = FALSE /\ handler = "none" /\ task = "none" /\ entry = None
        /\ stop = FALSE /\ slot = None /\ instance = None /\ lost = FALSE
    BY DEF Init
  <2> QED
    BY <2>1, <2>2, <2>3, <2>4, <2>5, <2>6 DEF TypeOK
<1>2. HostInv
  BY DEF Init, HostInv, RunningIsOwned, OwnerKnows, SlotIsSupervised, AttachedIsRunning,
         TransactionDrains, Running, NoSup
<1>3. OneProbe
  BY DEF Init, OneProbe, InFlight, Probes, NoCall, NewBreaker
<1> QED
  BY <1>1, <1>2, <1>3 DEF IInv

LEMMA NextIInv == IInv /\ [Next]_vars => IInv'
<1> SUFFICES ASSUME TypeOK, HostInv, OneProbe, [Next]_vars PROVE IInv'
  BY DEF IInv
<1>1. TypeOK'
  BY TypeStep
<1>2. HostInv'
  BY OperationHost, QuiesceDoneHost, ReconcileStoppedHost, ReconcileStartsHost, SuperviseHost,
     ProcessHost DEF Next, Reconcile, Quiesce
<1>3. OneProbe'
  <2>1. CASE Operation
    <3>1. UNCHANGED <<breaker, lost, call>>
      BY <2>1 DEF Operation, Activate, AuthorizeLate, BeginDrain, Commit, Disconnect, guard
    <3> QED
      BY <3>1, ElsewhereProbe
  <2>2. CASE Quiesce \/ ReconcileReads \/ ReconcileLocks \/ ReconcileStarts
    <3>1. UNCHANGED <<breaker, lost, call>>
      BY <2>2 DEF Quiesce, QuiesceLocks, QuiesceDone, ReconcileReads, ReconcileLocks,
                  ReconcileStarts, guard
    <3> QED
      BY <3>1, ElsewhereProbe
  <2>3. CASE Supervise \/ \E h \in Hosts : HostDies(h) \/ Reap(h)
    <3>1. UNCHANGED <<breaker, lost, call>>
      BY <2>3 DEF Supervise, Launch, Attach, LaunchFails, StopEarly, BackoffOver, Detach,
                  HostStopped, HostDies, Reap, guard
    <3> QED
      BY <3>1, ElsewhereProbe
  <2>4. CASE UNCHANGED vars
    BY <2>4, ElsewhereProbe DEF vars, guard
  <2> QED
    BY <2>1, <2>2, <2>3, <2>4, ReconcileStoppedProbe, CoolProbe, DispatchProbe
    DEF Next, Reconcile
<1> QED
  BY <1>1, <1>2, <1>3 DEF IInv

LEMMA Invariant == Spec => []IInv
BY InitIInv, NextIInv, PTL DEF Spec

\* Every variable keeps the values the code can give it.
THEOREM TypeCorrect == Spec => []TypeOK
<1>1. IInv => TypeOK
  BY DEF IInv
<1> QED
  BY Invariant, <1>1, PTL

\* Stops, restarts and given up drains never leave two processes that nobody
\* has told to stop, nor a guard with a process of another package.
THEOREM OneHost == Spec => []OneHostOfThePackage
<1>1. IInv => OneHostOfThePackage
  <2> SUFFICES ASSUME IInv PROVE OneHostOfThePackage
    OBVIOUS
  <2>1. \A g, h \in Hosts : Running(g) /\ Running(h) => g = h
    BY DEF IInv, HostInv, RunningIsOwned
  <2>2. instance # None => slot # None /\ ver[instance] = slot
    BY DEF IInv, HostInv, AttachedIsRunning, OwnerKnows, SlotIsSupervised
  <2> QED
    BY <2>1, <2>2 DEF OneHostOfThePackage
<1> QED
  BY Invariant, <1>1, PTL

\* A lifecycle transaction commits over an extension that is reclaimed.
THEOREM Drained == Spec => []DrainedIsQuiet
<1>1. IInv => DrainedIsQuiet
  BY DEF IInv, HostInv, DrainedIsQuiet, TransactionDrains, Ended, RunningIsOwned, AttachedIsRunning
<1> QED
  BY Invariant, <1>1, PTL

\* A half-open breaker lets one probe through, and has it, unless a probe
\* ended without a record.
THEOREM ProbeOwned == Spec => []ProbeIsOwned
<1>1. ASSUME IInv
      PROVE  Cardinality(InFlightProbes) <= 1
  <2>1. \A c, d \in InFlightProbes : c = d
    BY <1>1 DEF IInv, OneProbe, InFlight, InFlightProbes
  <2>2. CASE InFlightProbes = {}
    BY <2>2, FS_EmptySet
  <2>3. CASE InFlightProbes # {}
    <3>1. PICK c : InFlightProbes = {c}
      BY <2>1, <2>3
    <3> QED
      BY <3>1, FS_Singleton
  <2> QED
    BY <2>2, <2>3
<1>2. IInv => ProbeIsOwned
  BY <1>1 DEF IInv, OneProbe, InFlight, InFlightProbes, ProbeIsOwned
<1> QED
  BY Invariant, <1>2, PTL

=============================================================================
