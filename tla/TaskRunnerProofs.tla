------------------------- MODULE TaskRunnerProofs -------------------------
(***************************************************************************)
(* Proofs about TaskRunner, for every finite set of tasks and executions,  *)
(* any set of runner handles, every limit of the admission table and every *)
(* number of stops, stalls and failing checkpoints.                        *)
(*                                                                         *)
(* The status of a task, its place in the admission table, its executor    *)
(* thread and the position of the loop are changed by different steps;     *)
(* IInv says which combinations occur in between.                          *)
(***************************************************************************)
EXTENDS TaskRunner, TLAPS, FiniteSetTheorems

\* An execution exists once it has a task.
JobGiven == \A x \in Executions : exec[x] = "none" <=> job[x] = None

\* The task of a thread has been claimed and is not pending again before the
\* thread has left.
ThreadsAreClaimed ==
    \A x \in InFlight : status[job[x]] \notin {"none", "pending"}

\* A lease that ran out is still held.
OverdueIsLeased == \A t \in overdue : lease[t] # None

OneThread == \A x, y \in InFlight : job[x] = job[y] => x = y

\* A thread at work has its place in the table, a waiting one gave it back.
Seated ==
    \A x \in Executions :
        /\ exec[x] \in {"granted", "working"} => adm[job[x]] = "running"
        /\ exec[x] = "waiting" => adm[job[x]] = "waiting"

\* Who answers for a place: a thread that will drop it, or the loop between
\* the permit and the claim.
Keeps(x, t)  == exec[x] \in {"granted", "working", "waiting", "reported"} /\ job[x] = t
Claims(h, t) == At(h, "claim") /\ loop[h].at = t
Owned ==
    \A t \in Tasks : adm[t] \in {"running", "waiting"} =>
        (\E x \in Executions : Keeps(x, t)) \/ (\E h \in Runners : Claims(h, t))

ReservedIsPending == \A t \in Tasks : adm[t] = "reserved" => status[t] = "pending"

WithinLimit == Cardinality(Occupying) <= MaxActive

\* One loop at a time, the one in RunnerManager's map.
OneLoop ==
    /\ \A h \in Runners : loop[h].active <=> Running(h)
    /\ \A h \in Runners : Running(h) => runner = h
    /\ \A h \in Runners : At(h, "none") => ~loop[h].cancel /\ runner # h

\* What the loop is about to admit, claim or dispatch: Spare has no thread.
Spare == {t \in Known : \A x \in InFlight : job[x] # t}
LoopKnows ==
    \A h \in Runners :
        /\ loop[h].pc \in {"each", "claim", "dispatch"} => loop[h].todo \subseteq Spare
        /\ At(h, "claim") =>
             loop[h].at \in Spare \ loop[h].todo /\ adm[loop[h].at] = "running"
        /\ At(h, "dispatch") => loop[h].at \in InFlight /\ exec[loop[h].at] = "granted"

\* Continue opens tasks again only while nothing runs.
ContinueIsAlone ==
    lock = "continuing" =>
        InFlight = {} /\ runner = None /\ \A h \in Runners : ~Running(h)

\* What terminal_state has read of the listed tasks has ended, and what it did
\* not list has no executor.
LookPCs == {"root", "read", "error", "ended"}
Unread(h) == IF loop[h].pc \in {"root", "read"} THEN loop[h].todo ELSE {}
Looked(h) ==
    /\ loop[h].pc \notin LookPCs => loop[h].ids = {}
    /\ loop[h].pc \in {"root", "read"} => Root \in loop[h].ids
    /\ loop[h].pc \in LookPCs /\ loop[h].ids # {} /\ runner = h =>
         \A t \in Tasks :
             /\ t \notin loop[h].ids => status[t] # "running"
             /\ t \in loop[h].ids => status[t] # "none"
             /\ t \in loop[h].ids => t \in Unread(h) \/ status[t] \in Ended

\* A scope with live tasks has a loop that will look at it, or a Continue at
\* work, or was not started yet; or the loop that ended has missed them.
Attended ==
    \/ NewHandles = Runners
    \/ lock \in {"quiescing", "continuing"}
    \/ runner # None /\ Running(runner) /\ ~loop[runner].cancel
AllMissed == \A t \in LiveTasks : Missed(t)
ScopeInv ==
    /\ status[Root] # "none"
    /\ \A h \in Runners : Looked(h)
    /\ ~abandoned => Attended \/ AllMissed
    /\ ~abandoned /\ lock = "stopping" => LiveTasks = {}

ThreadInv == JobGiven /\ ThreadsAreClaimed /\ OneThread /\ OverdueIsLeased
TableInv  == Seated /\ Owned /\ ReservedIsPending /\ WithinLimit
LoopInv   == OneLoop /\ LoopKnows /\ ContinueIsAlone
IInv      == TypeOK /\ ThreadInv /\ TableInv /\ LoopInv /\ ScopeInv

-----------------------------------------------------------------------------
(* What the steps do to store and table, task by task *)

\* Tasks end and lose their leases; nothing else happens to the store.
Ends(t) ==
    \/ status'[t] = status[t] /\ lease'[t] = lease[t]
    \/ status[t] \in Live /\ status'[t] \in Ended /\ lease'[t] = None
StoreEnds ==
    /\ status' \in [Tasks -> Statuses] /\ lease' \in [Tasks -> Executions \cup {None}]
    /\ \A t \in Tasks : Ends(t)
    /\ overdue' \subseteq Tasks /\ \A t \in overdue' : lease'[t] # None

\* Reservations are released; no permit is touched.
TableLoosens ==
    /\ adm' \in [Tasks -> Phases] /\ queued' \subseteq Tasks
    /\ \A t \in Tasks : adm'[t] = adm[t] \/ (adm[t] = "reserved" /\ adm'[t] = "none")

LEMMA EndEffect ==
    ASSUME TypeOK, OverdueIsLeased, NEW S, NEW st \in Ended, End(S, st)
    PROVE  /\ StoreEnds
           /\ \A t \in Tasks : t \notin S => status'[t] = status[t]
           /\ \A t \in Tasks : t \in S => status'[t] \notin Live
           /\ \A t \in Tasks : t \in S => status'[t] = status[t] \/ status'[t] = st
<1>1. /\ status' = [t \in Tasks |-> IF t \in S /\ status[t] \in Live THEN st ELSE status[t]]
      /\ lease' = [t \in Tasks |-> IF t \in S THEN None ELSE lease[t]]
      /\ overdue' = overdue \ S
  BY DEF End
<1>2. /\ status \in [Tasks -> Statuses] /\ lease \in [Tasks -> Executions \cup {None}]
      /\ \A t \in Tasks : lease[t] # None => status[t] = "running"
      /\ overdue \subseteq Tasks
  BY DEF TypeOK
<1>3. st \in Statuses /\ st \notin Live
  BY DEF Statuses, Live, Ended
<1>4. \A t \in Tasks : Ends(t)
  <2> SUFFICES ASSUME NEW t \in Tasks PROVE Ends(t)
    OBVIOUS
  <2>1. CASE t \notin S
    BY <1>1, <1>2, <2>1 DEF Ends
  <2>2. CASE t \in S /\ status[t] \in Live
    BY <1>1, <1>2, <2>2 DEF Ends
  <2>3. CASE t \in S /\ status[t] \notin Live
    <3>1. lease[t] = None
      BY <1>2, <2>3 DEF Live
    <3> QED
      BY <1>1, <1>2, <2>3, <3>1 DEF Ends
  <2> QED
    BY <2>1, <2>2, <2>3
<1>5. status' \in [Tasks -> Statuses]
  BY <1>1, <1>2, <1>3
<1>6. lease' \in [Tasks -> Executions \cup {None}]
  BY <1>1, <1>2
<1>7. overdue' \subseteq Tasks /\ \A t \in overdue' : lease'[t] # None
  BY <1>1, <1>2 DEF OverdueIsLeased
<1>8. StoreEnds
  BY <1>4, <1>5, <1>6, <1>7 DEF StoreEnds
<1> QED
  BY <1>1, <1>2, <1>3, <1>8

LEMMA StoreSame ==
    ASSUME TypeOK, OverdueIsLeased, UNCHANGED store
    PROVE  StoreEnds
BY DEF TypeOK, OverdueIsLeased, store, StoreEnds, Ends

LEMMA TableSame ==
    ASSUME TypeOK, UNCHANGED table
    PROVE  TableLoosens
BY DEF TypeOK, table, TableLoosens

LEMMA ReleasedEffect ==
    ASSUME TypeOK, NEW S, ReleasePending(S)
    PROVE  /\ TableLoosens
           /\ \A t \in S \cap Tasks : adm'[t] # "reserved"
<1>1. /\ queued' = queued \ S
      /\ adm' = [t \in Tasks |-> IF t \in S /\ adm[t] = "reserved" THEN "none" ELSE adm[t]]
  BY DEF ReleasePending
<1>2. adm \in [Tasks -> Phases] /\ queued \subseteq Tasks /\ "none" \in Phases
  BY DEF TypeOK, Phases
<1> QED
  BY <1>1, <1>2 DEF TableLoosens

\* Reservations follow their tasks when the release covers what has ended.
LEMMA ReservedFollows ==
    ASSUME TypeOK, ReservedIsPending, StoreEnds, TableLoosens,
           \A t \in Tasks : status[t] \in Live /\ status'[t] \in Ended
                               => adm[t] = "running" \/ status[t] # "pending" \/ adm'[t] # "reserved"
    PROVE  ReservedIsPending'
<1> SUFFICES ASSUME NEW t \in Tasks, adm'[t] = "reserved" PROVE status'[t] = "pending"
  BY DEF ReservedIsPending
<1>1. adm[t] = "reserved"
  BY DEF TableLoosens
<1>2. status[t] = "pending"
  BY <1>1 DEF ReservedIsPending
<1>3. Ends(t)
  BY DEF StoreEnds
<1> QED
  BY <1>1, <1>2, <1>3 DEF Ends

LEMMA SettledEffect ==
    ASSUME TypeOK, OverdueIsLeased, ReservedIsPending,
           NEW S \in SUBSET Tasks, NEW st \in Ended, Settled(S, st)
    PROVE  /\ StoreEnds /\ TableLoosens /\ ReservedIsPending' /\ faults' = faults
           /\ S = Tasks => LiveTasks' = {}
<1>1. End(S, st) /\ ReleasePending(S \cap Known) /\ UNCHANGED faults
  BY DEF Settled
<1>2. /\ StoreEnds
      /\ \A t \in Tasks : t \notin S => status'[t] = status[t]
      /\ \A t \in Tasks : t \in S => status'[t] \notin Live
  BY <1>1, EndEffect
<1>3. /\ TableLoosens
      /\ \A t \in (S \cap Known) \cap Tasks : adm'[t] # "reserved"
  BY <1>1, ReleasedEffect
<1>4. \A t \in Tasks : status[t] \in Live /\ status'[t] \in Ended => adm'[t] # "reserved"
  <2> SUFFICES ASSUME NEW t \in Tasks, status[t] \in Live, status'[t] \in Ended
               PROVE  adm'[t] # "reserved"
    OBVIOUS
  <2>1. t \in S
    BY <1>2 DEF Live, Ended
  <2>2. t \in Known
    BY DEF Known, Live
  <2> QED
    BY <1>3, <2>1, <2>2
<1>5. ReservedIsPending'
  BY <1>2, <1>3, <1>4, ReservedFollows
<1>6. S = Tasks => LiveTasks' = {}
  BY <1>2 DEF LiveTasks
<1> QED
  BY <1>1, <1>2, <1>3, <1>5, <1>6

LEMMA FaultCounted ==
    ASSUME TypeOK
    PROVE  /\ UNCHANGED faults => faults' \in 0 .. MaxFaults
           /\ CanFail /\ Fault => faults' \in 0 .. MaxFaults
<1>1. faults \in 0 .. MaxFaults /\ MaxFaults \in Nat
  BY TaskRunnerAssumption DEF TypeOK
<1> QED
  BY <1>1 DEF CanFail, Fault

LEMMA UnsettledEffect ==
    ASSUME TypeOK, OverdueIsLeased, ReservedIsPending, NEW S \in SUBSET Tasks, Unsettled(S)
    PROVE  /\ StoreEnds /\ TableLoosens /\ ReservedIsPending' /\ faults' \in 0 .. MaxFaults
           /\ status' = status /\ lease' = lease
<1>1. /\ CanFail /\ Fault /\ UNCHANGED store
      /\ ReleasePending({t \in S : status[t] \in Ended})
  BY DEF Unsettled
<1>2. StoreEnds /\ TableLoosens /\ status' = status /\ lease' = lease
  BY <1>1, StoreSame, ReleasedEffect DEF store
<1>3. \A t \in Tasks : ~(status[t] \in Live /\ status'[t] \in Ended)
  BY <1>2 DEF Live, Ended
<1>4. ReservedIsPending'
  BY <1>2, <1>3, ReservedFollows
<1> QED
  BY <1>1, <1>2, <1>4, FaultCounted

LEMMA SettleEffect ==
    ASSUME TypeOK, OverdueIsLeased, ReservedIsPending,
           NEW S \in SUBSET Tasks, NEW st \in Ended, Settle(S, st)
    PROVE  /\ StoreEnds /\ TableLoosens /\ ReservedIsPending' /\ faults' \in 0 .. MaxFaults
           /\ abandoned' \in BOOLEAN /\ (abandoned => abandoned')
           /\ S = Tasks /\ ~abandoned' => LiveTasks' = {}
<1>1. CASE Settled(S, st) /\ UNCHANGED abandoned
  BY <1>1, SettledEffect, FaultCounted DEF TypeOK
<1>2. CASE Unsettled(S) /\ Abandon
  BY <1>2, UnsettledEffect DEF Abandon
<1> QED
  BY <1>1, <1>2 DEF Settle

-----------------------------------------------------------------------------
(* Steps that start no thread and admit nothing *)

Busy == {"each", "claim", "dispatch"}

\* No handle leaves a claim.
ClaimsStay ==
    \A h \in Runners : At(h, "claim") => loop'[h].pc = "claim" /\ loop'[h].at = loop[h].at

\* No handle begins to admit, claim or dispatch either.
LoopSteady ==
    /\ \A h \in Runners : loop'[h].pc \in Busy =>
          /\ loop'[h].pc = loop[h].pc
          /\ loop'[h].at = loop[h].at /\ loop'[h].todo = loop[h].todo
    /\ ClaimsStay

LEMMA OccupyingIsFinite ==
    /\ IsFiniteSet(Occupying) /\ Cardinality(Occupying) \in Nat
    /\ IsFiniteSet(Occupying') /\ Cardinality(Occupying') \in Nat
    /\ MaxActive \in Nat
<1>1. IsFiniteSet(Tasks)
  BY TaskRunnerAssumption
<1>2. Occupying \in SUBSET Tasks /\ Occupying' \in SUBSET Tasks
  BY DEF Occupying
<1>3. IsFiniteSet(Occupying) /\ IsFiniteSet(Occupying')
  BY <1>1, <1>2, FS_Subset
<1> QED
  BY <1>3, FS_CardinalityType, TaskRunnerAssumption

\* The limit holds as long as no task takes a place.
LEMMA NoNewPlace ==
    ASSUME WithinLimit, Occupying' \subseteq Occupying
    PROVE  WithinLimit'
<1>1. Cardinality(Occupying') <= Cardinality(Occupying)
  BY OccupyingIsFinite, FS_Subset
<1> QED
  BY <1>1, OccupyingIsFinite DEF WithinLimit

\* One task takes a place when there is room.
LEMMA OneNewPlace ==
    ASSUME NEW t, HasRoom, Occupying' \subseteq Occupying \cup {t}
    PROVE  WithinLimit'
<1>1. /\ IsFiniteSet(Occupying \cup {t})
      /\ Cardinality(Occupying \cup {t}) <= Cardinality(Occupying) + 1
  BY OccupyingIsFinite, FS_AddElement
<1>2. /\ Cardinality(Occupying') <= Cardinality(Occupying \cup {t})
      /\ Cardinality(Occupying \cup {t}) \in Nat
  BY <1>1, FS_Subset, FS_CardinalityType
<1> QED
  BY <1>1, <1>2, OccupyingIsFinite DEF WithinLimit, HasRoom

LEMMA LoosenedOccupies ==
    ASSUME TableLoosens PROVE Occupying' \subseteq Occupying
BY DEF TableLoosens, Occupying

\* Threads that stay as they are, or only move on, keep what ThreadInv says.
LEMMA ThreadsStay ==
    ASSUME TypeOK, ThreadInv, StoreEnds, UNCHANGED job,
           \A x \in Executions : exec'[x] = "none" <=> exec[x] = "none",
           InFlight' \subseteq InFlight
    PROVE  ThreadInv'
<1>1. JobGiven'
  BY DEF ThreadInv, JobGiven
<1>2. ThreadsAreClaimed'
  <2> SUFFICES ASSUME NEW x \in InFlight' PROVE status'[job'[x]] \notin {"none", "pending"}
    BY DEF ThreadsAreClaimed
  <2>1. x \in InFlight /\ x \in Executions
    BY DEF InFlight
  <2>2. status[job[x]] \notin {"none", "pending"}
    BY <2>1 DEF ThreadInv, ThreadsAreClaimed
  <2>3. job[x] \in Tasks
    BY <2>1 DEF ThreadInv, JobGiven, TypeOK, InFlight
  <2>4. Ends(job[x])
    BY <2>3 DEF StoreEnds
  <2> QED
    BY <2>2, <2>4 DEF Ends, Ended
<1>3. OneThread'
  BY DEF ThreadInv, OneThread
<1>4. OverdueIsLeased'
  BY DEF StoreEnds, OverdueIsLeased
<1> QED
  BY <1>1, <1>2, <1>3, <1>4 DEF ThreadInv

LEMMA ThreadsUnchanged ==
    ASSUME TypeOK, ThreadInv, StoreEnds, UNCHANGED threads
    PROVE  ThreadInv' /\ InFlight' = InFlight /\ exec' = exec /\ job' = job
<1>1. exec' = exec /\ job' = job
  BY DEF threads
<1>2. InFlight' = InFlight
  BY <1>1 DEF InFlight
<1> QED
  BY <1>1, <1>2, ThreadsStay

LEMMA JobIsTask ==
    ASSUME TypeOK, JobGiven, NEW x \in Executions, exec[x] # "none"
    PROVE  job[x] \in Tasks
BY DEF TypeOK, JobGiven

LEMMA QuietTable ==
    ASSUME TypeOK, ThreadInv, TableInv, StoreEnds, TableLoosens, ReservedIsPending',
           UNCHANGED threads, ClaimsStay
    PROVE  TableInv'
<1>1. exec' = exec /\ job' = job
  BY DEF threads
<1>2. Seated'
  <2> SUFFICES ASSUME NEW x \in Executions
               PROVE  /\ exec[x] \in {"granted", "working"} => adm'[job[x]] = "running"
                      /\ exec[x] = "waiting" => adm'[job[x]] = "waiting"
    BY <1>1 DEF Seated
  <2>1. exec[x] \in {"granted", "working", "waiting"} => job[x] \in Tasks
    BY JobIsTask DEF ThreadInv
  <2> QED
    BY <2>1 DEF TableInv, Seated, TableLoosens
<1>3. Owned'
  <2> SUFFICES ASSUME NEW t \in Tasks, adm'[t] \in {"running", "waiting"}
               PROVE  (\E x \in Executions : Keeps(x, t)') \/ (\E h \in Runners : Claims(h, t)')
    BY DEF Owned
  <2>1. adm[t] \in {"running", "waiting"}
    BY DEF TableLoosens
  <2>2. CASE \E x \in Executions : Keeps(x, t)
    BY <1>1, <2>2 DEF Keeps
  <2>3. CASE \E h \in Runners : Claims(h, t)
    BY <2>3 DEF Claims, At, ClaimsStay
  <2> QED
    BY <2>1, <2>2, <2>3 DEF TableInv, Owned
<1>4. WithinLimit'
  BY LoosenedOccupies, NoNewPlace DEF TableInv
<1> QED
  BY <1>2, <1>3, <1>4 DEF TableInv

LEMMA SpareStays ==
    ASSUME TypeOK, ThreadInv, StoreEnds, UNCHANGED job, InFlight' \subseteq InFlight
    PROVE  Spare \subseteq Spare'
<1> SUFFICES ASSUME NEW t \in Spare PROVE t \in Spare'
  OBVIOUS
<1>1. t \in Tasks /\ status[t] # "none"
  BY DEF Spare, Known
<1>2. status'[t] # "none"
  BY <1>1 DEF StoreEnds, Ends, Ended
<1> QED
  BY <1>1, <1>2 DEF Spare, Known

LEMMA QuietLoops ==
    ASSUME TypeOK, ThreadInv, TableInv, LoopInv, StoreEnds, TableLoosens,
           UNCHANGED threads, LoopSteady
    PROVE  LoopKnows'
<1>1. exec' = exec /\ job' = job /\ InFlight' = InFlight
  BY DEF threads, InFlight
<1>2. Spare \subseteq Spare'
  BY <1>1, SpareStays
<1>3. Spare \subseteq Tasks
  BY DEF Spare, Known
<1> SUFFICES ASSUME NEW h \in Runners, loop'[h].pc \in Busy
             PROVE  /\ loop'[h].todo \subseteq Spare'
                    /\ loop'[h].pc = "claim" =>
                         /\ loop'[h].at \in Spare' \ loop'[h].todo
                         /\ adm'[loop'[h].at] = "running"
                    /\ loop'[h].pc = "dispatch" =>
                         loop'[h].at \in InFlight' /\ exec'[loop'[h].at] = "granted"
  BY DEF LoopKnows, At, Busy
<1>4. loop'[h].pc = loop[h].pc /\ loop'[h].at = loop[h].at /\ loop'[h].todo = loop[h].todo
  BY DEF LoopSteady
<1>5. /\ loop[h].todo \subseteq Spare
      /\ loop[h].pc = "claim" =>
           loop[h].at \in Spare \ loop[h].todo /\ adm[loop[h].at] = "running"
      /\ loop[h].pc = "dispatch" =>
           loop[h].at \in InFlight /\ exec[loop[h].at] = "granted"
  BY <1>4 DEF LoopInv, LoopKnows, At, Busy
<1>6. loop[h].pc = "claim" => adm'[loop[h].at] = "running"
  BY <1>3, <1>5 DEF TableLoosens
<1> QED
  BY <1>1, <1>2, <1>4, <1>5, <1>6

-----------------------------------------------------------------------------
(* One step of the running loop *)

\* Only the running handle h moves, and it is active until it has ended.
Moves(h) ==
    /\ Running(h)
    /\ loop' \in [Runners -> Loops]
    /\ \A g \in Runners \ {h} : loop'[g] = loop[g]
    /\ loop'[h].pc # "none" /\ (loop'[h].active <=> loop'[h].pc # "ended")
    /\ loop'[h].cancel = loop[h].cancel
    /\ UNCHANGED <<runner, lock>>

LEMMA LoopsAre ==
    ASSUME TypeOK, NEW h \in Runners
    PROVE  /\ loop \in [Runners -> Loops] /\ loop[h] \in Loops
           /\ loop[h].pc \in LoopPCs
           /\ loop[h].cancel \in BOOLEAN /\ loop[h].active \in BOOLEAN
           /\ loop[h].seen \in BOOLEAN /\ loop[h].did \in BOOLEAN
           /\ loop[h].blocked \in BOOLEAN
           /\ loop[h].todo \subseteq Tasks /\ loop[h].cand \subseteq Tasks
           /\ loop[h].ids \subseteq Tasks
           /\ loop[h].whole \in BOOLEAN /\ loop[h].bad \in BOOLEAN
           /\ loop[h].at \in Tasks \cup Executions \cup {None}
BY DEF TypeOK, Loops

LEMMA GoEffect ==
    ASSUME TypeOK, OneLoop, NEW h \in Runners, Running(h),
           NEW pc \in LoopPCs \ {"none", "ended"}, Go(h, pc), UNCHANGED <<runner, lock>>
    PROVE  /\ Moves(h)
           /\ loop'[h].pc = pc /\ loop'[h].at = loop[h].at
           /\ loop'[h].todo = loop[h].todo /\ loop'[h].ids = loop[h].ids
<1>1. loop' = [loop EXCEPT ![h].pc = pc]
  BY DEF Go
<1>2. loop \in [Runners -> Loops] /\ loop[h] \in Loops
  BY LoopsAre
<1> DEFINE i == [loop[h] EXCEPT !.pc = pc]
<1>3. i \in Loops
  BY <1>2 DEF Loops
<1>4. /\ i.pc = pc /\ i.at = loop[h].at /\ i.todo = loop[h].todo /\ i.ids = loop[h].ids
      /\ i.active = loop[h].active /\ i.cancel = loop[h].cancel
  BY <1>2 DEF Loops
<1>5. loop' = [loop EXCEPT ![h] = i]
  BY <1>1
<1> HIDE DEF i
<1>6. loop' \in [Runners -> Loops] /\ loop'[h] = i /\ \A g \in Runners \ {h} : loop'[g] = loop[g]
  BY <1>2, <1>3, <1>5
<1>7. loop[h].active
  BY DEF OneLoop
<1> QED
  BY <1>4, <1>6, <1>7 DEF Moves

LEMMA ExitEffect ==
    ASSUME TypeOK, NEW h \in Runners, Running(h), Exit(h), UNCHANGED <<runner, lock>>
    PROVE  Moves(h) /\ loop'[h].pc = "ended" /\ loop'[h].ids = loop[h].ids
<1>1. loop \in [Runners -> Loops] /\ loop[h] \in Loops
  BY LoopsAre
<1> DEFINE i == [Idle EXCEPT !.pc = "ended", !.cancel = loop[h].cancel, !.ids = loop[h].ids]
<1>2. loop' = [loop EXCEPT ![h] = i]
  BY DEF Exit
<1>3. i \in Loops
  BY <1>1 DEF Idle, Loops, LoopPCs
<1>4. i.pc = "ended" /\ i.active = FALSE /\ i.cancel = loop[h].cancel /\ i.ids = loop[h].ids
  BY DEF Idle
<1> HIDE DEF i
<1>5. loop' \in [Runners -> Loops] /\ loop'[h] = i /\ \A g \in Runners \ {h} : loop'[g] = loop[g]
  BY <1>1, <1>2, <1>3
<1> QED
  BY <1>4, <1>5 DEF Moves

LEMMA FreshEffect ==
    ASSUME TypeOK, NEW h \in Runners, Running(h), ~loop[h].cancel, Fresh(h),
           UNCHANGED <<runner, lock>>
    PROVE  Moves(h) /\ loop'[h].pc = "expire" /\ loop'[h].ids = {}
<1>1. loop \in [Runners -> Loops] /\ loop[h].cancel \in BOOLEAN
  BY LoopsAre
<1> DEFINE i == [Idle EXCEPT !.pc = "expire", !.active = TRUE]
<1>2. loop' = [loop EXCEPT ![h] = i]
  BY DEF Fresh
<1>3. i \in Loops
  BY DEF Idle, Loops, LoopPCs
<1>4. i.pc = "expire" /\ i.active = TRUE /\ i.cancel = FALSE /\ i.ids = {}
  BY DEF Idle
<1> HIDE DEF i
<1>5. loop' \in [Runners -> Loops] /\ loop'[h] = i /\ \A g \in Runners \ {h} : loop'[g] = loop[g]
  BY <1>1, <1>2, <1>3
<1> QED
  BY <1>1, <1>4, <1>5 DEF Moves

LEMMA LoopMoved ==
    ASSUME TypeOK, LoopInv, NEW h \in Runners, Moves(h)
    PROVE  OneLoop' /\ ContinueIsAlone' /\ NewHandles' = NewHandles /\ lock # "continuing"
<1>1. runner = h /\ lock # "continuing"
  BY DEF LoopInv, OneLoop, ContinueIsAlone, Moves
<1>2. lock' = lock /\ runner' = runner
  BY DEF Moves
<1>3. \A g \in Runners : g # h => loop'[g] = loop[g]
  BY DEF Moves
<1>4. ContinueIsAlone'
  BY <1>1, <1>2 DEF ContinueIsAlone
<1>5. loop'[h].pc # "none" /\ (loop'[h].active <=> loop'[h].pc # "ended")
  BY DEF Moves
<1>6. \A g \in Runners : loop'[g].active <=> loop'[g].pc \notin {"none", "ended"}
  BY <1>3, <1>5 DEF LoopInv, OneLoop, Running
<1>7. \A g \in Runners : loop'[g].pc \notin {"none", "ended"} => runner' = g
  BY <1>1, <1>2, <1>3 DEF LoopInv, OneLoop, Running
<1>8. \A g \in Runners : loop'[g].pc = "none" => ~loop'[g].cancel /\ runner' # g
  BY <1>1, <1>2, <1>3, <1>5 DEF LoopInv, OneLoop, At
<1>9. OneLoop'
  BY <1>6, <1>7, <1>8 DEF OneLoop, Running, At
<1>10. NewHandles' = NewHandles
  BY <1>3, <1>5 DEF NewHandles, Moves, Running
<1> QED
  BY <1>1, <1>4, <1>9, <1>10

\* Nothing was looked at yet.
LEMMA LookedNot ==
    ASSUME NEW h \in Runners, loop'[h].ids = {}, loop'[h].pc \notin {"root", "read"}
    PROVE  Looked(h)'
BY DEF Looked

\* A loop that ends had been cancelled, or leaves only what it missed.
LEMMA ScopeMoved ==
    ASSUME TypeOK, LoopInv, ScopeInv, NEW h \in Runners, Moves(h), Looked(h)',
           status'[Root] # "none", LiveTasks' # {} => LiveTasks # {},
           abandoned => abandoned',
           loop'[h].pc = "ended" /\ ~abandoned' => loop[h].cancel \/ AllMissed'
    PROVE  ScopeInv'
<1>1. runner = h /\ runner' = h /\ lock' = lock
  BY DEF LoopInv, OneLoop, Moves
<1>2. ASSUME NEW g \in Runners PROVE Looked(g)'
  <2>1. CASE g = h
    BY <2>1
  <2>2. CASE g # h
    <3>1. loop'[g] = loop[g] /\ ~Running(g)
      BY <1>1, <2>2 DEF Moves, LoopInv, OneLoop
    <3>2. loop[g].pc \in {"none", "ended"}
      BY <3>1 DEF Running
    <3> QED
      BY <1>1, <2>2, <3>1, <3>2 DEF Looked, ScopeInv, LookPCs
  <2> QED
    BY <2>1, <2>2
<1>3. ASSUME ~abandoned' PROVE Attended' \/ AllMissed'
  <2>1. CASE LiveTasks' = {}
    BY <2>1 DEF AllMissed
  <2>2. CASE LiveTasks' # {}
    <3>1. PICK t \in LiveTasks : TRUE
      BY <2>2
    <3>2. ~Missed(t)
      BY <1>1 DEF Missed, Moves, Running
    <3>3. Attended
      BY <1>3, <3>1, <3>2 DEF ScopeInv, AllMissed
    <3>4. NewHandles' = NewHandles
      BY LoopMoved
    <3>5. CASE NewHandles = Runners \/ lock \in {"quiescing", "continuing"}
      BY <1>1, <3>4, <3>5 DEF Attended
    <3>6. CASE runner # None /\ Running(runner) /\ ~loop[runner].cancel
      <4>1. ~loop'[h].cancel /\ loop'[h].pc # "none"
        BY <1>1, <3>6 DEF Moves
      <4>2. CASE loop'[h].pc = "ended"
        BY <1>1, <1>3, <3>6, <4>2
      <4>3. CASE loop'[h].pc # "ended"
        BY <1>1, <3>6, <4>1, <4>3 DEF Attended, Running
      <4> QED
        BY <4>2, <4>3
    <3> QED
      BY <3>3, <3>5, <3>6 DEF Attended
  <2> QED
    BY <2>1, <2>2
<1>4. ~abandoned' /\ lock' = "stopping" => LiveTasks' = {}
  BY <1>1 DEF ScopeInv
<1> QED
  BY <1>2, <1>3, <1>4 DEF ScopeInv

LEMMA EndsLive ==
    ASSUME StoreEnds
    PROVE  /\ LiveTasks' \subseteq LiveTasks
           /\ \A t \in LiveTasks' : status'[t] = status[t]
           /\ status[Root] # "none" => status'[Root] # "none"
<1>1. Root \in Tasks
  BY DEF Tasks
<1>2. \A t \in Tasks : Ends(t)
  BY DEF StoreEnds
<1> QED
  BY <1>1, <1>2 DEF Ends, LiveTasks, Ended, Live

LEMMA QuietCycle ==
    ASSUME IInv, NEW h \in Runners, Moves(h), LoopSteady,
           StoreEnds, TableLoosens, ReservedIsPending', UNCHANGED threads,
           Looked(h)', abandoned => abandoned',
           loop'[h].pc = "ended" /\ ~abandoned' => loop[h].cancel \/ AllMissed'
    PROVE  ThreadInv' /\ TableInv' /\ LoopInv' /\ ScopeInv'
<1>1. ThreadInv'
  BY ThreadsUnchanged DEF IInv
<1>2. TableInv'
  BY QuietTable DEF IInv, LoopSteady
<1>3. LoopInv'
  BY QuietLoops, LoopMoved DEF IInv, LoopInv
<1>4. ScopeInv'
  <2>1. /\ LiveTasks' # {} => LiveTasks # {}
        /\ status'[Root] # "none"
    BY EndsLive DEF IInv, ScopeInv
  <2> QED
    BY <2>1, ScopeMoved DEF IInv
<1> QED
  BY <1>1, <1>2, <1>3, <1>4

LEMMA QuietTypes ==
    ASSUME TypeOK, StoreEnds, adm' \in [Tasks -> Phases], queued' \subseteq Tasks,
           exec' \in [Executions -> ExecPCs], UNCHANGED job,
           loop' \in [Runners -> Loops], runner' \in Runners \cup {None},
           lock' \in {"free", "stopping", "quiescing", "continuing"},
           unmatched' \subseteq Tasks, short' \in BOOLEAN, abandoned' \in BOOLEAN,
           stalls' \in 0 .. MaxStalls, stops' \in 0 .. MaxStops, faults' \in 0 .. MaxFaults
    PROVE  TypeOK'
<1>1. \A t \in Tasks : lease'[t] # None => status'[t] = "running" /\ job'[lease'[t]] = t
  BY DEF TypeOK, StoreEnds, Ends
<1> QED
  BY <1>1 DEF TypeOK, StoreEnds

LEMMA SteadyMove ==
    ASSUME NEW h \in Runners, Moves(h), loop'[h].pc \notin Busy, loop[h].pc # "claim"
    PROVE  LoopSteady
<1>1. \A g \in Runners : g # h => loop'[g] = loop[g]
  BY DEF Moves
<1> QED
  BY <1>1 DEF LoopSteady, ClaimsStay, At, Busy

\* A cycle's step that leaves all but the store, the table and its handle alone.
LEMMA CycleTypes ==
    ASSUME TypeOK, NEW h \in Runners, Moves(h), StoreEnds, TableLoosens,
           UNCHANGED <<threads, world, stalls, stops>>,
           abandoned' \in BOOLEAN, faults' \in 0 .. MaxFaults
    PROVE  TypeOK'
<1>1. /\ exec' \in [Executions -> ExecPCs] /\ job' = job
      /\ unmatched' \subseteq Tasks /\ short' \in BOOLEAN
      /\ stalls' \in 0 .. MaxStalls /\ stops' \in 0 .. MaxStops
      /\ runner' \in Runners \cup {None}
      /\ lock' \in {"free", "stopping", "quiescing", "continuing"}
  BY DEF TypeOK, threads, world, Moves
<1>2. adm' \in [Tasks -> Phases] /\ queued' \subseteq Tasks
  BY DEF TableLoosens
<1>3. loop' \in [Runners -> Loops]
  BY DEF Moves
<1> QED
  BY <1>1, <1>2, <1>3, QuietTypes

LEMMA StayPut ==
    ASSUME IInv, UNCHANGED <<store, table>>
    PROVE  StoreEnds /\ TableLoosens /\ ReservedIsPending' /\ LiveTasks' = LiveTasks
<1>1. StoreEnds /\ TableLoosens
  BY StoreSame, TableSame DEF IInv, ThreadInv
<1> QED
  BY <1>1 DEF IInv, TableInv, ReservedIsPending, LiveTasks, store, table

\* A step of a cycle that starts no thread and admits nothing.
LEMMA CycleStep ==
    ASSUME IInv, NEW h \in Runners, Moves(h), loop'[h].pc \notin Busy, loop[h].pc # "claim",
           StoreEnds, TableLoosens, ReservedIsPending',
           UNCHANGED <<threads, world, stalls, stops>>,
           abandoned' \in BOOLEAN, faults' \in 0 .. MaxFaults,
           Looked(h)', abandoned => abandoned',
           loop'[h].pc = "ended" /\ ~abandoned' => loop[h].cancel \/ AllMissed'
    PROVE  IInv'
<1>1. LoopSteady
  BY SteadyMove
<1>2. TypeOK'
  BY CycleTypes DEF IInv
<1>3. ThreadInv' /\ TableInv' /\ LoopInv' /\ ScopeInv'
  BY <1>1, QuietCycle
<1> QED
  BY <1>2, <1>3 DEF IInv

\* A step of a cycle that only reads.
LEMMA ReadingStep ==
    ASSUME IInv, NEW h \in Runners, Moves(h), loop'[h].pc \notin Busy, loop[h].pc # "claim",
           UNCHANGED <<store, table, threads, world, abandoned, counted>>,
           Looked(h)',
           loop'[h].pc = "ended" => loop[h].cancel \/ AllMissed'
    PROVE  IInv'
<1>1. StoreEnds /\ TableLoosens /\ ReservedIsPending'
  BY StayPut
<1>2. abandoned' \in BOOLEAN /\ faults' \in 0 .. MaxFaults /\ abandoned' = abandoned
      /\ UNCHANGED <<stalls, stops>>
  BY DEF counted, IInv, TypeOK
<1> QED
  BY <1>1, <1>2, CycleStep

\* What a position of the loop says of its list.
LEMMA NothingListed ==
    ASSUME IInv, NEW h \in Runners, loop[h].pc \notin LookPCs
    PROVE  loop[h].ids = {}
BY DEF IInv, ScopeInv, Looked

LEMMA TopStep ==
    ASSUME IInv, NEW h \in Runners, Top(h)
    PROVE  IInv'
<1>1. /\ TypeOK /\ OneLoop /\ loop[h].pc \in {"top", "save"} /\ Running(h)
      /\ loop[h].ids = {}
  BY NothingListed DEF IInv, LoopInv, Top, Running, LookPCs
<1>2. UNCHANGED <<store, table, threads, runner, lock, world, abandoned, counted>>
  BY DEF Top
<1>3. /\ Moves(h) /\ loop'[h].pc \in {"ended", "expire"} /\ loop'[h].ids = {}
      /\ loop'[h].pc = "ended" => loop[h].cancel
  <2>1. CASE loop[h].cancel
    BY <1>1, <1>2, <2>1, ExitEffect DEF Top
  <2>2. CASE ~loop[h].cancel
    BY <1>1, <1>2, <2>2, FreshEffect DEF Top
  <2> QED
    BY <2>1, <2>2
<1>4. Looked(h)'
  BY <1>3, LookedNot
<1> QED
  BY <1>1, <1>2, <1>3, <1>4, ReadingStep DEF Busy

LEMMA HeldIsRunning ==
    ASSUME TypeOK, OverdueIsLeased, NEW t \in overdue
    PROVE  t \in Tasks /\ status[t] = "running"
BY DEF TypeOK, OverdueIsLeased

LEMMA ExpireStep ==
    ASSUME IInv, NEW h \in Runners, Expire(h)
    PROVE  IInv'
<1>1. /\ TypeOK /\ OneLoop /\ OverdueIsLeased /\ ReservedIsPending
      /\ At(h, "expire") /\ Running(h) /\ loop[h].ids = {} /\ abandoned \in BOOLEAN
  BY NothingListed DEF IInv, LoopInv, ThreadInv, TableInv, Expire, At, Running, LookPCs, TypeOK
<1>2. UNCHANGED <<table, threads, runner, lock, world, abandoned, stalls, stops>>
  BY DEF Expire
<1>3. TableLoosens
  BY <1>1, <1>2, TableSame
<1>4. SUFFICES /\ Moves(h) /\ loop'[h].pc \in {"expire", "orphans", "error"}
               /\ loop'[h].ids = {} /\ StoreEnds /\ ReservedIsPending'
               /\ faults' \in 0 .. MaxFaults
  <2>1. Looked(h)'
    BY <1>4, LookedNot
  <2> QED
    BY <1>1, <1>2, <1>3, <1>4, <2>1, CycleStep DEF At, Busy
<1>5. CASE overdue = {} /\ Go(h, "orphans") /\ UNCHANGED <<store, faults>>
  <2>1. Moves(h) /\ loop'[h].pc = "orphans" /\ loop'[h].ids = loop[h].ids
    BY <1>1, <1>2, <1>5, GoEffect DEF LoopPCs
  <2> QED
    BY <1>1, <1>2, <1>5, <2>1, StayPut, FaultCounted
<1>6. CASE (\E t \in overdue : End({t}, "failed")) /\ UNCHANGED <<loop, faults>>
  <2>1. PICK t \in overdue : End({t}, "failed")
    BY <1>6
  <2>2. /\ StoreEnds
        /\ \A u \in Tasks : u \notin {t} => status'[u] = status[u]
    BY <1>1, <2>1, EndEffect DEF Ended
  <2>3. \A u \in Tasks : status[u] \in Live /\ status'[u] \in Ended => status[u] # "pending"
    <3> SUFFICES ASSUME NEW u \in Tasks, status[u] \in Live, status'[u] \in Ended
                 PROVE  status[u] # "pending"
      OBVIOUS
    <3>1. u = t
      BY <2>2 DEF Live, Ended
    <3> QED
      BY <1>1, <3>1, HeldIsRunning
  <2>4. ReservedIsPending'
    BY <1>1, <1>3, <2>2, <2>3, ReservedFollows
  <2>5. Moves(h) /\ loop'[h].pc = "expire" /\ loop'[h].ids = {}
    <3>1. loop' = loop /\ loop \in [Runners -> Loops] /\ loop[h].active
      BY <1>1, <1>6, LoopsAre DEF OneLoop
    <3> QED
      BY <1>1, <1>2, <3>1 DEF Moves, At
  <2> QED
    BY <1>1, <1>6, <2>2, <2>4, <2>5, FaultCounted
<1>7. CASE overdue # {} /\ CanFail /\ Fault /\ Go(h, "error") /\ UNCHANGED store
  <2>1. Moves(h) /\ loop'[h].pc = "error" /\ loop'[h].ids = loop[h].ids
    BY <1>1, <1>2, <1>7, GoEffect DEF LoopPCs
  <2> QED
    BY <1>1, <1>2, <1>7, <2>1, StayPut, FaultCounted
<1> QED
  BY <1>5, <1>6, <1>7 DEF Expire

LEMMA OrphansStep ==
    ASSUME IInv, NEW h \in Runners, Orphans(h)
    PROVE  IInv'
<1>1. /\ TypeOK /\ OneLoop /\ OverdueIsLeased /\ ReservedIsPending
      /\ At(h, "orphans") /\ Running(h) /\ loop[h].ids = {} /\ abandoned \in BOOLEAN
  BY NothingListed DEF IInv, LoopInv, ThreadInv, TableInv, Orphans, At, Running, LookPCs, TypeOK
<1>2. UNCHANGED <<threads, runner, lock, world, abandoned, stalls, stops>>
  BY DEF Orphans
<1>3. SUFFICES /\ Moves(h) /\ loop'[h].pc \in {"scan", "error"} /\ loop'[h].ids = {}
               /\ StoreEnds /\ TableLoosens /\ ReservedIsPending'
               /\ faults' \in 0 .. MaxFaults
  <2>1. Looked(h)'
    BY <1>3, LookedNot
  <2> QED
    BY <1>1, <1>2, <1>3, <2>1, CycleStep DEF At, Busy
<1>4. CASE /\ End(Orphaned, "killed") /\ ReleasePending({t \in Tasks : status'[t] \in Ended})
           /\ Go(h, "scan") /\ UNCHANGED faults
  <2>1. Moves(h) /\ loop'[h].pc = "scan" /\ loop'[h].ids = loop[h].ids
    BY <1>1, <1>2, <1>4, GoEffect DEF LoopPCs
  <2>2. StoreEnds
    <3> PICK S : S = Orphaned
      OBVIOUS
    <3>1. End(S, "killed") /\ "killed" \in Ended
      BY <1>4 DEF Ended
    <3> QED
      BY <1>1, <3>1, EndEffect
  <2>3. PICK S \in SUBSET Tasks : S = {t \in Tasks : status'[t] \in Ended}
    OBVIOUS
  <2>4. TableLoosens /\ \A t \in S \cap Tasks : adm'[t] # "reserved"
    <3>1. ReleasePending(S)
      BY <1>4, <2>3
    <3> QED
      BY <1>1, <3>1, ReleasedEffect
  <2>5. ReservedIsPending'
    BY <1>1, <2>2, <2>3, <2>4, ReservedFollows
  <2> QED
    BY <1>1, <1>4, <2>1, <2>2, <2>4, <2>5, FaultCounted
<1>5. CASE /\ Orphaned # {} /\ CanFail /\ Fault
           /\ ReleasePending({t \in Tasks : status[t] \in Ended})
           /\ Go(h, "error") /\ UNCHANGED store
  <2>1. Moves(h) /\ loop'[h].pc = "error" /\ loop'[h].ids = loop[h].ids
    BY <1>1, <1>2, <1>5, GoEffect DEF LoopPCs
  <2>2. StoreEnds /\ TableLoosens
    BY <1>1, <1>5, StoreSame, ReleasedEffect
  <2>3. \A t \in Tasks : ~(status[t] \in Live /\ status'[t] \in Ended)
    BY <1>5 DEF store, Live, Ended
  <2>4. ReservedIsPending'
    BY <1>1, <2>2, <2>3, ReservedFollows
  <2> QED
    BY <1>1, <1>5, <2>1, <2>2, <2>4, FaultCounted
<1> QED
  BY <1>4, <1>5 DEF Orphans

LEMMA ScanStep ==
    ASSUME IInv, NEW h \in Runners, Scan(h)
    PROVE  IInv'
<1>1. /\ TypeOK /\ OneLoop /\ ReservedIsPending /\ At(h, "scan") /\ Running(h)
      /\ loop[h].ids = {} /\ abandoned \in BOOLEAN
  BY NothingListed DEF IInv, LoopInv, TableInv, Scan, At, Running, LookPCs, TypeOK
<1>2. UNCHANGED <<status, lease, table, threads, runner, lock, world, abandoned, counted>>
  BY DEF Scan
<1>3. /\ loop \in [Runners -> Loops] /\ loop[h] \in Loops /\ loop[h].active
  BY <1>1, LoopsAre DEF OneLoop
<1> DEFINE held == \E t \in Tasks : lease[t] # None
           i == [loop[h] EXCEPT !.pc = "list", !.seen = held]
<1>4. /\ i \in Loops /\ i.pc = "list" /\ i.active = loop[h].active
      /\ i.cancel = loop[h].cancel /\ i.ids = loop[h].ids
  BY <1>3 DEF Loops, LoopPCs
<1>5. loop' = [loop EXCEPT ![h] = i]
  BY <1>3 DEF Scan
<1> HIDE DEF i, held
<1>6. Moves(h) /\ loop'[h].pc = "list" /\ loop'[h].ids = {}
  BY <1>1, <1>2, <1>3, <1>4, <1>5 DEF Moves
<1>7. StoreEnds
  <2>1. overdue' = {}
    BY DEF Scan
  <2> QED
    BY <1>1, <1>2, <2>1 DEF StoreEnds, Ends, TypeOK
<1>8. TableLoosens /\ ReservedIsPending'
  BY <1>1, <1>2, TableSame DEF table, ReservedIsPending
<1>9. Looked(h)'
  BY <1>6, LookedNot
<1>10. faults' = faults /\ UNCHANGED <<stalls, stops>> /\ abandoned' = abandoned
  BY <1>2 DEF counted
<1> QED
  BY <1>1, <1>2, <1>6, <1>7, <1>8, <1>9, <1>10, FaultCounted, CycleStep DEF At, Busy

\* The tasks that are not listed do not exist yet.
LEMMA ListStep ==
    ASSUME IInv, NEW h \in Runners, List(h)
    PROVE  IInv'
<1>1. TypeOK /\ OneLoop /\ At(h, "list") /\ Running(h) /\ status[Root] # "none"
  BY DEF IInv, LoopInv, ScopeInv, List, At, Running
<1>2. UNCHANGED <<store, table, threads, runner, lock, world, abandoned, counted>>
  BY DEF List
<1>3. /\ loop \in [Runners -> Loops] /\ loop[h] \in Loops /\ loop[h].active
  BY <1>1, LoopsAre DEF OneLoop
<1>4. PICK K \in SUBSET Tasks : K = Known
  BY DEF Known
<1> DEFINE i == [loop[h] EXCEPT !.pc = "root", !.ids = K, !.todo = K]
<1>5. /\ i \in Loops /\ i.pc = "root" /\ i.active = loop[h].active
      /\ i.cancel = loop[h].cancel /\ i.ids = K /\ i.todo = K
  BY <1>3 DEF Loops, LoopPCs
<1>6. loop' = [loop EXCEPT ![h] = i]
  BY <1>3, <1>4 DEF List
<1> HIDE DEF i
<1>7. Moves(h) /\ loop'[h].pc = "root" /\ loop'[h].ids = K /\ loop'[h].todo = K
  BY <1>1, <1>2, <1>3, <1>5, <1>6 DEF Moves
<1>8. Looked(h)'
  <2>1. Root \in K /\ \A t \in Tasks : t \in K <=> status[t] # "none"
    BY <1>1, <1>4 DEF Known, Tasks
  <2>2. status' = status
    BY <1>2 DEF store
  <2> QED
    BY <1>7, <2>1, <2>2 DEF Looked, Unread, LookPCs
<1> QED
  BY <1>1, <1>2, <1>7, <1>8, ReadingStep DEF At, Busy

LEMMA ReadRootStep ==
    ASSUME IInv, NEW h \in Runners, ReadRoot(h)
    PROVE  IInv'
<1>1. TypeOK /\ OneLoop /\ At(h, "root") /\ Running(h) /\ Looked(h)
  BY DEF IInv, LoopInv, ScopeInv, ReadRoot, At, Running
<1>2. UNCHANGED <<store, table, threads, runner, lock, world, abandoned, counted>>
  BY DEF ReadRoot
<1>3. /\ loop \in [Runners -> Loops] /\ loop[h] \in Loops /\ loop[h].active
  BY <1>1, LoopsAre DEF OneLoop
<1> DEFINE w == status[Root] = "completed"
           i == [loop[h] EXCEPT !.pc = "read", !.whole = w]
<1>4. /\ i \in Loops /\ i.pc = "read" /\ i.active = loop[h].active
      /\ i.cancel = loop[h].cancel /\ i.ids = loop[h].ids /\ i.todo = loop[h].todo
  BY <1>3 DEF Loops, LoopPCs
<1>5. loop' = [loop EXCEPT ![h] = i]
  BY <1>3 DEF ReadRoot
<1> HIDE DEF i, w
<1>6. /\ Moves(h) /\ loop'[h].pc = "read"
      /\ loop'[h].ids = loop[h].ids /\ loop'[h].todo = loop[h].todo
  BY <1>1, <1>2, <1>3, <1>4, <1>5 DEF Moves
<1>7. Looked(h)'
  <2>1. status' = status /\ runner' = runner /\ loop[h].pc = "root"
    BY <1>1, <1>2 DEF store, At
  <2> QED
    BY <1>1, <1>6, <2>1 DEF Looked, Unread, LookPCs
<1> QED
  BY <1>1, <1>2, <1>6, <1>7, ReadingStep DEF At, Busy

\* A task that is not live is done with; a live one sends the loop to work.
LEMMA ReadStep ==
    ASSUME IInv, NEW h \in Runners, Read(h)
    PROVE  IInv'
<1>1. /\ TypeOK /\ OneLoop /\ At(h, "read") /\ Running(h) /\ Looked(h)
      /\ status \in [Tasks -> Statuses]
  BY DEF IInv, LoopInv, ScopeInv, TypeOK, Read, At, Running
<1>2. UNCHANGED <<store, table, threads, runner, lock, world, abandoned, counted>>
  BY DEF Read
<1>3. /\ loop \in [Runners -> Loops] /\ loop[h] \in Loops /\ loop[h].active
      /\ loop[h].todo \subseteq Tasks
  BY <1>1, LoopsAre DEF OneLoop
<1>4. PICK t \in loop[h].todo :
         loop' = IF SawLive(h, t)
                 THEN [loop EXCEPT ![h].pc = "pick", ![h].ids = {}, ![h].todo = {},
                                   ![h].whole = FALSE, ![h].bad = FALSE]
                 ELSE [loop EXCEPT ![h].todo = @ \ {t},
                                   ![h].bad = @ \/ status[t] \in {"failed", "killed"}]
  BY DEF Read
<1>5. CASE SawLive(h, t)
  <2> DEFINE i == [loop[h] EXCEPT !.pc = "pick", !.ids = {}, !.todo = {},
                                  !.whole = FALSE, !.bad = FALSE]
  <2>1. /\ i \in Loops /\ i.pc = "pick" /\ i.active = loop[h].active
        /\ i.cancel = loop[h].cancel /\ i.ids = {}
    BY <1>3 DEF Loops, LoopPCs
  <2>2. loop' = [loop EXCEPT ![h] = i]
    BY <1>3, <1>4, <1>5
  <2> HIDE DEF i
  <2>3. Moves(h) /\ loop'[h].pc = "pick" /\ loop'[h].ids = {}
    BY <1>1, <1>2, <1>3, <2>1, <2>2 DEF Moves
  <2>4. Looked(h)'
    BY <2>3, LookedNot
  <2> QED
    BY <1>1, <1>2, <2>3, <2>4, ReadingStep DEF At, Busy
<1>6. CASE ~SawLive(h, t)
  <2> DEFINE b == loop[h].bad \/ status[t] \in {"failed", "killed"}
             i == [loop[h] EXCEPT !.todo = loop[h].todo \ {t}, !.bad = b]
  <2>1. /\ i \in Loops /\ i.pc = loop[h].pc /\ i.active = loop[h].active
        /\ i.cancel = loop[h].cancel /\ i.ids = loop[h].ids /\ i.todo = loop[h].todo \ {t}
    BY <1>3 DEF Loops
  <2>2. loop' = [loop EXCEPT ![h] = i]
    BY <1>3, <1>4, <1>6
  <2> HIDE DEF i, b
  <2>3. /\ Moves(h) /\ loop'[h].pc = "read"
        /\ loop'[h].ids = loop[h].ids /\ loop'[h].todo = loop[h].todo \ {t}
    BY <1>1, <1>2, <1>3, <2>1, <2>2 DEF Moves, At
  <2>4. status' = status /\ runner' = runner /\ loop[h].pc = "read" /\ t \in Tasks
    BY <1>1, <1>2, <1>3 DEF store, At
  <2>5. status[t] # "none" => status[t] \in Ended
    BY <1>1, <1>6, <2>4 DEF SawLive, Statuses
  <2>6. Looked(h)'
    BY <1>1, <2>3, <2>4, <2>5 DEF Looked, Unread, LookPCs
  <2> QED
    BY <1>1, <1>2, <2>3, <2>6, ReadingStep DEF At, Busy
<1> QED
  BY <1>5, <1>6

\* When all that was listed has ended, what is live was not listed.
LEMMA ListedEnded ==
    ASSUME TypeOK, NEW h \in Runners, Looked(h), runner = h, loop[h].ids # {},
           loop[h].pc \in LookPCs, Unread(h) = {}
    PROVE  \A t \in LiveTasks : t \notin loop[h].ids /\ status[t] = "pending"
<1> SUFFICES ASSUME NEW t \in LiveTasks
             PROVE  t \notin loop[h].ids /\ status[t] = "pending"
  OBVIOUS
<1>1. t \in Tasks /\ status[t] \in {"pending", "running"} /\ status[t] \notin Ended
  BY DEF LiveTasks, Live, Ended
<1> QED
  BY <1>1 DEF Looked

LEMMA JudgeStep ==
    ASSUME IInv, NEW h \in Runners, Judge(h)
    PROVE  IInv'
<1>1. /\ TypeOK /\ OneLoop /\ loop[h].pc = "read" /\ Running(h) /\ Looked(h)
      /\ runner = h /\ loop[h].todo = {}
  BY DEF IInv, LoopInv, OneLoop, ScopeInv, Judge, At, Running
<1>2. UNCHANGED <<store, table, threads, runner, lock, world, abandoned, counted>>
  BY DEF Judge
<1>3. status' = status /\ runner' = h /\ h # None
  BY <1>1, <1>2, TaskRunnerAssumption DEF store
<1>4. /\ Moves(h) /\ loop'[h].pc \in {"ended", "error"} /\ loop'[h].ids = loop[h].ids
  <2>1. CASE loop[h].whole \/ ~loop[h].bad
    BY <1>1, <1>2, <2>1, ExitEffect DEF Judge
  <2>2. CASE ~(loop[h].whole \/ ~loop[h].bad)
    BY <1>1, <1>2, <2>2, GoEffect DEF Judge, LoopPCs
  <2> QED
    BY <2>1, <2>2
<1>5. /\ Root \in loop[h].ids
      /\ \A t \in Tasks : /\ t \notin loop[h].ids => status[t] # "running"
                          /\ t \in loop[h].ids => status[t] # "none" /\ status[t] \in Ended
  BY <1>1 DEF Looked, Unread, LookPCs
<1>6. Looked(h)'
  BY <1>3, <1>4, <1>5 DEF Looked, Unread, LookPCs
<1>7. \A t \in LiveTasks : t \notin loop[h].ids /\ status[t] = "pending"
  BY <1>1, <1>5, ListedEnded DEF Unread, LookPCs
<1>8. loop'[h].pc = "ended" => AllMissed'
  BY <1>3, <1>4, <1>5, <1>7 DEF AllMissed, Missed, LiveTasks
<1> QED
  BY <1>1, <1>2, <1>4, <1>6, <1>8, ReadingStep DEF Busy

LEMMA LookStep ==
    ASSUME IInv, NEW h \in Runners, Look(h)
    PROVE  IInv'
<1>1. TypeOK /\ OneLoop /\ At(h, "look") /\ Running(h) /\ loop[h].ids = {}
  BY NothingListed DEF IInv, LoopInv, Look, At, Running, LookPCs
<1>2. UNCHANGED <<store, table, threads, runner, lock, world, abandoned, counted>>
  BY DEF Look
<1>3. /\ loop \in [Runners -> Loops] /\ loop[h] \in Loops /\ loop[h].active
  BY <1>1, LoopsAre DEF OneLoop
<1>4. PICK K \in SUBSET Tasks : K = Known
  BY DEF Known
<1> DEFINE i == [loop[h] EXCEPT !.pc = "gather", !.todo = K, !.cand = {}]
<1>5. /\ i \in Loops /\ i.pc = "gather" /\ i.active = loop[h].active
      /\ i.cancel = loop[h].cancel /\ i.ids = loop[h].ids
  BY <1>3 DEF Loops, LoopPCs
<1>6. loop' = [loop EXCEPT ![h] = i]
  BY <1>3, <1>4 DEF Look
<1> HIDE DEF i
<1>7. Moves(h) /\ loop'[h].pc = "gather" /\ loop'[h].ids = {}
  BY <1>1, <1>2, <1>3, <1>5, <1>6 DEF Moves
<1>8. Looked(h)'
  BY <1>7, LookedNot
<1> QED
  BY <1>1, <1>2, <1>7, <1>8, ReadingStep DEF At, Busy

LEMMA GatherStep ==
    ASSUME IInv, NEW h \in Runners, Gather(h)
    PROVE  IInv'
<1>1. TypeOK /\ OneLoop /\ At(h, "gather") /\ Running(h) /\ loop[h].ids = {}
  BY NothingListed DEF IInv, LoopInv, Gather, At, Running, LookPCs
<1>2. UNCHANGED <<store, table, threads, runner, lock, world, abandoned, counted>>
  BY DEF Gather
<1>3. /\ loop \in [Runners -> Loops] /\ loop[h] \in Loops /\ loop[h].active
      /\ loop[h].todo \subseteq Tasks /\ loop[h].cand \subseteq Tasks
  BY <1>1, LoopsAre DEF OneLoop
<1>4. SUFFICES Moves(h) /\ loop'[h].pc \in {"gather", "save", "unrunnable"} /\ loop'[h].ids = {}
  <2>1. Looked(h)'
    BY <1>4, LookedNot
  <2> QED
    BY <1>1, <1>2, <1>4, <2>1, ReadingStep DEF At, Busy
<1>5. CASE \E t \in loop[h].todo :
              loop' = [loop EXCEPT ![h].todo = @ \ {t},
                                   ![h].cand = IF t \in LiveTasks THEN @ \cup {t} ELSE @]
  <2>1. PICK t \in loop[h].todo :
              loop' = [loop EXCEPT ![h].todo = @ \ {t},
                                   ![h].cand = IF t \in LiveTasks THEN @ \cup {t} ELSE @]
    BY <1>5
  <2>2. PICK C \in SUBSET Tasks : C = IF t \in LiveTasks THEN loop[h].cand \cup {t} ELSE loop[h].cand
    BY <1>3
  <2> DEFINE i == [loop[h] EXCEPT !.todo = loop[h].todo \ {t}, !.cand = C]
  <2>3. /\ i \in Loops /\ i.pc = loop[h].pc /\ i.active = loop[h].active
        /\ i.cancel = loop[h].cancel /\ i.ids = loop[h].ids
    BY <1>3 DEF Loops
  <2>4. loop' = [loop EXCEPT ![h] = i]
    BY <1>3, <2>1, <2>2
  <2> HIDE DEF i
  <2> QED
    BY <1>1, <1>2, <1>3, <2>3, <2>4 DEF Moves, At
<1>6. CASE Go(h, IF loop[h].cand = {} THEN "save" ELSE "unrunnable")
  <2>1. PICK pc \in {"save", "unrunnable"} : Go(h, pc)
    BY <1>6
  <2> QED
    BY <1>1, <1>2, <2>1, GoEffect DEF LoopPCs
<1> QED
  BY <1>5, <1>6 DEF Gather

LEMMA CycleEndsStep ==
    ASSUME IInv, NEW h \in Runners, CycleEnds(h)
    PROVE  IInv'
<1>1. TypeOK /\ OneLoop /\ At(h, "each") /\ Running(h) /\ loop[h].ids = {}
  BY NothingListed DEF IInv, LoopInv, CycleEnds, At, Running, LookPCs
<1>2. UNCHANGED <<store, table, threads, runner, lock, world, abandoned, counted>>
  BY DEF CycleEnds
<1>3. PICK pc \in {"save", "unrunnable"} : Go(h, pc)
  BY DEF CycleEnds
<1>4. Moves(h) /\ loop'[h].pc \in {"save", "unrunnable"} /\ loop'[h].ids = {}
  BY <1>1, <1>2, <1>3, GoEffect DEF LoopPCs
<1>5. Looked(h)'
  BY <1>4, LookedNot
<1> QED
  BY <1>1, <1>2, <1>4, <1>5, ReadingStep DEF At, Busy

LEMMA UnrunnableStep ==
    ASSUME IInv, NEW h \in Runners, Unrunnable(h)
    PROVE  IInv'
<1>1. /\ TypeOK /\ OneLoop /\ OverdueIsLeased /\ ReservedIsPending
      /\ At(h, "unrunnable") /\ Running(h) /\ loop[h].ids = {}
  BY NothingListed DEF IInv, LoopInv, ThreadInv, TableInv, Unrunnable, At, Running, LookPCs
<1>2. UNCHANGED <<threads, runner, lock, world, stalls, stops>>
  BY DEF Unrunnable
<1>3. CASE Settle(Tasks, "failed") /\ Exit(h)
  <2>1. Moves(h) /\ loop'[h].pc = "ended" /\ loop'[h].ids = {}
    BY <1>1, <1>2, <1>3, ExitEffect
  <2>2. /\ StoreEnds /\ TableLoosens /\ ReservedIsPending' /\ faults' \in 0 .. MaxFaults
        /\ abandoned' \in BOOLEAN /\ (abandoned => abandoned')
        /\ ~abandoned' => LiveTasks' = {}
    BY <1>1, <1>3, SettleEffect DEF Ended
  <2>3. ~abandoned' => AllMissed'
    BY <2>2 DEF AllMissed
  <2>4. Looked(h)'
    BY <2>1, LookedNot
  <2> QED
    BY <1>1, <1>2, <2>1, <2>2, <2>3, <2>4, CycleStep DEF At, Busy
<1>4. CASE Go(h, "top") /\ UNCHANGED <<store, table, faults, abandoned>>
  <2>1. Moves(h) /\ loop'[h].pc = "top" /\ loop'[h].ids = {}
    BY <1>1, <1>2, <1>4, GoEffect DEF LoopPCs
  <2>2. Looked(h)'
    BY <2>1, LookedNot
  <2> QED
    BY <1>1, <1>2, <1>4, <2>1, <2>2, ReadingStep DEF At, Busy, counted
<1> QED
  BY <1>3, <1>4 DEF Unrunnable

LEMMA ErrorStep ==
    ASSUME IInv, NEW h \in Runners, Error(h)
    PROVE  IInv'
<1>1. /\ TypeOK /\ OneLoop /\ OverdueIsLeased /\ ReservedIsPending /\ Looked(h)
      /\ loop[h].pc = "error" /\ Running(h) /\ runner = h /\ abandoned \in BOOLEAN
  BY DEF IInv, LoopInv, OneLoop, ThreadInv, TableInv, ScopeInv, Error, At, Running, TypeOK
<1>2. UNCHANGED <<threads, runner, lock, world, stalls, stops>>
  BY DEF Error
<1>3. Moves(h) /\ loop'[h].pc = "ended" /\ loop'[h].ids = loop[h].ids
  BY <1>1, <1>2, ExitEffect DEF Error
<1>4. runner' = h /\ h # None
  BY <1>1, <1>2, TaskRunnerAssumption
<1>5. /\ StoreEnds /\ TableLoosens /\ ReservedIsPending' /\ faults' \in 0 .. MaxFaults
      /\ abandoned' \in BOOLEAN /\ (abandoned => abandoned')
      /\ ~abandoned' => LiveTasks' = {} \/ (status' = status /\ loop[h].ids # {})
  <2>1. CASE status[Root] \in Live /\ Settle(Tasks, "failed")
    BY <1>1, <2>1, SettleEffect DEF Ended
  <2>2. CASE /\ abandoned' = (abandoned \/ loop[h].ids = {})
             /\ UNCHANGED <<store, table, faults>>
    BY <1>1, <2>2, StayPut, FaultCounted DEF store
  <2> QED
    BY <2>1, <2>2 DEF Error
<1>6. Looked(h)'
  <2>1. \A t \in Tasks : Ends(t)
    BY <1>5 DEF StoreEnds
  <2>2. ASSUME loop[h].ids # {}, NEW t \in Tasks
        PROVE  /\ t \notin loop[h].ids => status'[t] # "running"
               /\ t \in loop[h].ids => status'[t] # "none" /\ status'[t] \in Ended
    <3>1. /\ t \notin loop[h].ids => status[t] # "running"
          /\ t \in loop[h].ids => status[t] # "none" /\ status[t] \in Ended
      BY <1>1, <2>2 DEF Looked, Unread, LookPCs
    <3>2. Ends(t)
      BY <2>1
    <3> QED
      BY <3>1, <3>2 DEF Ends, Ended
  <2> QED
    BY <1>3, <1>4, <2>2 DEF Looked, Unread, LookPCs
<1>7. ~abandoned' => AllMissed'
  <2>1. CASE LiveTasks' = {}
    BY <2>1 DEF AllMissed
  <2>2. CASE status' = status /\ loop[h].ids # {}
    <3>1. \A t \in LiveTasks : t \notin loop[h].ids /\ status[t] = "pending"
      BY <1>1, <2>2, ListedEnded DEF Unread, LookPCs
    <3> QED
      BY <1>3, <1>4, <2>2, <3>1 DEF AllMissed, Missed, LiveTasks
  <2> QED
    BY <1>5, <2>1, <2>2
<1> QED
  BY <1>1, <1>2, <1>3, <1>5, <1>6, <1>7, CycleStep DEF Busy

LEMMA UnsavedStep ==
    ASSUME IInv, NEW h \in Runners, Unsaved(h)
    PROVE  IInv'
<1>1. /\ TypeOK /\ OneLoop /\ Looked(h) /\ Running(h)
      /\ loop[h].pc \in {"save", "unrunnable", "error"} /\ runner = h
  BY DEF IInv, LoopInv, OneLoop, ScopeInv, Unsaved, Running
<1>2. /\ UNCHANGED <<store, table, threads, runner, lock, world, stalls, stops>>
      /\ CanFail /\ Fault /\ abandoned' = TRUE
  BY DEF Unsaved, Abandon
<1>3. Moves(h) /\ loop'[h].pc = "ended" /\ loop'[h].ids = loop[h].ids
  BY <1>1, <1>2, ExitEffect DEF Unsaved
<1>4. StoreEnds /\ TableLoosens /\ ReservedIsPending' /\ faults' \in 0 .. MaxFaults
  BY <1>1, <1>2, StayPut, FaultCounted
<1>5. Looked(h)'
  <2>1. status' = status /\ runner' = runner
    BY <1>2 DEF store
  <2> QED
    BY <1>1, <1>3, <2>1 DEF Looked, Unread, LookPCs
<1> QED
  BY <1>1, <1>2, <1>3, <1>4, <1>5, CycleStep DEF Busy

-----------------------------------------------------------------------------
(* From the list of runnable tasks to a dispatched thread *)

LEMMA OthersAreIdle ==
    ASSUME LoopInv, NEW h \in Runners, Moves(h)
    PROVE  /\ \A g \in Runners : Claims(g, loop[g].at) => g = h
           /\ \A g \in Runners \ {h} : loop'[g].pc \notin Busy
BY DEF LoopInv, OneLoop, Moves, Running, Busy, Claims, At

LEMMA KnowsOf ==
    ASSUME LoopInv, NEW h \in Runners, Moves(h),
           loop'[h].pc \in Busy => loop'[h].todo \subseteq Spare',
           loop'[h].pc = "claim" =>
               loop'[h].at \in Spare' \ loop'[h].todo /\ adm'[loop'[h].at] = "running",
           loop'[h].pc = "dispatch" =>
               loop'[h].at \in InFlight' /\ exec'[loop'[h].at] = "granted"
    PROVE  LoopKnows'
<1>1. \A g \in Runners \ {h} : loop'[g].pc \notin Busy
  BY OthersAreIdle
<1> QED
  BY <1>1 DEF LoopKnows, At, Busy

LEMMA SpareSame ==
    ASSUME UNCHANGED <<status, threads>>
    PROVE  Spare' = Spare
BY DEF Spare, Known, InFlight, threads

\* The store stays and the loop goes on.
LEMMA ScopeSame ==
    ASSUME TypeOK, LoopInv, ScopeInv, NEW h \in Runners, Moves(h), Looked(h)',
           UNCHANGED <<status, abandoned>>, loop'[h].pc # "ended"
    PROVE  ScopeInv'
<1>1. LiveTasks' = LiveTasks /\ status'[Root] # "none"
  BY DEF LiveTasks, ScopeInv
<1> QED
  BY <1>1, ScopeMoved

LEMMA PickStep ==
    ASSUME IInv, NEW h \in Runners, Pick(h)
    PROVE  IInv'
<1>1. TypeOK /\ OneLoop /\ LoopInv /\ At(h, "pick") /\ Running(h) /\ loop[h].ids = {}
  BY NothingListed DEF IInv, LoopInv, Pick, At, Running, LookPCs
<1>2. UNCHANGED <<store, table, threads, runner, lock, world, abandoned, counted>>
  BY DEF Pick
<1>3. /\ loop \in [Runners -> Loops] /\ loop[h] \in Loops /\ loop[h].active
  BY <1>1, LoopsAre DEF OneLoop
<1>4. CASE Runnable = {}
  <2>1. PICK pc \in {"save", "look"} : Go(h, pc)
    BY <1>4 DEF Pick, Go
  <2>2. Moves(h) /\ loop'[h].pc \in {"save", "look"} /\ loop'[h].ids = {}
    BY <1>1, <1>2, <2>1, GoEffect DEF LoopPCs
  <2>3. Looked(h)'
    BY <2>2, LookedNot
  <2> QED
    BY <1>1, <1>2, <2>2, <2>3, ReadingStep DEF At, Busy
<1>5. CASE Runnable # {}
  <2>1. PICK R \in SUBSET Tasks : R = Runnable
    BY DEF Runnable
  <2> DEFINE i == [loop[h] EXCEPT !.pc = "each", !.todo = R,
                                  !.did = FALSE, !.blocked = FALSE, !.cand = {}]
  <2>2. /\ i \in Loops /\ i.pc = "each" /\ i.todo = R
        /\ i.active = loop[h].active /\ i.cancel = loop[h].cancel /\ i.ids = loop[h].ids
    BY <1>3 DEF Loops, LoopPCs
  <2>3. loop' = [loop EXCEPT ![h] = i]
    BY <1>3, <1>5, <2>1 DEF Pick
  <2> HIDE DEF i
  <2>4. Moves(h) /\ loop'[h].pc = "each" /\ loop'[h].todo = R /\ loop'[h].ids = {}
    BY <1>1, <1>2, <1>3, <2>2, <2>3 DEF Moves
  <2>5. StoreEnds /\ TableLoosens /\ ReservedIsPending'
    BY <1>2, StayPut
  <2>6. R \subseteq Spare
    <3> SUFFICES ASSUME NEW t \in Runnable PROVE t \in Spare
      BY <2>1
    <3>1. t \in Tasks /\ status[t] = "pending"
      BY DEF Runnable
    <3>2. \A x \in InFlight : job[x] # t
      BY <3>1 DEF IInv, ThreadInv, ThreadsAreClaimed
    <3> QED
      BY <3>1, <3>2 DEF Spare, Known
  <2>7. ThreadInv'
    BY <1>2, <2>5, ThreadsUnchanged DEF IInv
  <2>8. TableInv'
    <3>1. ClaimsStay
      BY <1>1, <2>4, OthersAreIdle DEF ClaimsStay, At, Claims
    <3> QED
      BY <1>2, <2>5, <3>1, QuietTable DEF IInv
  <2>9. LoopKnows'
    <3>1. Spare' = Spare
      BY <1>2, SpareSame DEF store
    <3> QED
      BY <1>1, <2>4, <2>6, <3>1, KnowsOf DEF Busy
  <2>10. LoopInv'
    BY <1>1, <2>4, <2>9, LoopMoved DEF LoopInv
  <2>11. Looked(h)'
    BY <2>4, LookedNot
  <2>12. ScopeInv'
    <3>1. UNCHANGED <<status, abandoned>> /\ loop'[h].pc # "ended"
      BY <1>2, <2>4 DEF store
    <3> QED
      BY <2>4, <2>11, <3>1, ScopeSame DEF IInv
  <2>13. TypeOK'
    BY <1>1, <1>2, <2>4, <2>5, CycleTypes DEF counted, TypeOK
  <2> QED
    BY <2>7, <2>8, <2>10, <2>12, <2>13 DEF IInv
<1> QED
  BY <1>4, <1>5

\* Each passes one task of the list by, or takes a place for it.
LEMMA EachEffect ==
    ASSUME IInv, NEW h \in Runners, Each(h)
    PROVE  \E t \in loop[h].todo :
              /\ Moves(h) /\ loop'[h].todo = loop[h].todo \ {t}
              /\ loop'[h].ids = {} /\ queued' \subseteq Tasks
              /\ \/ loop'[h].pc = "each" /\ adm' = adm
                 \/ /\ loop'[h].pc = "claim" /\ loop'[h].at = t
                    /\ adm' = [adm EXCEPT ![t] = "running"]
                    /\ adm[t] = "reserved" \/ HasRoom
<1>1. TypeOK /\ OneLoop /\ At(h, "each") /\ Running(h) /\ loop[h].ids = {}
  BY NothingListed DEF IInv, LoopInv, Each, At, Running, LookPCs
<1>2. UNCHANGED <<runner, lock>>
  BY DEF Each
<1>3. /\ loop \in [Runners -> Loops] /\ loop[h] \in Loops /\ loop[h].active
      /\ loop[h].todo \subseteq Tasks /\ loop[h].cand \subseteq Tasks /\ loop[h].pc = "each"
  BY <1>1, LoopsAre DEF OneLoop, At
<1>4. PICK t \in loop[h].todo :
         \/ /\ t \in unmatched
            /\ loop' = [loop EXCEPT ![h].todo = @ \ {t}, ![h].cand = @ \cup {t}]
            /\ UNCHANGED table
         \/ /\ t \notin unmatched
            /\ Acquire(t)
            /\ loop' = IF Acquires(t)
                       THEN [loop EXCEPT ![h].todo = @ \ {t}, ![h].pc = "claim", ![h].at = t]
                       ELSE [loop EXCEPT ![h].todo = @ \ {t}, ![h].blocked = TRUE]
  BY DEF Each
<1>5. t \in Tasks /\ queued \subseteq Tasks
  BY <1>1, <1>3 DEF TypeOK
<1>6. CASE /\ loop' = [loop EXCEPT ![h].todo = @ \ {t}, ![h].cand = @ \cup {t}]
           /\ UNCHANGED table
  <2> DEFINE i == [loop[h] EXCEPT !.todo = @ \ {t}, !.cand = @ \cup {t}]
  <2>1. /\ i \in Loops /\ i.pc = "each" /\ i.todo = loop[h].todo \ {t}
        /\ i.active = loop[h].active /\ i.cancel = loop[h].cancel /\ i.ids = loop[h].ids
    BY <1>3, <1>5 DEF Loops
  <2>2. loop' = [loop EXCEPT ![h] = i]
    BY <1>3, <1>6
  <2> HIDE DEF i
  <2>3. Moves(h) /\ loop'[h] = i /\ i.ids = {}
    BY <1>1, <1>2, <1>3, <2>1, <2>2 DEF Moves
  <2> QED
    BY <1>5, <1>6, <2>1, <2>3 DEF table
<1>7. CASE /\ Acquire(t) /\ Acquires(t)
           /\ loop' = [loop EXCEPT ![h].todo = @ \ {t}, ![h].pc = "claim", ![h].at = t]
  <2> DEFINE i == [loop[h] EXCEPT !.todo = @ \ {t}, !.pc = "claim", !.at = t]
  <2>1. /\ i \in Loops /\ i.pc = "claim" /\ i.at = t /\ i.todo = loop[h].todo \ {t}
        /\ i.active = loop[h].active /\ i.cancel = loop[h].cancel /\ i.ids = loop[h].ids
    BY <1>3, <1>5 DEF Loops, LoopPCs
  <2>2. loop' = [loop EXCEPT ![h] = i]
    BY <1>3, <1>7
  <2> HIDE DEF i
  <2>3. Moves(h) /\ loop'[h] = i /\ i.ids = {}
    BY <1>1, <1>2, <1>3, <2>1, <2>2 DEF Moves
  <2>4. CASE adm[t] = "reserved"
    BY <1>5, <1>7, <2>1, <2>3, <2>4 DEF Acquire
  <2>5. CASE adm[t] # "reserved"
    <3>1. adm[t] = "none" /\ HasRoom
      BY <1>7, <2>5 DEF Acquires
    <3>2. Admitted(t, "running")
      BY <1>7, <3>1 DEF Acquire
    <3>3. adm' = [adm EXCEPT ![t] = "running"] /\ queued' = queued \ {t}
      BY <3>1, <3>2 DEF Admitted
    <3> QED
      BY <1>5, <2>1, <2>3, <3>1, <3>3
  <2> QED
    BY <2>4, <2>5
<1>8. CASE /\ Acquire(t) /\ ~Acquires(t)
           /\ loop' = [loop EXCEPT ![h].todo = @ \ {t}, ![h].blocked = TRUE]
  <2> DEFINE i == [loop[h] EXCEPT !.todo = @ \ {t}, !.blocked = TRUE]
  <2>1. /\ i \in Loops /\ i.pc = "each" /\ i.todo = loop[h].todo \ {t}
        /\ i.active = loop[h].active /\ i.cancel = loop[h].cancel /\ i.ids = loop[h].ids
    BY <1>3, <1>5 DEF Loops
  <2>2. loop' = [loop EXCEPT ![h] = i]
    BY <1>3, <1>8
  <2> HIDE DEF i
  <2>3. Moves(h) /\ loop'[h] = i /\ i.ids = {}
    BY <1>1, <1>2, <1>3, <2>1, <2>2 DEF Moves
  <2>4. adm' = adm /\ queued' \subseteq Tasks
    BY <1>5, <1>8 DEF Acquire, Acquires, Admitted, table
  <2> QED
    BY <2>1, <2>3, <2>4
<1> QED
  BY <1>4, <1>6, <1>7, <1>8

LEMMA EachStep ==
    ASSUME IInv, NEW h \in Runners, Each(h)
    PROVE  IInv'
<1>1. TypeOK /\ LoopInv /\ TableInv /\ ThreadInv /\ At(h, "each")
  BY DEF IInv, Each
<1>2. UNCHANGED <<store, threads, runner, lock, world, abandoned, counted>>
  BY DEF Each
<1>3. PICK t \in loop[h].todo :
         /\ Moves(h) /\ loop'[h].todo = loop[h].todo \ {t}
         /\ loop'[h].ids = {} /\ queued' \subseteq Tasks
         /\ \/ loop'[h].pc = "each" /\ adm' = adm
            \/ /\ loop'[h].pc = "claim" /\ loop'[h].at = t
               /\ adm' = [adm EXCEPT ![t] = "running"]
               /\ adm[t] = "reserved" \/ HasRoom
  BY EachEffect
<1>4. loop[h].todo \subseteq Spare /\ Spare \subseteq Tasks /\ Spare' = Spare
  BY <1>1, <1>2, SpareSame DEF LoopInv, LoopKnows, At, Spare, Known, store
<1>5. t \in Tasks /\ adm \in [Tasks -> Phases]
  BY <1>1, <1>3, <1>4 DEF TypeOK
<1>6. StoreEnds /\ ThreadInv'
  BY <1>1, <1>2, StoreSame, ThreadsUnchanged DEF ThreadInv
<1>7. status' = status /\ exec' = exec /\ job' = job
  BY <1>2 DEF store, threads
<1>8. ScopeInv'
  <2>1. Looked(h)'
    BY <1>3, LookedNot
  <2> QED
    BY <1>1, <1>2, <1>3, <1>7, <2>1, ScopeSame DEF IInv
<1>9. OneLoop' /\ ContinueIsAlone'
  BY <1>1, <1>3, LoopMoved
<1>10. CASE loop'[h].pc = "each" /\ adm' = adm
  <2>1. TableLoosens /\ ReservedIsPending'
    BY <1>1, <1>3, <1>5, <1>7, <1>10 DEF TableLoosens, TableInv, ReservedIsPending
  <2>2. ClaimsStay
    BY <1>1, <1>3, OthersAreIdle DEF ClaimsStay, At, Claims
  <2>3. TableInv'
    BY <1>1, <1>2, <1>6, <2>1, <2>2, QuietTable
  <2>4. LoopKnows'
    BY <1>1, <1>3, <1>4, <1>10, KnowsOf
  <2>5. TypeOK'
    BY <1>1, <1>2, <1>3, <1>6, <2>1, CycleTypes DEF counted, TypeOK
  <2> QED
    BY <1>6, <1>8, <1>9, <2>3, <2>4, <2>5 DEF IInv, LoopInv
<1>11. CASE /\ loop'[h].pc = "claim" /\ loop'[h].at = t
            /\ adm' = [adm EXCEPT ![t] = "running"] /\ (adm[t] = "reserved" \/ HasRoom)
  <2>1. adm'[t] = "running" /\ \A u \in Tasks : u # t => adm'[u] = adm[u]
    BY <1>5, <1>11
  <2>2. adm' \in [Tasks -> Phases]
    BY <1>5, <1>11 DEF Phases
  <2>3. Seated'
    <3> SUFFICES ASSUME NEW x \in Executions
                 PROVE  /\ exec[x] \in {"granted", "working"} => adm'[job[x]] = "running"
                        /\ exec[x] = "waiting" => adm'[job[x]] = "waiting"
      BY <1>7 DEF Seated
    <3>1. exec[x] \in {"granted", "working", "waiting"} => job[x] \in Tasks /\ job[x] # t
      BY <1>1, <1>3, <1>4, JobIsTask DEF ThreadInv, Spare, InFlight
    <3> QED
      BY <1>1, <2>1, <3>1 DEF TableInv, Seated
  <2>4. Owned'
    <3> SUFFICES ASSUME NEW u \in Tasks, adm'[u] \in {"running", "waiting"}
                 PROVE  (\E x \in Executions : Keeps(x, u)') \/ (\E g \in Runners : Claims(g, u)')
      BY DEF Owned
    <3>1. CASE u = t
      BY <1>11, <3>1 DEF Claims, At
    <3>2. CASE u # t
      <4>1. (\E x \in Executions : Keeps(x, u)) \/ (\E g \in Runners : Claims(g, u))
        BY <1>1, <2>1, <3>2 DEF TableInv, Owned
      <4>2. \A g \in Runners : ~Claims(g, u)
        BY <1>1, <1>3 DEF Claims, At, LoopInv, OneLoop, Moves, Running
      <4> QED
        BY <1>7, <4>1, <4>2 DEF Keeps
    <3> QED
      BY <3>1, <3>2
  <2>5. ReservedIsPending'
    BY <1>1, <1>7, <2>1 DEF TableInv, ReservedIsPending
  <2>6. WithinLimit'
    <3>1. CASE adm[t] = "reserved"
      <4>1. Occupying' \subseteq Occupying
        BY <2>1, <3>1 DEF Occupying
      <4> QED
        BY <1>1, <4>1, NoNewPlace DEF TableInv
    <3>2. CASE HasRoom
      <4>1. Occupying' \subseteq Occupying \cup {t}
        BY <2>1 DEF Occupying
      <4> QED
        BY <3>2, <4>1, OneNewPlace
    <3> QED
      BY <1>11, <3>1, <3>2
  <2>7. LoopKnows'
    BY <1>1, <1>3, <1>4, <1>11, <2>1, KnowsOf
  <2>8. TypeOK'
    BY <1>1, <1>2, <1>3, <1>6, <2>2, QuietTypes DEF TypeOK, counted, threads, world, Moves
  <2> QED
    BY <1>6, <1>8, <1>9, <2>3, <2>4, <2>5, <2>6, <2>7, <2>8 DEF IInv, TableInv, LoopInv
<1> QED
  BY <1>3, <1>10, <1>11

\* A place that is given back leaves every thread its own.
LEMMA PlaceDropped ==
    ASSUME TypeOK, ThreadInv, TableInv, NEW t \in Spare,
           adm' = [adm EXCEPT ![t] = "none"], UNCHANGED <<status, threads>>,
           \A g \in Runners : Claims(g, loop[g].at) => loop[g].at = t
    PROVE  TableInv' /\ adm' \in [Tasks -> Phases]
<1>1. t \in Tasks /\ adm \in [Tasks -> Phases] /\ exec' = exec /\ job' = job
  BY DEF TypeOK, Spare, Known, threads
<1>2. adm'[t] = "none" /\ \A u \in Tasks : u # t => adm'[u] = adm[u]
  BY <1>1
<1>3. adm' \in [Tasks -> Phases]
  BY <1>1 DEF Phases
<1>4. Seated'
  <2> SUFFICES ASSUME NEW x \in Executions
               PROVE  /\ exec[x] \in {"granted", "working"} => adm'[job[x]] = "running"
                      /\ exec[x] = "waiting" => adm'[job[x]] = "waiting"
    BY <1>1 DEF Seated
  <2>1. exec[x] \in {"granted", "working", "waiting"} => job[x] \in Tasks /\ job[x] # t
    BY JobIsTask DEF ThreadInv, Spare, InFlight
  <2> QED
    BY <1>2, <2>1 DEF TableInv, Seated
<1>5. Owned'
  <2> SUFFICES ASSUME NEW u \in Tasks, adm'[u] \in {"running", "waiting"}
               PROVE  \E x \in Executions : Keeps(x, u)'
    BY DEF Owned
  <2>1. u # t /\ adm[u] \in {"running", "waiting"}
    BY <1>2
  <2>2. \A g \in Runners : ~Claims(g, u)
    BY <2>1 DEF Claims
  <2> QED
    BY <1>1, <2>1, <2>2 DEF TableInv, Owned, Keeps
<1>6. ReservedIsPending'
  BY <1>2 DEF TableInv, ReservedIsPending
<1>7. WithinLimit'
  <2>1. Occupying' \subseteq Occupying
    BY <1>2 DEF Occupying
  <2> QED
    BY <2>1, NoNewPlace DEF TableInv
<1> QED
  BY <1>3, <1>4, <1>5, <1>6, <1>7 DEF TableInv

\* A claim makes a thread of an unused execution, or drops the permit.
LEMMA ClaimEffect ==
    ASSUME IInv, NEW h \in Runners, Claim(h)
    PROVE  LET t == loop[h].at IN
           \/ \E x \in Executions :
                 /\ t \in Runnable /\ exec[x] = "none"
                 /\ status' = [status EXCEPT ![t] = "running"]
                 /\ lease' = [lease EXCEPT ![t] = x]
                 /\ exec' = [exec EXCEPT ![x] = "granted"]
                 /\ job' = [job EXCEPT ![x] = t]
                 /\ Moves(h) /\ loop'[h].pc = "dispatch" /\ loop'[h].at = x
                 /\ loop'[h].todo = loop[h].todo /\ loop'[h].ids = {}
                 /\ UNCHANGED <<table, faults>>
           \/ /\ adm' = [adm EXCEPT ![t] = "none"] /\ UNCHANGED <<queued, status, lease, threads>>
              /\ Moves(h) /\ loop'[h].pc \in {"each", "error"}
              /\ loop'[h].todo = loop[h].todo /\ loop'[h].ids = {}
              /\ faults' \in 0 .. MaxFaults
<1>1. TypeOK /\ OneLoop /\ At(h, "claim") /\ Running(h) /\ loop[h].ids = {}
  BY NothingListed DEF IInv, LoopInv, Claim, At, Running, LookPCs
<1>2. UNCHANGED <<runner, lock>>
  BY DEF Claim
<1>3. /\ loop \in [Runners -> Loops] /\ loop[h] \in Loops /\ loop[h].active
      /\ loop[h].pc = "claim"
  BY <1>1, LoopsAre DEF OneLoop, At
<1> DEFINE t == loop[h].at
<1>5. CASE /\ t \in Runnable /\ Unused # {}
           /\ status' = [status EXCEPT ![t] = "running"]
           /\ lease' = [lease EXCEPT ![t] = CHOOSE y \in Unused : TRUE]
           /\ exec' = [exec EXCEPT ![CHOOSE y \in Unused : TRUE] = "granted"]
           /\ job' = [job EXCEPT ![CHOOSE y \in Unused : TRUE] = t]
           /\ loop' = [loop EXCEPT ![h].pc = "dispatch", ![h].at = CHOOSE y \in Unused : TRUE]
           /\ UNCHANGED <<table, faults>>
  <2>1. PICK x \in Unused : x = CHOOSE y \in Unused : TRUE
    BY <1>5
  <2>2. x \in Executions /\ exec[x] = "none"
    BY DEF Unused
  <2> DEFINE i == [loop[h] EXCEPT !.pc = "dispatch", !.at = x]
  <2>3. /\ i \in Loops /\ i.pc = "dispatch" /\ i.at = x /\ i.todo = loop[h].todo
        /\ i.active = loop[h].active /\ i.cancel = loop[h].cancel /\ i.ids = loop[h].ids
    BY <1>3, <2>2 DEF Loops, LoopPCs
  <2>4. loop' = [loop EXCEPT ![h] = i]
    BY <1>3, <1>5, <2>1
  <2> HIDE DEF i
  <2>5. Moves(h) /\ loop'[h] = i /\ i.ids = {}
    BY <1>1, <1>2, <1>3, <2>3, <2>4 DEF Moves
  <2> QED
    BY <1>5, <2>1, <2>2, <2>3, <2>5
<1>6. CASE /\ DropPermit(t)
           /\ \/ /\ loop' = [loop EXCEPT ![h].pc = "each", ![h].at = None]
                 /\ UNCHANGED faults
              \/ /\ loop' = [loop EXCEPT ![h].pc = "error", ![h].at = None]
                 /\ CanFail /\ Fault
           /\ UNCHANGED <<status, lease, threads>>
  <2>1. PICK pc \in {"each", "error"} :
           /\ loop' = [loop EXCEPT ![h].pc = pc, ![h].at = None]
           /\ \/ pc = "each" /\ UNCHANGED faults
              \/ CanFail /\ Fault
    BY <1>6
  <2> DEFINE i == [loop[h] EXCEPT !.pc = pc, !.at = None]
  <2>3. /\ i \in Loops /\ i.pc = pc /\ i.todo = loop[h].todo
        /\ i.active = loop[h].active /\ i.cancel = loop[h].cancel /\ i.ids = loop[h].ids
    BY <1>3 DEF Loops, LoopPCs
  <2>4. loop' = [loop EXCEPT ![h] = i]
    BY <1>3, <2>1
  <2> HIDE DEF i
  <2>5. Moves(h) /\ loop'[h] = i /\ i.ids = {}
    BY <1>1, <1>2, <1>3, <2>3, <2>4 DEF Moves
  <2>6. faults' \in 0 .. MaxFaults
    BY <1>1, <2>1, FaultCounted
  <2> QED
    BY <1>6, <2>3, <2>5, <2>6 DEF DropPermit
<1> QED
  BY <1>5, <1>6 DEF Claim

\* The claim that is granted.
Grants(h, t, x) ==
    /\ status' = [status EXCEPT ![t] = "running"]
    /\ lease' = [lease EXCEPT ![t] = x]
    /\ exec' = [exec EXCEPT ![x] = "granted"]
    /\ job' = [job EXCEPT ![x] = t]
    /\ Moves(h) /\ loop'[h].pc = "dispatch" /\ loop'[h].at = x
    /\ loop'[h].todo = loop[h].todo /\ loop'[h].ids = {}
    /\ UNCHANGED <<table, overdue, runner, lock, world, abandoned, counted>>

LEMMA GrantStep ==
    ASSUME IInv, NEW h \in Runners, At(h, "claim"),
           NEW t \in Tasks, t = loop[h].at, status[t] = "pending",
           NEW x \in Executions, exec[x] = "none", Grants(h, t, x)
    PROVE  IInv'
<1>1. TypeOK /\ LoopInv /\ TableInv /\ ThreadInv /\ Moves(h)
  BY DEF IInv, Grants
<1>2. /\ status \in [Tasks -> Statuses] /\ lease \in [Tasks -> Executions \cup {None}]
      /\ exec \in [Executions -> ExecPCs] /\ job \in [Executions -> Tasks \cup {None}]
  BY <1>1 DEF TypeOK
<1>3. /\ status'[t] = "running" /\ lease'[t] = x /\ exec'[x] = "granted" /\ job'[x] = t
      /\ \A u \in Tasks : u # t => status'[u] = status[u] /\ lease'[u] = lease[u]
      /\ \A y \in Executions : y # x => exec'[y] = exec[y] /\ job'[y] = job[y]
  BY <1>2 DEF Grants
<1>4. /\ status' \in [Tasks -> Statuses] /\ lease' \in [Tasks -> Executions \cup {None}]
      /\ exec' \in [Executions -> ExecPCs] /\ job' \in [Executions -> Tasks \cup {None}]
  BY <1>2 DEF Grants, Statuses, Live, ExecPCs
<1>5. /\ t \in Spare /\ t \notin loop[h].todo /\ adm[t] = "running"
      /\ loop[h].todo \subseteq Spare /\ Spare \subseteq Tasks
  BY <1>1 DEF LoopInv, LoopKnows, At, Spare, Known
<1>6. InFlight' = InFlight \cup {x} /\ x \notin InFlight
  BY <1>3 DEF InFlight
<1>7. None \notin Tasks /\ None \notin Executions /\ Root \in Tasks
  BY TaskRunnerAssumption DEF Tasks
<1>8. adm' = adm /\ queued' = queued /\ overdue' = overdue /\ abandoned' = abandoned
  BY DEF Grants, table
<1>9. \A u \in Tasks : lease[u] # None => status[u] = "running" /\ job[lease[u]] = u
  BY <1>1 DEF TypeOK
<1>10. job[x] = None
  BY <1>1 DEF ThreadInv, JobGiven
<1>11. TypeOK'
  <2>1. \A u \in Tasks : lease'[u] # None => status'[u] = "running" /\ job'[lease'[u]] = u
    <3> SUFFICES ASSUME NEW u \in Tasks, lease'[u] # None
                 PROVE  status'[u] = "running" /\ job'[lease'[u]] = u
      OBVIOUS
    <3>1. CASE u = t
      BY <1>3, <3>1
    <3>2. CASE u # t
      <4>1. lease[u] # None /\ lease[u] \in Executions /\ job[lease[u]] = u
        BY <1>2, <1>3, <1>9, <3>2
      <4>2. lease[u] # x
        BY <1>7, <1>10, <4>1
      <4> QED
        BY <1>3, <1>9, <3>2, <4>1, <4>2
    <3> QED
      BY <3>1, <3>2
  <2> QED
    BY <1>1, <1>4, <1>8, <2>1 DEF TypeOK, Grants, Moves, counted, world
<1>12. ThreadInv'
  <2>1. JobGiven'
    BY <1>1, <1>3, <1>7 DEF ThreadInv, JobGiven
  <2>2. ThreadsAreClaimed'
    <3> SUFFICES ASSUME NEW y \in InFlight' PROVE status'[job'[y]] \notin {"none", "pending"}
      BY DEF ThreadsAreClaimed
    <3>1. CASE y = x
      BY <1>3, <3>1
    <3>2. CASE y # x
      <4>1. y \in InFlight /\ y \in Executions
        BY <1>6, <3>2 DEF InFlight
      <4>2. job[y] \in Tasks /\ job[y] # t
        BY <1>1, <1>5, <4>1, JobIsTask DEF ThreadInv, Spare, InFlight
      <4> QED
        BY <1>1, <1>3, <3>2, <4>1, <4>2 DEF ThreadInv, ThreadsAreClaimed
    <3> QED
      BY <3>1, <3>2
  <2>3. OneThread'
    <3> SUFFICES ASSUME NEW y \in InFlight', NEW z \in InFlight', job'[y] = job'[z] PROVE y = z
      BY DEF OneThread
    <3>1. InFlight \subseteq Executions
      BY DEF InFlight
    <3>2. \A w \in InFlight : job'[w] = job[w] /\ job[w] # t
      BY <1>3, <1>5, <1>6, <3>1 DEF Spare
    <3> QED
      BY <1>1, <1>3, <1>6, <3>2 DEF ThreadInv, OneThread
  <2>4. OverdueIsLeased'
    <3>1. overdue \subseteq Tasks
      BY <1>1 DEF TypeOK
    <3> QED
      BY <1>1, <1>3, <1>7, <1>8, <3>1 DEF ThreadInv, OverdueIsLeased
  <2> QED
    BY <2>1, <2>2, <2>3, <2>4 DEF ThreadInv
<1>13. TableInv'
  <2>1. Seated'
    BY <1>1, <1>3, <1>5, <1>8 DEF TableInv, Seated
  <2>2. Owned'
    <3> SUFFICES ASSUME NEW u \in Tasks, adm[u] \in {"running", "waiting"}
                 PROVE  \E y \in Executions : Keeps(y, u)'
      BY <1>8 DEF Owned
    <3>1. CASE u = t
      BY <1>3, <3>1 DEF Keeps
    <3>2. CASE u # t
      <4>1. \A g \in Runners : ~Claims(g, u)
        BY <1>1, <3>2, OthersAreIdle DEF Claims
      <4>2. PICK y \in Executions : Keeps(y, u)
        BY <1>1, <4>1 DEF TableInv, Owned
      <4>3. y # x
        BY <4>2 DEF Keeps
      <4> QED
        BY <1>3, <4>2, <4>3 DEF Keeps
    <3> QED
      BY <3>1, <3>2
  <2>3. ReservedIsPending'
    BY <1>1, <1>3, <1>5, <1>8 DEF TableInv, ReservedIsPending
  <2>4. WithinLimit'
    BY <1>1, <1>8 DEF TableInv, WithinLimit, Occupying
  <2> QED
    BY <2>1, <2>2, <2>3, <2>4 DEF TableInv
<1>14. LoopInv'
  <2>1. loop[h].todo \subseteq Spare'
    <3> SUFFICES ASSUME NEW u \in loop[h].todo PROVE u \in Spare'
      OBVIOUS
    <3>1. u \in Spare /\ u \in Tasks /\ u # t
      BY <1>5
    <3>2. \A y \in InFlight' : job'[y] # u
      <4>1. InFlight \subseteq Executions
        BY DEF InFlight
      <4> QED
        BY <1>3, <1>6, <3>1, <4>1 DEF Spare
    <3> QED
      BY <1>3, <3>1, <3>2 DEF Spare, Known
  <2>2. LoopKnows'
    BY <1>1, <1>3, <1>6, <2>1, KnowsOf DEF Grants
  <2> QED
    BY <1>1, <2>2, LoopMoved DEF LoopInv
<1>15. ScopeInv'
  <2>1. status'[Root] # "none"
    BY <1>3, <1>7 DEF IInv, ScopeInv
  <2>2. LiveTasks # {}
    BY DEF LiveTasks, Live
  <2>3. Looked(h)'
    BY LookedNot DEF Grants
  <2> QED
    BY <1>1, <1>8, <2>1, <2>2, <2>3, ScopeMoved DEF IInv, Grants
<1> QED
  BY <1>11, <1>12, <1>13, <1>14, <1>15 DEF IInv

LEMMA ClaimStep ==
    ASSUME IInv, NEW h \in Runners, Claim(h)
    PROVE  IInv'
<1>1. TypeOK /\ LoopInv /\ TableInv /\ ThreadInv /\ At(h, "claim")
  BY DEF IInv, Claim
<1>2. UNCHANGED <<overdue, runner, lock, world, abandoned, stalls, stops>>
  BY DEF Claim
<1>3. /\ loop[h].at \in Spare /\ Spare \subseteq Tasks
      /\ loop[h].todo \subseteq Spare
  BY <1>1 DEF LoopInv, LoopKnows, At, Spare, Known
<1>4. PICK t \in Tasks : t = loop[h].at
  BY <1>3
<1>5. ASSUME NEW x \in Executions, t \in Runnable, exec[x] = "none",
             status' = [status EXCEPT ![t] = "running"],
             lease' = [lease EXCEPT ![t] = x],
             exec' = [exec EXCEPT ![x] = "granted"],
             job' = [job EXCEPT ![x] = t],
             Moves(h), loop'[h].pc = "dispatch", loop'[h].at = x,
             loop'[h].todo = loop[h].todo, loop'[h].ids = {}, UNCHANGED <<table, faults>>
      PROVE  IInv'
  <2>1. Grants(h, t, x)
    BY <1>2, <1>5 DEF Grants, counted
  <2>2. status[t] = "pending"
    BY <1>5 DEF Runnable
  <2> QED
    BY <1>1, <1>4, <1>5, <2>1, <2>2, GrantStep
<1>6. ASSUME adm' = [adm EXCEPT ![t] = "none"], UNCHANGED <<queued, status, lease, threads>>,
             Moves(h), loop'[h].pc \in {"each", "error"}, loop'[h].todo = loop[h].todo,
             loop'[h].ids = {}, faults' \in 0 .. MaxFaults
      PROVE  IInv'
  <2>1. TableInv' /\ adm' \in [Tasks -> Phases]
    BY <1>1, <1>3, <1>4, <1>6, OthersAreIdle, PlaceDropped
  <2>2. StoreEnds
    BY <1>1, <1>2, <1>6, StoreSame DEF store, ThreadInv
  <2>3. ThreadInv'
    BY <1>1, <1>6, <2>2, ThreadsUnchanged
  <2>4. Spare' = Spare
    BY <1>6, SpareSame
  <2>5. LoopInv'
    BY <1>1, <1>3, <1>6, <2>4, KnowsOf, LoopMoved DEF LoopInv
  <2>6. ScopeInv'
    <3>1. Looked(h)'
      BY <1>6, LookedNot
    <3> QED
      BY <1>1, <1>2, <1>6, <3>1, ScopeSame DEF IInv
  <2>7. TypeOK'
    BY <1>1, <1>2, <1>6, <2>1, <2>2, QuietTypes DEF TypeOK, threads, world, Moves
  <2> QED
    BY <2>1, <2>3, <2>5, <2>6, <2>7 DEF IInv
<1> QED
  BY <1>4, <1>5, <1>6, ClaimEffect

LEMMA DispatchStep ==
    ASSUME IInv, NEW h \in Runners, Dispatch(h)
    PROVE  IInv'
<1>1. /\ TypeOK /\ LoopInv /\ TableInv /\ ThreadInv /\ At(h, "dispatch") /\ Running(h) /\ OneLoop
      /\ loop[h].ids = {}
  BY NothingListed DEF IInv, LoopInv, Dispatch, At, Running, LookPCs
<1>2. UNCHANGED <<store, table, job, runner, lock, world, abandoned, counted>>
  BY DEF Dispatch
<1>3. PICK x \in Executions : x = loop[h].at /\ x \in InFlight /\ exec[x] = "granted"
  BY <1>1 DEF LoopInv, LoopKnows, InFlight
<1>4. /\ loop \in [Runners -> Loops] /\ loop[h] \in Loops /\ loop[h].active
      /\ exec \in [Executions -> ExecPCs]
  BY <1>1, LoopsAre DEF OneLoop, TypeOK
<1> DEFINE i == [loop[h] EXCEPT !.pc = "each", !.at = None, !.did = TRUE]
<1>5. /\ i \in Loops /\ i.pc = "each" /\ i.todo = loop[h].todo
      /\ i.active = loop[h].active /\ i.cancel = loop[h].cancel /\ i.ids = loop[h].ids
  BY <1>4 DEF Loops, LoopPCs
<1>6. loop' = [loop EXCEPT ![h] = i]
  BY <1>4 DEF Dispatch
<1> HIDE DEF i
<1>7. /\ Moves(h) /\ loop'[h].pc = "each" /\ loop'[h].todo = loop[h].todo
      /\ loop'[h].ids = {}
  BY <1>1, <1>2, <1>4, <1>5, <1>6 DEF Moves
<1>8. exec' = [exec EXCEPT ![x] = "working"]
  BY <1>3 DEF Dispatch
<1>9. /\ exec'[x] = "working" /\ \A y \in Executions : y # x => exec'[y] = exec[y]
      /\ exec' \in [Executions -> ExecPCs]
  BY <1>4, <1>8 DEF ExecPCs
<1>10. InFlight' = InFlight
  BY <1>3, <1>9 DEF InFlight
<1>11. status' = status /\ adm' = adm /\ queued' = queued /\ job' = job
  BY <1>2 DEF store, table
<1>12. StoreEnds /\ TableLoosens /\ ReservedIsPending'
  BY <1>2, StayPut
<1>13. ThreadInv'
  BY <1>1, <1>3, <1>9, <1>10, <1>11, <1>12, ThreadsStay
<1>14. TableInv'
  <2>1. Seated'
    BY <1>1, <1>3, <1>9, <1>11 DEF TableInv, Seated
  <2>2. Owned'
    <3> SUFFICES ASSUME NEW u \in Tasks, adm[u] \in {"running", "waiting"}
                 PROVE  \E y \in Executions : Keeps(y, u)'
      BY <1>11 DEF Owned
    <3>1. \A g \in Runners : ~Claims(g, u)
      BY <1>1 DEF Claims, At, LoopInv, OneLoop, Running
    <3>2. PICK y \in Executions : Keeps(y, u)
      BY <1>1, <3>1 DEF TableInv, Owned
    <3> QED
      BY <1>9, <1>11, <3>2 DEF Keeps
  <2>3. WithinLimit'
    BY <1>1, <1>11 DEF TableInv, WithinLimit, Occupying
  <2> QED
    BY <1>12, <2>1, <2>2, <2>3 DEF TableInv
<1>15. LoopInv'
  <2>1. Spare \subseteq Spare'
    BY <1>1, <1>10, <1>11, <1>12, SpareStays
  <2>2. loop[h].todo \subseteq Spare
    BY <1>1 DEF LoopInv, LoopKnows, At
  <2> QED
    BY <1>1, <1>7, <2>1, <2>2, KnowsOf, LoopMoved DEF LoopInv
<1>16. ScopeInv'
  <2>1. Looked(h)'
    BY <1>7, LookedNot
  <2> QED
    BY <1>1, <1>2, <1>7, <1>11, <2>1, ScopeSame DEF IInv
<1>17. TypeOK'
  BY <1>1, <1>2, <1>7, <1>9, <1>12, QuietTypes DEF TypeOK, TableLoosens, counted, world, Moves
<1> QED
  BY <1>13, <1>14, <1>15, <1>16, <1>17 DEF IInv

-----------------------------------------------------------------------------
(* Steps of the threads *)

LEMMA LoopStill ==
    ASSUME LoopInv, UNCHANGED <<loop, runner, lock>>, InFlight' \subseteq InFlight
    PROVE  OneLoop' /\ ContinueIsAlone'
BY DEF LoopInv, OneLoop, ContinueIsAlone, Running, At

LEMMA ScopeStill ==
    ASSUME TypeOK, ScopeInv, UNCHANGED <<loop, runner, lock>>, abandoned => abandoned', StoreEnds
    PROVE  ScopeInv'
<1>1. /\ LiveTasks' \subseteq LiveTasks
      /\ \A t \in LiveTasks' : status'[t] = status[t]
      /\ status'[Root] # "none"
  BY EndsLive DEF ScopeInv
<1>2. ASSUME NEW h \in Runners PROVE Looked(h)'
  <2>1. Unread(h)' = Unread(h)
    BY DEF Unread
  <2>2. \A t \in Tasks : Ends(t)
    BY DEF StoreEnds
  <2>3. ASSUME NEW t \in Tasks
        PROVE  /\ status[t] # "running" => status'[t] # "running"
               /\ status[t] # "none" => status'[t] # "none"
               /\ status[t] \in Ended => status'[t] \in Ended
    BY <2>2 DEF Ends, Ended
  <2>4. Looked(h)
    BY DEF ScopeInv
  <2> QED
    BY <2>1, <2>3, <2>4 DEF Looked
<1>3. Attended => Attended'
  BY DEF Attended, NewHandles, Running
<1>4. AllMissed => AllMissed'
  BY <1>1 DEF AllMissed, Missed
<1> QED
  BY <1>1, <1>2, <1>3, <1>4 DEF ScopeInv

\* A thread moves on, and only the place of its own task may change.
LEMMA ThreadMoves ==
    ASSUME IInv, NEW x \in InFlight, exec[x] # "granted",
           NEW pc \in ExecPCs \ {"none", "granted"}, exec' = [exec EXCEPT ![x] = pc],
           UNCHANGED <<job, loop, runner, lock, abandoned>>, StoreEnds, ReservedIsPending',
           WithinLimit',
           \A u \in Tasks : u # job[x] => adm'[u] = adm[u],
           pc = "working" => adm'[job[x]] = "running",
           pc = "waiting" <=> adm'[job[x]] = "waiting",
           adm'[job[x]] = "running" => pc \in {"working", "reported"}
    PROVE  ThreadInv' /\ TableInv' /\ LoopInv' /\ ScopeInv' /\ exec' \in [Executions -> ExecPCs]
<1>1. TypeOK /\ LoopInv /\ TableInv /\ ThreadInv /\ x \in Executions
  BY DEF IInv, InFlight
<1>2. exec \in [Executions -> ExecPCs]
  BY <1>1 DEF TypeOK
<1>3. /\ exec'[x] = pc /\ \A y \in Executions : y # x => exec'[y] = exec[y]
      /\ exec' \in [Executions -> ExecPCs]
  BY <1>1, <1>2
<1>4. InFlight' \subseteq InFlight /\ exec[x] # "none" /\ job[x] \in Tasks
  BY <1>1, <1>3, JobIsTask DEF InFlight, ThreadInv
<1>5. ThreadInv'
  BY <1>1, <1>3, <1>4, ThreadsStay
<1>6. Seated'
  <2> SUFFICES ASSUME NEW y \in Executions
               PROVE  /\ exec'[y] \in {"granted", "working"} => adm'[job[y]] = "running"
                      /\ exec'[y] = "waiting" => adm'[job[y]] = "waiting"
    BY DEF Seated
  <2>1. CASE y = x
    BY <1>3, <2>1
  <2>2. CASE y # x /\ exec[y] \in {"granted", "working", "waiting"}
    <3>1. y \in InFlight /\ job[y] \in Tasks /\ job[y] # job[x]
      BY <1>1, <2>2, JobIsTask DEF InFlight, ThreadInv, OneThread
    <3> QED
      BY <1>1, <1>3, <2>2, <3>1 DEF TableInv, Seated
  <2>3. CASE y # x /\ exec[y] \notin {"granted", "working", "waiting"}
    BY <1>3, <2>3
  <2> QED
    BY <2>1, <2>2, <2>3
<1>7. Owned'
  <2> SUFFICES ASSUME NEW u \in Tasks, adm'[u] \in {"running", "waiting"}
               PROVE  (\E y \in Executions : Keeps(y, u)') \/ (\E g \in Runners : Claims(g, u)')
    BY DEF Owned
  <2>1. CASE u = job[x]
    BY <1>1, <1>3, <2>1 DEF Keeps
  <2>2. CASE u # job[x]
    <3>1. (\E y \in Executions : Keeps(y, u)) \/ (\E g \in Runners : Claims(g, u))
      BY <1>1, <2>2 DEF TableInv, Owned
    <3>2. ASSUME NEW y \in Executions, Keeps(y, u) PROVE Keeps(y, u)'
      BY <1>3, <2>2, <3>2 DEF Keeps
    <3>3. ASSUME NEW g \in Runners, Claims(g, u) PROVE Claims(g, u)'
      BY <3>3 DEF Claims, At
    <3> QED
      BY <3>1, <3>2, <3>3
  <2> QED
    BY <2>1, <2>2
<1>8. LoopKnows'
  <2>1. Spare \subseteq Spare' /\ Spare \subseteq Tasks
    BY <1>1, <1>4, SpareStays DEF Spare, Known
  <2> SUFFICES ASSUME NEW g \in Runners
               PROVE  /\ loop[g].pc \in Busy => loop[g].todo \subseteq Spare'
                      /\ loop[g].pc = "claim" =>
                           loop[g].at \in Spare' \ loop[g].todo /\ adm'[loop[g].at] = "running"
                      /\ loop[g].pc = "dispatch" =>
                           loop[g].at \in InFlight' /\ exec'[loop[g].at] = "granted"
    BY DEF LoopKnows, At, Busy
  <2>2. loop[g].pc \in Busy => loop[g].todo \subseteq Spare'
    BY <1>1, <2>1 DEF LoopInv, LoopKnows, Busy
  <2>3. CASE loop[g].pc = "claim"
    <3>1. loop[g].at \in Spare \ loop[g].todo /\ adm[loop[g].at] = "running"
      BY <1>1, <2>3 DEF LoopInv, LoopKnows, At
    <3>2. loop[g].at # job[x]
      BY <3>1 DEF Spare
    <3> QED
      BY <2>1, <2>2, <2>3, <3>1, <3>2
  <2>4. CASE loop[g].pc = "dispatch"
    <3>1. loop[g].at \in InFlight /\ exec[loop[g].at] = "granted"
      BY <1>1, <2>4 DEF LoopInv, LoopKnows, At
    <3> QED
      BY <1>3, <2>2, <2>4, <3>1 DEF InFlight
  <2> QED
    BY <2>2, <2>3, <2>4
<1>9. LoopInv'
  BY <1>1, <1>4, <1>8, LoopStill DEF LoopInv
<1>10. ScopeInv'
  BY ScopeStill DEF IInv
<1> QED
  BY <1>3, <1>5, <1>6, <1>7, <1>9, <1>10 DEF TableInv

\* A thread on its way out has nothing in the table.
LEMMA LeavingHasNoPlace ==
    ASSUME IInv, NEW x \in InFlight, exec[x] \in {"ending", "released", "fallen"}
    PROVE  adm[job[x]] \notin {"running", "waiting"}
<1>1. job[x] \in Tasks /\ x \in Executions
  BY JobIsTask DEF IInv, ThreadInv, InFlight
<1>2. SUFFICES ASSUME adm[job[x]] \in {"running", "waiting"} PROVE FALSE
  OBVIOUS
<1>3. CASE \E y \in Executions : Keeps(y, job[x])
  <2>1. PICK y \in Executions : Keeps(y, job[x])
    BY <1>3
  <2>2. y \in InFlight /\ job[y] = job[x]
    BY <2>1 DEF Keeps, InFlight
  <2>3. y = x
    BY <2>2 DEF IInv, ThreadInv, OneThread
  <2> QED
    BY <2>1, <2>3 DEF Keeps
<1>4. CASE \E g \in Runners : Claims(g, job[x])
  BY <1>4 DEF Claims, IInv, LoopInv, LoopKnows, Spare
<1> QED
  BY <1>1, <1>2, <1>3, <1>4 DEF IInv, TableInv, Owned

LEMMA JobOf ==
    ASSUME IInv, NEW x \in Executions, exec[x] \notin {"none", "unseen", "over"}
    PROVE  /\ x \in InFlight /\ job[x] \in Tasks
           /\ status[job[x]] \notin {"none", "pending"}
           /\ adm \in [Tasks -> Phases] /\ adm[job[x]] # "reserved"
<1>1. x \in InFlight /\ job[x] \in Tasks
  BY JobIsTask DEF IInv, ThreadInv, InFlight
<1>2. status[job[x]] \notin {"none", "pending"}
  BY <1>1 DEF IInv, ThreadInv, ThreadsAreClaimed
<1> QED
  BY <1>1, <1>2 DEF IInv, TypeOK, TableInv, ReservedIsPending

\* One place changes hands; the limit is kept if it was not free before.
LEMMA PlaceChanges ==
    ASSUME IInv, NEW t \in Tasks, adm' = adm \/ (\E p \in Phases : adm' = [adm EXCEPT ![t] = p]),
           adm'[t] # "reserved", status' = status,
           adm'[t] \in {"reserved", "running"} => adm[t] \in {"reserved", "running"} \/ HasRoom
    PROVE  /\ adm' \in [Tasks -> Phases] /\ \A u \in Tasks : u # t => adm'[u] = adm[u]
           /\ ReservedIsPending' /\ WithinLimit'
<1>1. adm \in [Tasks -> Phases]
  BY DEF IInv, TypeOK
<1>2. adm' \in [Tasks -> Phases] /\ \A u \in Tasks : u # t => adm'[u] = adm[u]
  BY <1>1
<1>3. ReservedIsPending'
  BY <1>2 DEF IInv, TableInv, ReservedIsPending
<1>4. WithinLimit'
  <2>1. CASE HasRoom
    <3>1. Occupying' \subseteq Occupying \cup {t}
      BY <1>2 DEF Occupying
    <3> QED
      BY <2>1, <3>1, OneNewPlace
  <2>2. CASE adm'[t] \in {"reserved", "running"} => adm[t] \in {"reserved", "running"}
    <3>1. Occupying' \subseteq Occupying
      BY <1>2, <2>2 DEF Occupying
    <3> QED
      BY <3>1, NoNewPlace DEF IInv, TableInv
  <2> QED
    BY <2>1, <2>2
<1> QED
  BY <1>2, <1>3, <1>4

LEMMA SuspendStep ==
    ASSUME IInv, NEW x \in Executions, Suspend(x)
    PROVE  IInv'
<1>1. TypeOK /\ exec[x] = "working" /\ adm[job[x]] = "running"
  BY DEF IInv, Suspend
<1>2. UNCHANGED <<store, queued, job, loop, runner, lock, world, abandoned, counted>>
  BY DEF Suspend
<1>3. x \in InFlight /\ job[x] \in Tasks /\ adm \in [Tasks -> Phases]
  BY <1>1, JobOf
<1>4. exec' = [exec EXCEPT ![x] = "waiting"] /\ adm' = [adm EXCEPT ![job[x]] = "waiting"]
  BY DEF Suspend
<1>5. adm'[job[x]] = "waiting" /\ "waiting" \in Phases /\ "waiting" \in ExecPCs
  BY <1>3, <1>4 DEF Phases, ExecPCs
<1>6. StoreEnds /\ status' = status
  BY <1>2, StoreSame DEF IInv, ThreadInv, store
<1>7. /\ adm' \in [Tasks -> Phases] /\ \A u \in Tasks : u # job[x] => adm'[u] = adm[u]
      /\ ReservedIsPending' /\ WithinLimit'
  BY <1>3, <1>4, <1>5, <1>6, PlaceChanges
<1>8. ThreadInv' /\ TableInv' /\ LoopInv' /\ ScopeInv' /\ exec' \in [Executions -> ExecPCs]
  BY <1>1, <1>2, <1>3, <1>4, <1>5, <1>6, <1>7, ThreadMoves DEF counted
<1>9. TypeOK'
  BY <1>1, <1>2, <1>6, <1>7, <1>8, QuietTypes DEF TypeOK, world, counted
<1> QED
  BY <1>8, <1>9 DEF IInv

LEMMA ReturnStep ==
    ASSUME IInv, NEW x \in Executions, Return(x)
    PROVE  IInv'
<1>1. TypeOK /\ exec[x] = "waiting"
  BY DEF IInv, Return
<1>2. UNCHANGED <<store, queued, job, loop, runner, lock, world, abandoned, counted>>
  BY DEF Return
<1>3. /\ x \in InFlight /\ job[x] \in Tasks /\ adm \in [Tasks -> Phases]
      /\ adm[job[x]] = "waiting"
  BY <1>1, JobOf DEF IInv, TableInv, Seated
<1>4. PICK pc \in {"working", "ending"}, p \in {"running", "none"} :
         /\ exec' = [exec EXCEPT ![x] = pc] /\ adm' = [adm EXCEPT ![job[x]] = p]
         /\ pc = "working" <=> p = "running"
         /\ p = "running" => HasRoom
  <2>1. CASE /\ MayResume(job[x])
             /\ exec' = [exec EXCEPT ![x] = "working"]
             /\ adm' = [adm EXCEPT ![job[x]] = "running"]
    BY <2>1 DEF MayResume
  <2>2. CASE /\ exec' = [exec EXCEPT ![x] = "ending"]
             /\ adm' = [adm EXCEPT ![job[x]] = "none"]
    BY <2>2
  <2> QED
    BY <1>3, <2>1, <2>2 DEF Return
<1>5. /\ adm'[job[x]] = p /\ p \in Phases
      /\ pc \in ExecPCs \ {"none", "granted"}
  BY <1>3, <1>4 DEF Phases, ExecPCs
<1>6. StoreEnds /\ status' = status
  BY <1>2, StoreSame DEF IInv, ThreadInv, store
<1>7. /\ adm' \in [Tasks -> Phases] /\ \A u \in Tasks : u # job[x] => adm'[u] = adm[u]
      /\ ReservedIsPending' /\ WithinLimit'
  BY <1>3, <1>4, <1>5, <1>6, PlaceChanges
<1>8. ThreadInv' /\ TableInv' /\ LoopInv' /\ ScopeInv' /\ exec' \in [Executions -> ExecPCs]
  BY <1>1, <1>2, <1>3, <1>4, <1>5, <1>6, <1>7, ThreadMoves DEF counted
<1>9. TypeOK'
  BY <1>1, <1>2, <1>6, <1>7, <1>8, QuietTypes DEF TypeOK, world, counted
<1> QED
  BY <1>8, <1>9 DEF IInv

LEMMA ReportStep ==
    ASSUME IInv, NEW x \in Executions, Report(x)
    PROVE  IInv'
<1>1. TypeOK /\ OverdueIsLeased /\ exec[x] \in {"working", "ending"}
  BY DEF IInv, ThreadInv, Report
<1>2. UNCHANGED <<table, job, loop, runner, lock, world, abandoned, stalls, stops>>
  BY DEF Report
<1>3. /\ x \in InFlight /\ job[x] \in Tasks /\ adm \in [Tasks -> Phases]
      /\ status[job[x]] # "pending" /\ adm[job[x]] # "waiting"
  BY <1>1, JobOf, LeavingHasNoPlace DEF IInv, TableInv, Seated
<1>4. exec' = [exec EXCEPT ![x] = "reported"]
  BY DEF Report
<1>5. /\ StoreEnds /\ \A t \in Tasks : t # job[x] => status'[t] = status[t]
      /\ faults' \in 0 .. MaxFaults
  <2>1. CASE (\E st \in Ended : End({job[x]}, st)) /\ UNCHANGED faults
    <3>1. PICK st \in Ended : End({job[x]}, st)
      BY <2>1
    <3> QED
      BY <1>1, <2>1, <3>1, EndEffect, FaultCounted
  <2>2. CASE UNCHANGED <<store, faults>>
    BY <1>1, <2>2, StoreSame, FaultCounted DEF store
  <2>3. CASE CanFail /\ Fault /\ UNCHANGED store
    BY <1>1, <2>3, StoreSame, FaultCounted DEF store
  <2> QED
    BY <2>1, <2>2, <2>3 DEF Report, Ended
<1>6. TableLoosens /\ adm' = adm /\ queued' = queued
  BY <1>1, <1>2, TableSame DEF table
<1>7. ReservedIsPending'
  <2>1. \A t \in Tasks : status[t] \in Live /\ status'[t] \in Ended => status[t] # "pending"
    BY <1>3, <1>5 DEF Live, Ended
  <2> QED
    BY <1>1, <1>5, <1>6, <2>1, ReservedFollows DEF IInv, TableInv
<1>8. WithinLimit'
  BY <1>6 DEF IInv, TableInv, WithinLimit, Occupying
<1>9. ThreadInv' /\ TableInv' /\ LoopInv' /\ ScopeInv' /\ exec' \in [Executions -> ExecPCs]
  BY <1>1, <1>2, <1>3, <1>4, <1>5, <1>6, <1>7, <1>8, ThreadMoves DEF ExecPCs
<1>10. TypeOK'
  BY <1>1, <1>2, <1>5, <1>6, <1>9, QuietTypes DEF TypeOK, world
<1> QED
  BY <1>9, <1>10 DEF IInv

LEMMA ReleaseStep ==
    ASSUME IInv, NEW x \in Executions, Release(x)
    PROVE  IInv'
<1>1. TypeOK /\ exec[x] = "reported"
  BY DEF IInv, Release
<1>2. UNCHANGED <<store, queued, job, loop, runner, lock, world, abandoned, counted>>
  BY DEF Release
<1>3. x \in InFlight /\ job[x] \in Tasks /\ adm \in [Tasks -> Phases]
  BY <1>1, JobOf
<1>4. exec' = [exec EXCEPT ![x] = "released"] /\ adm' = [adm EXCEPT ![job[x]] = "none"]
  BY DEF Release
<1>5. adm'[job[x]] = "none" /\ "none" \in Phases /\ "released" \in ExecPCs
  BY <1>3, <1>4 DEF Phases, ExecPCs
<1>6. StoreEnds /\ status' = status
  BY <1>2, StoreSame DEF IInv, ThreadInv, store
<1>7. /\ adm' \in [Tasks -> Phases] /\ \A u \in Tasks : u # job[x] => adm'[u] = adm[u]
      /\ ReservedIsPending' /\ WithinLimit'
  BY <1>3, <1>4, <1>5, <1>6, PlaceChanges
<1>8. ThreadInv' /\ TableInv' /\ LoopInv' /\ ScopeInv' /\ exec' \in [Executions -> ExecPCs]
  BY <1>1, <1>2, <1>3, <1>4, <1>5, <1>6, <1>7, ThreadMoves DEF counted
<1>9. TypeOK'
  BY <1>1, <1>2, <1>6, <1>7, <1>8, QuietTypes DEF TypeOK, world, counted
<1> QED
  BY <1>8, <1>9 DEF IInv

LEMMA LeaveStep ==
    ASSUME IInv, NEW x \in Executions, Leave(x)
    PROVE  IInv'
<1>1. TypeOK /\ exec[x] = "released"
  BY DEF IInv, Leave
<1>2. UNCHANGED <<store, table, job, loop, runner, lock, world, abandoned, counted>>
  BY DEF Leave
<1>3. /\ x \in InFlight /\ job[x] \in Tasks
      /\ adm[job[x]] \notin {"running", "waiting"}
  BY <1>1, JobOf, LeavingHasNoPlace
<1>4. exec' = [exec EXCEPT ![x] = "over"] /\ "over" \in ExecPCs
  BY DEF Leave, ExecPCs
<1>5. StoreEnds /\ TableLoosens /\ ReservedIsPending' /\ adm' = adm
  BY <1>2, StayPut DEF table
<1>6. WithinLimit'
  BY <1>5 DEF IInv, TableInv, WithinLimit, Occupying
<1>7. ThreadInv' /\ TableInv' /\ LoopInv' /\ ScopeInv' /\ exec' \in [Executions -> ExecPCs]
  BY <1>1, <1>2, <1>3, <1>4, <1>5, <1>6, ThreadMoves DEF counted
<1>8. TypeOK'
  BY <1>1, <1>2, <1>5, <1>7, QuietTypes DEF TypeOK, world, TableLoosens, counted
<1> QED
  BY <1>7, <1>8 DEF IInv

LEMMA PanicStep ==
    ASSUME IInv, NEW x \in Executions, Panic(x)
    PROVE  IInv'
<1>1. TypeOK /\ exec[x] \in {"working", "ending"}
  BY DEF IInv, Panic
<1>2. /\ UNCHANGED <<store, queued, job, loop, runner, lock, world, abandoned, stops, faults>>
      /\ CanStall /\ stalls' = stalls + 1
  BY DEF Panic
<1>3. x \in InFlight /\ job[x] \in Tasks /\ adm \in [Tasks -> Phases]
  BY <1>1, JobOf
<1>4. exec' = [exec EXCEPT ![x] = "fallen"] /\ adm' = [adm EXCEPT ![job[x]] = "none"]
  BY DEF Panic
<1>5. adm'[job[x]] = "none" /\ "none" \in Phases /\ "fallen" \in ExecPCs
  BY <1>3, <1>4 DEF Phases, ExecPCs
<1>6. StoreEnds /\ status' = status
  BY <1>2, StoreSame DEF IInv, ThreadInv, store
<1>7. /\ adm' \in [Tasks -> Phases] /\ \A u \in Tasks : u # job[x] => adm'[u] = adm[u]
      /\ ReservedIsPending' /\ WithinLimit'
  BY <1>3, <1>4, <1>5, <1>6, PlaceChanges
<1>8. ThreadInv' /\ TableInv' /\ LoopInv' /\ ScopeInv' /\ exec' \in [Executions -> ExecPCs]
  BY <1>1, <1>2, <1>3, <1>4, <1>5, <1>6, <1>7, ThreadMoves
<1>9. stalls' \in 0 .. MaxStalls
  BY <1>1, <1>2, TaskRunnerAssumption DEF TypeOK, CanStall
<1>10. TypeOK'
  BY <1>1, <1>2, <1>6, <1>7, <1>8, <1>9, QuietTypes DEF TypeOK, world
<1> QED
  BY <1>8, <1>10 DEF IInv

LEMMA VanishStep ==
    ASSUME IInv, NEW x \in Executions, Vanish(x)
    PROVE  IInv'
<1>1. TypeOK /\ exec[x] = "fallen"
  BY DEF IInv, Vanish
<1>2. UNCHANGED <<store, table, job, loop, runner, lock, world, abandoned, counted>>
  BY DEF Vanish
<1>3. /\ x \in InFlight /\ job[x] \in Tasks
      /\ adm[job[x]] \notin {"running", "waiting"}
  BY <1>1, JobOf, LeavingHasNoPlace
<1>4. exec' = [exec EXCEPT ![x] = "unseen"] /\ "unseen" \in ExecPCs
  BY DEF Vanish, ExecPCs
<1>5. StoreEnds /\ TableLoosens /\ ReservedIsPending' /\ adm' = adm
  BY <1>2, StayPut DEF table
<1>6. WithinLimit'
  BY <1>5 DEF IInv, TableInv, WithinLimit, Occupying
<1>7. ThreadInv' /\ TableInv' /\ LoopInv' /\ ScopeInv' /\ exec' \in [Executions -> ExecPCs]
  BY <1>1, <1>2, <1>3, <1>4, <1>5, <1>6, ThreadMoves
<1>8. TypeOK'
  BY <1>1, <1>2, <1>5, <1>7, QuietTypes DEF TypeOK, world, TableLoosens, counted
<1> QED
  BY <1>7, <1>8 DEF IInv

\* The failure of a thread that is not registered any more.
LEMMA ReportPanicStep ==
    ASSUME IInv, NEW x \in Executions, ReportPanic(x)
    PROVE  IInv'
<1>1. /\ TypeOK /\ LoopInv /\ TableInv /\ ThreadInv /\ OverdueIsLeased
      /\ exec[x] = "unseen" /\ exec \in [Executions -> ExecPCs]
      /\ job[x] \in Tasks
  BY JobIsTask DEF IInv, ThreadInv, ReportPanic, TypeOK
<1>2. UNCHANGED <<table, job, loop, runner, lock, world, abandoned, stalls, stops>>
  BY DEF ReportPanic
<1>3. exec' = [exec EXCEPT ![x] = "over"]
  BY DEF ReportPanic
<1>4. /\ exec'[x] = "over" /\ \A y \in Executions : y # x => exec'[y] = exec[y]
      /\ exec' \in [Executions -> ExecPCs]
  BY <1>1, <1>3 DEF ExecPCs
<1>5. InFlight' = InFlight /\ job' = job /\ adm' = adm /\ queued' = queued
  BY <1>1, <1>2, <1>4 DEF InFlight, table
<1>6. /\ StoreEnds /\ faults' \in 0 .. MaxFaults
      /\ \A t \in Tasks : status'[t] # status[t] => status[t] = "running"
  <2>1. CASE Holds(x) /\ End({job[x]}, "failed") /\ UNCHANGED faults
    <3>1. /\ StoreEnds
          /\ \A t \in Tasks : t \notin {job[x]} => status'[t] = status[t]
      BY <1>1, <2>1, EndEffect DEF Ended
    <3>2. status[job[x]] = "running"
      BY <1>1, <2>1, TaskRunnerAssumption DEF Holds, TypeOK
    <3> QED
      BY <1>1, <2>1, <3>1, <3>2, FaultCounted
  <2>2. CASE UNCHANGED <<store, faults>>
    BY <1>1, <2>2, StoreSame, FaultCounted DEF store
  <2>3. CASE CanFail /\ Fault /\ UNCHANGED store
    BY <1>1, <2>3, StoreSame, FaultCounted DEF store
  <2> QED
    BY <2>1, <2>2, <2>3 DEF ReportPanic
<1>7. TableLoosens
  BY <1>1, <1>2, TableSame
<1>8. ReservedIsPending'
  <2>1. \A t \in Tasks : status[t] \in Live /\ status'[t] \in Ended => status[t] # "pending"
    BY <1>6 DEF Live, Ended
  <2> QED
    BY <1>1, <1>6, <1>7, <2>1, ReservedFollows DEF TableInv
<1>9. ThreadInv'
  BY <1>1, <1>4, <1>5, <1>6, ThreadsStay
<1>10. Seated' /\ WithinLimit'
  BY <1>1, <1>4, <1>5 DEF TableInv, Seated, WithinLimit, Occupying
<1>11. Owned'
  <2> SUFFICES ASSUME NEW u \in Tasks, adm[u] \in {"running", "waiting"}
               PROVE  (\E y \in Executions : Keeps(y, u)') \/ (\E g \in Runners : Claims(g, u)')
    BY <1>5 DEF Owned
  <2>1. (\E y \in Executions : Keeps(y, u)) \/ (\E g \in Runners : Claims(g, u))
    BY <1>1 DEF TableInv, Owned
  <2>2. ASSUME NEW y \in Executions, Keeps(y, u) PROVE Keeps(y, u)'
    BY <1>1, <1>4, <1>5, <2>2 DEF Keeps
  <2>3. ASSUME NEW g \in Runners, Claims(g, u) PROVE Claims(g, u)'
    BY <1>2, <2>3 DEF Claims, At
  <2> QED
    BY <2>1, <2>2, <2>3
<1>12. LoopKnows'
  <2>1. Spare \subseteq Spare' /\ InFlight \subseteq Executions
    BY <1>1, <1>5, <1>6, SpareStays DEF InFlight
  <2>2. \A y \in InFlight : exec'[y] = exec[y]
    BY <1>1, <1>4 DEF InFlight
  <2> QED
    BY <1>1, <1>2, <1>5, <2>1, <2>2 DEF LoopInv, LoopKnows, At
<1>13. LoopInv'
  BY <1>1, <1>2, <1>5, <1>12, LoopStill DEF LoopInv
<1>14. ScopeInv'
  BY <1>1, <1>2, <1>6, ScopeStill DEF IInv
<1>15. TypeOK'
  BY <1>1, <1>2, <1>4, <1>5, <1>6, QuietTypes DEF TypeOK, world
<1> QED
  BY <1>8, <1>9, <1>10, <1>11, <1>13, <1>14, <1>15 DEF IInv, TableInv

\* Loop and threads stay where they are.
LEMMA OnlyStore ==
    ASSUME IInv, StoreEnds, TableLoosens, ReservedIsPending',
           UNCHANGED <<threads, loop, runner, lock, abandoned>>,
           unmatched' \subseteq Tasks, short' \in BOOLEAN,
           stalls' \in 0 .. MaxStalls, stops' \in 0 .. MaxStops, faults' \in 0 .. MaxFaults
    PROVE  IInv'
<1>1. TypeOK'
  BY QuietTypes DEF IInv, TypeOK, TableLoosens, threads
<1>2. LoopSteady
  BY DEF LoopSteady, ClaimsStay, At
<1>3. ThreadInv' /\ InFlight' = InFlight
  BY ThreadsUnchanged DEF IInv
<1>4. TableInv'
  BY <1>2, QuietTable DEF IInv, LoopSteady
<1>5. LoopInv'
  BY <1>2, <1>3, QuietLoops, LoopStill DEF IInv, LoopInv
<1>6. ScopeInv'
  BY ScopeStill DEF IInv
<1> QED
  BY <1>1, <1>3, <1>4, <1>5, <1>6 DEF IInv

LEMMA NothingMoves ==
    ASSUME IInv, UNCHANGED vars
    PROVE  IInv'
<1>1. UNCHANGED <<store, table>>
  BY DEF vars
<1>2. StoreEnds /\ TableLoosens /\ ReservedIsPending'
  BY <1>1, StayPut
<1> QED
  BY <1>2, OnlyStore DEF vars, counted, world, IInv, TypeOK

LEMMA OverdueStep ==
    ASSUME IInv, NEW t \in Tasks, Overdue(t)
    PROVE  IInv'
<1>1. /\ overdue' = overdue \cup {t} /\ lease[t] # None /\ stalls' = stalls + 1
      /\ stalls < MaxStalls
      /\ UNCHANGED <<status, lease, table, threads, loop, runner, lock, world, abandoned, stops, faults>>
  BY DEF Overdue, CanStall
<1>2. TypeOK /\ OverdueIsLeased /\ ReservedIsPending
  BY DEF IInv, ThreadInv, TableInv
<1>3. StoreEnds
  BY <1>1, <1>2 DEF StoreEnds, Ends, TypeOK, OverdueIsLeased
<1>4. TableLoosens /\ ReservedIsPending'
  BY <1>1, <1>2, TableSame DEF table, ReservedIsPending
<1>5. stalls' \in 0 .. MaxStalls
  BY <1>1, <1>2, TaskRunnerAssumption DEF TypeOK
<1> QED
  BY <1>1, <1>2, <1>3, <1>4, <1>5, OnlyStore DEF TypeOK, world

LEMMA RemoveRoleStep ==
    ASSUME IInv, NEW t \in Tasks, RemoveRole(t)
    PROVE  IInv'
<1>1. /\ unmatched' = unmatched \cup {t} /\ stalls' = stalls + 1 /\ stalls < MaxStalls
      /\ UNCHANGED <<store, table, threads, loop, runner, lock, short, abandoned, stops, faults>>
  BY DEF RemoveRole, CanStall
<1>2. StoreEnds /\ TableLoosens /\ ReservedIsPending'
  BY <1>1, StayPut
<1>3. stalls' \in 0 .. MaxStalls
  BY <1>1, TaskRunnerAssumption DEF IInv, TypeOK
<1> QED
  BY <1>1, <1>2, <1>3, OnlyStore DEF IInv, TypeOK

LEMMA MemoryStep ==
    ASSUME IInv, Shortage \/ Relief
    PROVE  IInv'
<1>1. /\ UNCHANGED <<store, table, threads, loop, runner, lock, unmatched, abandoned, stops, faults>>
      /\ short' \in BOOLEAN
      /\ stalls' = stalls \/ (stalls' = stalls + 1 /\ stalls < MaxStalls)
  BY DEF Shortage, Relief, CanStall, counted
<1>2. StoreEnds /\ TableLoosens /\ ReservedIsPending'
  BY <1>1, StayPut
<1>3. stalls' \in 0 .. MaxStalls
  BY <1>1, TaskRunnerAssumption DEF IInv, TypeOK
<1> QED
  BY <1>1, <1>2, <1>3, OnlyStore DEF IInv, TypeOK

LEMMA KillAgentStep ==
    ASSUME IInv, NEW a \in Agents, KillAgent(a)
    PROVE  IInv'
<1>1. /\ Settled({a}, "killed") \/ Unsettled({a})
      /\ stops' = stops + 1 /\ stops < MaxStops
      /\ UNCHANGED <<threads, loop, runner, lock, world, abandoned, stalls>>
  BY DEF KillAgent, CanStop
<1>2. {a} \in SUBSET Tasks /\ "killed" \in Ended
  BY DEF Tasks, Ended
<1>3. /\ StoreEnds /\ TableLoosens /\ ReservedIsPending' /\ faults' \in 0 .. MaxFaults
  <2>1. CASE Settled({a}, "killed")
    BY <1>2, <2>1, SettledEffect, FaultCounted DEF IInv, ThreadInv, TableInv
  <2>2. CASE Unsettled({a})
    BY <1>2, <2>2, UnsettledEffect DEF IInv, ThreadInv, TableInv
  <2> QED
    BY <1>1, <2>1, <2>2
<1>4. stops' \in 0 .. MaxStops
  BY <1>1, TaskRunnerAssumption DEF IInv, TypeOK
<1> QED
  BY <1>1, <1>3, <1>4, OnlyStore DEF IInv, TypeOK, world

LEMMA SpawnStep ==
    ASSUME IInv, NEW x \in Executions, NEW a \in Agents, Spawn(x, a)
    PROVE  IInv'
<1>1. /\ TypeOK /\ LoopInv /\ TableInv /\ ThreadInv
      /\ a \in Tasks /\ Root \in Tasks /\ a # Root
  BY TaskRunnerAssumption DEF IInv, Tasks
<1>2. /\ UNCHANGED <<lease, overdue, threads, loop, runner, lock, world, abandoned, stalls, stops>>
      /\ status[a] = "none" /\ lease[Root] = x
  BY DEF Spawn, Holds
<1>3. CASE CanFail /\ Fault /\ UNCHANGED <<table, status>>
  <2>1. UNCHANGED <<store, table>>
    BY <1>2, <1>3 DEF store
  <2>2. StoreEnds /\ TableLoosens /\ ReservedIsPending'
    BY <2>1, StayPut
  <2>3. faults' \in 0 .. MaxFaults
    BY <1>1, <1>3, FaultCounted
  <2> QED
    BY <1>1, <1>2, <2>2, <2>3, OnlyStore DEF TypeOK, world
<1>4. CASE /\ Admitted(a, "reserved") /\ status' = [status EXCEPT ![a] = "pending"]
           /\ UNCHANGED faults
  <2>1. /\ status \in [Tasks -> Statuses] /\ adm \in [Tasks -> Phases] /\ queued \subseteq Tasks
        /\ lease \in [Tasks -> Executions \cup {None}]
    BY <1>1 DEF TypeOK
  <2>2. /\ status'[a] = "pending" /\ \A u \in Tasks : u # a => status'[u] = status[u]
        /\ status' \in [Tasks -> Statuses]
    BY <1>1, <1>4, <2>1 DEF Statuses, Live
  <2>3. /\ adm' \in [Tasks -> Phases] /\ queued' \subseteq Tasks
        /\ \A u \in Tasks : u # a => adm'[u] = adm[u]
        /\ adm' = adm \/ (adm'[a] = "reserved" /\ HasRoom)
    BY <1>1, <1>4, <2>1 DEF Admitted, Phases
  <2>4. exec' = exec /\ job' = job /\ InFlight' = InFlight
    BY <1>2 DEF threads, InFlight
  <2>5. \A y \in InFlight : job[y] \in Tasks /\ job[y] # a
    <3> SUFFICES ASSUME NEW y \in InFlight PROVE job[y] \in Tasks /\ job[y] # a
      OBVIOUS
    <3>1. y \in Executions /\ exec[y] \notin {"none", "unseen", "over"}
      BY DEF InFlight
    <3> QED
      BY <1>2, <3>1, JobOf
  <2>6. status[Root] = "running"
    <3>1. None \notin Executions
      BY TaskRunnerAssumption
    <3> QED
      BY <1>1, <1>2, <3>1 DEF TypeOK
  <2>7. TypeOK'
    <3>1. \A u \in Tasks : lease[u] # None => status'[u] = "running" /\ job[lease[u]] = u
      BY <1>1, <1>2, <2>2 DEF TypeOK
    <3> QED
      BY <1>1, <1>2, <1>4, <2>2, <2>3, <2>4, <3>1 DEF TypeOK, world
  <2>8. ThreadInv'
    <3>1. ThreadsAreClaimed'
      BY <1>1, <2>2, <2>4, <2>5 DEF ThreadInv, ThreadsAreClaimed
    <3> QED
      BY <1>1, <1>2, <2>4, <3>1 DEF ThreadInv, JobGiven, OneThread, OverdueIsLeased
  <2>9. Seated'
    <3> SUFFICES ASSUME NEW y \in Executions
                 PROVE  /\ exec[y] \in {"granted", "working"} => adm'[job[y]] = "running"
                        /\ exec[y] = "waiting" => adm'[job[y]] = "waiting"
      BY <2>4 DEF Seated
    <3>1. exec[y] \in {"granted", "working", "waiting"} => y \in InFlight
      BY DEF InFlight
    <3> QED
      BY <1>1, <2>3, <2>5, <3>1 DEF TableInv, Seated
  <2>10. Owned'
    <3> SUFFICES ASSUME NEW u \in Tasks, adm'[u] \in {"running", "waiting"}
                 PROVE  (\E y \in Executions : Keeps(y, u)') \/ (\E g \in Runners : Claims(g, u)')
      BY DEF Owned
    <3>1. (\E y \in Executions : Keeps(y, u)) \/ (\E g \in Runners : Claims(g, u))
      BY <1>1, <2>3 DEF TableInv, Owned
    <3> QED
      BY <1>2, <2>4, <3>1 DEF Keeps, Claims, At
  <2>11. ReservedIsPending'
    BY <1>1, <2>2, <2>3 DEF TableInv, ReservedIsPending
  <2>12. WithinLimit'
    <3>1. CASE adm' = adm
      BY <1>1, <3>1 DEF TableInv, WithinLimit, Occupying
    <3>2. CASE HasRoom
      <4>1. Occupying' \subseteq Occupying \cup {a}
        BY <2>3 DEF Occupying
      <4> QED
        BY <3>2, <4>1, OneNewPlace
    <3> QED
      BY <2>3, <3>1, <3>2
  <2>13. LoopKnows'
    <3>1. Spare \subseteq Spare' /\ a \notin Spare /\ Spare \subseteq Tasks
      BY <1>2, <2>2, <2>4 DEF Spare, Known
    <3> SUFFICES ASSUME NEW g \in Runners
                 PROVE  /\ loop[g].pc \in Busy => loop[g].todo \subseteq Spare'
                        /\ loop[g].pc = "claim" =>
                             loop[g].at \in Spare' \ loop[g].todo /\ adm'[loop[g].at] = "running"
                        /\ loop[g].pc = "dispatch" =>
                             loop[g].at \in InFlight' /\ exec'[loop[g].at] = "granted"
      BY <1>2 DEF LoopKnows, At, Busy
    <3>2. /\ loop[g].pc \in Busy => loop[g].todo \subseteq Spare
          /\ loop[g].pc = "claim" =>
               loop[g].at \in Spare \ loop[g].todo /\ adm[loop[g].at] = "running"
          /\ loop[g].pc = "dispatch" =>
               loop[g].at \in InFlight /\ exec[loop[g].at] = "granted"
      BY <1>1 DEF LoopInv, LoopKnows, At, Busy
    <3>3. loop[g].at \in Spare => adm'[loop[g].at] = adm[loop[g].at]
      BY <2>3, <3>1
    <3> QED
      BY <2>4, <3>1, <3>2, <3>3
  <2>14. LoopInv'
    BY <1>1, <1>2, <2>4, <2>13, LoopStill DEF LoopInv
  <2>15. ScopeInv'
    <3>1. status'[Root] # "none" /\ Root \in LiveTasks /\ status[Root] # "pending"
      BY <1>1, <2>2, <2>6 DEF LiveTasks, Live
    <3>2. ASSUME NEW g \in Runners PROVE Looked(g)'
      <4>1. Unread(g)' = Unread(g) /\ loop' = loop /\ runner' = runner
        BY <1>2 DEF Unread
      <4>2. Looked(g)
        BY DEF IInv, ScopeInv
      <4> QED
        BY <1>2, <2>2, <4>1, <4>2 DEF Looked
    <3>3. ~abandoned => Attended /\ lock # "stopping"
      BY <3>1 DEF IInv, ScopeInv, AllMissed, Missed
    <3>4. Attended => Attended'
      BY <1>2 DEF Attended, NewHandles, Running
    <3> QED
      BY <1>2, <3>1, <3>2, <3>3, <3>4 DEF ScopeInv
  <2> QED
    BY <2>7, <2>8, <2>9, <2>10, <2>11, <2>12, <2>14, <2>15 DEF IInv, TableInv
<1> QED
  BY <1>3, <1>4 DEF Spawn

-----------------------------------------------------------------------------
(* Steps of RunnerManager *)

\* The handle of a new loop was unused, and no other loop is running.
LEMMA SpawnedEffect ==
    ASSUME TypeOK, OneLoop, Spawned
    PROVE  \E h \in Runners :
              /\ loop[h].pc = "none" /\ runner' = h
              /\ \A g \in Runners : ~Running(g)
              /\ loop' \in [Runners -> Loops]
              /\ \A g \in Runners \ {h} : loop'[g] = loop[g]
              /\ loop'[h].pc = "top" /\ loop'[h].active /\ ~loop'[h].cancel
              /\ loop'[h].ids = loop[h].ids
<1>1. PICK h \in NewHandles : h = CHOOSE g \in NewHandles : TRUE
  BY DEF Spawned
<1>2. /\ Startable /\ runner' = h
      /\ loop' = [loop EXCEPT ![h].pc = "top", ![h].active = TRUE]
  BY <1>1 DEF Spawned
<1>3. h \in Runners /\ loop[h].pc = "none"
  BY DEF NewHandles
<1>4. loop \in [Runners -> Loops] /\ loop[h] \in Loops /\ ~loop[h].cancel
  BY <1>3, LoopsAre DEF OneLoop, At
<1> DEFINE i == [loop[h] EXCEPT !.pc = "top", !.active = TRUE]
<1>5. i \in Loops /\ i.pc = "top" /\ i.active /\ ~i.cancel /\ i.ids = loop[h].ids
  BY <1>4 DEF Loops, LoopPCs
<1>6. loop' = [loop EXCEPT ![h] = i]
  BY <1>2, <1>4
<1> HIDE DEF i
<1>7. loop' \in [Runners -> Loops] /\ loop'[h] = i /\ \A g \in Runners \ {h} : loop'[g] = loop[g]
  BY <1>3, <1>4, <1>5, <1>6
<1>8. \A g \in Runners : ~Running(g)
  <2> SUFFICES ASSUME NEW g \in Runners, Running(g) PROVE FALSE
    OBVIOUS
  <2>1. runner = g /\ loop[g].active
    BY DEF OneLoop
  <2>2. g # None
    BY TaskRunnerAssumption
  <2> QED
    BY <1>2, <2>1, <2>2 DEF Startable
<1> QED
  BY <1>2, <1>3, <1>5, <1>7, <1>8

\* What a new loop makes true, whatever else its step does.
LEMMA NewLoop ==
    ASSUME TypeOK, LoopInv, ScopeInv, Spawned, lock' = "free"
    PROVE  /\ LoopInv' /\ LoopSteady /\ Attended'
           /\ loop' \in [Runners -> Loops] /\ runner' \in Runners
           /\ \A g \in Runners : loop[g].pc \in {"none", "ended"} /\ Looked(g)'
<1>1. PICK h \in Runners :
         /\ loop[h].pc = "none" /\ runner' = h
         /\ \A g \in Runners : ~Running(g)
         /\ loop' \in [Runners -> Loops]
         /\ \A g \in Runners \ {h} : loop'[g] = loop[g]
         /\ loop'[h].pc = "top" /\ loop'[h].active /\ ~loop'[h].cancel
         /\ loop'[h].ids = loop[h].ids
  BY SpawnedEffect DEF LoopInv
<1>2. \A g \in Runners : loop[g].pc \in {"none", "ended"}
  BY <1>1 DEF Running
<1>3. \A g \in Runners : loop'[g].pc \in {"none", "ended", "top"}
  BY <1>1, <1>2
<1>4. OneLoop'
  <2>1. \A g \in Runners : g # h => /\ loop'[g].active <=> loop'[g].pc \notin {"none", "ended"}
                                    /\ loop'[g].pc \in {"none", "ended"}
                                    /\ loop'[g].pc = "none" => ~loop'[g].cancel
    BY <1>1, <1>2 DEF LoopInv, OneLoop, Running, At
  <2> QED
    BY <1>1, <2>1 DEF OneLoop, Running, At
<1>5. LoopKnows'
  BY <1>3 DEF LoopKnows, At
<1>6. ContinueIsAlone'
  BY DEF ContinueIsAlone
<1>7. LoopSteady
  BY <1>2, <1>3 DEF LoopSteady, ClaimsStay, At, Busy
<1>8. Attended'
  BY <1>1, TaskRunnerAssumption DEF Attended, Running
<1>9. ASSUME NEW g \in Runners PROVE Looked(g)'
  <2>1. loop'[g].ids = loop[g].ids /\ (loop[g].pc = "none" => loop[g].ids = {})
    BY <1>1 DEF ScopeInv, Looked, LookPCs
  <2>2. CASE g = h
    BY <1>1, <2>1, <2>2, LookedNot
  <2>3. CASE g # h
    BY <1>1, <1>2, <2>1, <2>3 DEF Looked, LookPCs
  <2> QED
    BY <2>2, <2>3
<1> QED
  BY <1>1, <1>2, <1>3, <1>4, <1>5, <1>6, <1>7, <1>8, <1>9 DEF LoopInv

LEMMA StartStep ==
    ASSUME IInv, Start
    PROVE  IInv'
<1>1. /\ Spawned /\ lock = "free" /\ lock' = "free"
      /\ UNCHANGED <<store, table, threads, lock, world, abandoned, counted>>
  BY DEF Start
<1>2. StoreEnds /\ TableLoosens /\ ReservedIsPending'
  BY <1>1, StayPut
<1>3. /\ LoopInv' /\ LoopSteady /\ Attended'
      /\ loop' \in [Runners -> Loops] /\ runner' \in Runners
      /\ \A g \in Runners : Looked(g)'
  BY <1>1, NewLoop DEF IInv
<1>4. ThreadInv' /\ TableInv'
  BY <1>1, <1>2, <1>3, ThreadsUnchanged, QuietTable DEF IInv, LoopSteady
<1>5. ScopeInv'
  BY <1>1, <1>2, <1>3, EndsLive DEF IInv, ScopeInv
<1>6. TypeOK'
  BY <1>1, <1>2, <1>3, QuietTypes DEF IInv, TypeOK, TableLoosens, threads, counted, world
<1> QED
  BY <1>3, <1>4, <1>5, <1>6 DEF IInv

LEMMA SignalEffect ==
    ASSUME TypeOK, OneLoop, SignalStop, UNCHANGED runner
    PROVE  /\ loop' \in [Runners -> Loops] /\ LoopSteady /\ OneLoop'
           /\ \A g \in Runners : /\ loop'[g].pc = loop[g].pc
                                 /\ loop'[g].ids = loop[g].ids /\ loop'[g].todo = loop[g].todo
<1>1. loop \in [Runners -> Loops] /\ runner \in Runners \cup {None}
  BY DEF TypeOK
<1>2. CASE runner = None
  BY <1>1, <1>2 DEF SignalStop, LoopSteady, ClaimsStay, OneLoop, Running, At
<1>3. CASE runner # None
  <2> DEFINE i == [loop[runner] EXCEPT !.cancel = TRUE]
  <2>1. runner \in Runners /\ loop[runner] \in Loops
    BY <1>1, <1>3
  <2>2. /\ i \in Loops /\ i.pc = loop[runner].pc /\ i.active = loop[runner].active
        /\ i.at = loop[runner].at /\ i.todo = loop[runner].todo /\ i.ids = loop[runner].ids
    BY <2>1 DEF Loops
  <2>3. loop' = [loop EXCEPT ![runner] = i]
    BY <1>3, <2>1 DEF SignalStop
  <2> HIDE DEF i
  <2>4. /\ loop' \in [Runners -> Loops] /\ loop'[runner] = i
        /\ \A g \in Runners \ {runner} : loop'[g] = loop[g]
    BY <1>1, <2>1, <2>2, <2>3
  <2>5. \A g \in Runners : /\ loop'[g].pc = loop[g].pc /\ loop'[g].active = loop[g].active
                           /\ loop'[g].at = loop[g].at /\ loop'[g].todo = loop[g].todo
                           /\ loop'[g].ids = loop[g].ids
                           /\ g # runner => loop'[g].cancel = loop[g].cancel
    BY <2>2, <2>4
  <2> QED
    BY <2>4, <2>5 DEF LoopSteady, ClaimsStay, OneLoop, Running, At
<1> QED
  BY <1>2, <1>3

\* The list of a loop that is only told to stop.
LEMMA SignalledLooked ==
    ASSUME IInv, SignalStop, UNCHANGED runner, StoreEnds
    PROVE  \A g \in Runners : Looked(g)'
<1> SUFFICES ASSUME NEW g \in Runners PROVE Looked(g)'
  OBVIOUS
<1>1. loop'[g].pc = loop[g].pc /\ loop'[g].ids = loop[g].ids /\ loop'[g].todo = loop[g].todo
  BY SignalEffect DEF IInv, LoopInv
<1>2. Unread(g)' = Unread(g)
  BY <1>1 DEF Unread
<1>3. \A t \in Tasks : Ends(t)
  BY DEF StoreEnds
<1>4. ASSUME NEW t \in Tasks
      PROVE  /\ status[t] # "running" => status'[t] # "running"
             /\ status[t] # "none" => status'[t] # "none"
             /\ status[t] \in Ended => status'[t] \in Ended
  BY <1>3 DEF Ends, Ended
<1>5. Looked(g)
  BY DEF IInv, ScopeInv
<1> QED
  BY <1>1, <1>2, <1>4, <1>5 DEF Looked

LEMMA StopStep ==
    ASSUME IInv, Stop
    PROVE  IInv'
<1>1. /\ lock' = "stopping" /\ SignalStop /\ Settle(Tasks, "killed")
      /\ stops' = stops + 1 /\ stops < MaxStops
      /\ UNCHANGED <<threads, runner, world, stalls>>
  BY DEF Stop, CanStop
<1>2. /\ StoreEnds /\ TableLoosens /\ ReservedIsPending' /\ faults' \in 0 .. MaxFaults
      /\ abandoned' \in BOOLEAN /\ (abandoned => abandoned')
      /\ ~abandoned' => LiveTasks' = {}
  BY <1>1, SettleEffect DEF IInv, ThreadInv, TableInv, Ended
<1>3. loop' \in [Runners -> Loops] /\ LoopSteady /\ OneLoop'
  BY <1>1, SignalEffect DEF IInv, LoopInv
<1>4. ThreadInv' /\ TableInv' /\ LoopKnows'
  BY <1>1, <1>2, <1>3, ThreadsUnchanged, QuietTable, QuietLoops DEF IInv, LoopSteady
<1>5. LoopInv'
  BY <1>1, <1>3, <1>4 DEF LoopInv, ContinueIsAlone
<1>6. ScopeInv'
  <2>1. \A g \in Runners : Looked(g)'
    BY <1>1, <1>2, SignalledLooked
  <2>2. status'[Root] # "none"
    BY <1>2, EndsLive DEF IInv, ScopeInv
  <2>3. ~abandoned' => AllMissed'
    BY <1>2 DEF AllMissed
  <2> QED
    BY <1>2, <2>1, <2>2, <2>3 DEF ScopeInv
<1>7. stops' \in 0 .. MaxStops
  BY <1>1, TaskRunnerAssumption DEF IInv, TypeOK
<1>8. TypeOK'
  BY <1>1, <1>2, <1>3, <1>7, QuietTypes DEF IInv, TypeOK, TableLoosens, threads, world
<1> QED
  BY <1>4, <1>5, <1>6, <1>8 DEF IInv

LEMMA ContinueStep ==
    ASSUME IInv, Continue
    PROVE  IInv'
<1>1. /\ lock' = "quiescing" /\ SignalStop /\ stops' = stops + 1 /\ stops < MaxStops
      /\ UNCHANGED <<store, table, threads, runner, world, abandoned, stalls, faults>>
  BY DEF Continue, CanStop
<1>2. StoreEnds /\ TableLoosens /\ ReservedIsPending'
  BY <1>1, StayPut
<1>3. loop' \in [Runners -> Loops] /\ LoopSteady /\ OneLoop'
  BY <1>1, SignalEffect DEF IInv, LoopInv
<1>4. ThreadInv' /\ TableInv' /\ LoopKnows'
  BY <1>1, <1>2, <1>3, ThreadsUnchanged, QuietTable, QuietLoops DEF IInv, LoopSteady
<1>5. LoopInv'
  BY <1>1, <1>3, <1>4 DEF LoopInv, ContinueIsAlone
<1>6. ScopeInv'
  <2>1. \A g \in Runners : Looked(g)'
    BY <1>1, <1>2, SignalledLooked
  <2>2. status'[Root] # "none"
    BY <1>2, EndsLive DEF IInv, ScopeInv
  <2> QED
    BY <1>1, <2>1, <2>2 DEF ScopeInv, Attended
<1>7. stops' \in 0 .. MaxStops
  BY <1>1, TaskRunnerAssumption DEF IInv, TypeOK
<1>8. TypeOK'
  BY <1>1, <1>2, <1>3, <1>7, QuietTypes DEF IInv, TypeOK, TableLoosens, threads, world
<1> QED
  BY <1>4, <1>5, <1>6, <1>8 DEF IInv

LEMMA NoneRuns ==
    ASSUME OneLoop, Quiet
    PROVE  \A g \in Runners : ~Running(g)
BY TaskRunnerAssumption DEF OneLoop, Quiet

LEMMA QuiesceStep ==
    ASSUME IInv, Quiesce
    PROVE  IInv'
<1>1. /\ Quiet /\ runner' = None
      /\ lock \in {"stopping", "quiescing"}
      /\ lock' = IF lock = "stopping" THEN "free" ELSE "continuing"
      /\ loop' = IF runner = None THEN loop ELSE [loop EXCEPT ![runner].active = FALSE]
      /\ UNCHANGED <<store, table, threads, world, abandoned, counted>>
  BY DEF Quiesce
<1>2. \A g \in Runners : ~Running(g)
  BY <1>1, NoneRuns DEF IInv, LoopInv
<1>3. StoreEnds /\ TableLoosens /\ ReservedIsPending' /\ LiveTasks' = LiveTasks
  BY <1>1, StayPut
<1>4. loop' = loop
  <2>1. loop \in [Runners -> Loops] /\ runner \in Runners \cup {None}
    BY DEF IInv, TypeOK
  <2>2. CASE runner = None
    BY <1>1, <2>2
  <2>3. CASE runner # None
    <3>1. runner \in Runners /\ loop[runner] \in Loops /\ loop[runner].active = FALSE
      BY <1>2, <2>1, <2>3, LoopsAre DEF IInv, LoopInv, OneLoop
    <3>2. [loop[runner] EXCEPT !.active = FALSE] = loop[runner]
      BY <3>1 DEF Loops
    <3>3. [loop EXCEPT ![runner].active = FALSE] = [loop EXCEPT ![runner] = loop[runner]]
      BY <2>1, <3>1, <3>2
    <3>4. [loop EXCEPT ![runner] = loop[runner]] = loop
      BY <2>1
    <3> QED
      BY <1>1, <2>3, <3>3, <3>4
  <2> QED
    BY <2>2, <2>3
<1>5. LoopSteady
  BY <1>4 DEF LoopSteady, ClaimsStay, At
<1>6. ThreadInv' /\ TableInv' /\ LoopKnows' /\ InFlight' = InFlight
  BY <1>1, <1>3, <1>5, ThreadsUnchanged, QuietTable, QuietLoops DEF IInv, LoopSteady
<1>7. LoopInv'
  <2>1. OneLoop'
    BY <1>1, <1>2, <1>4, TaskRunnerAssumption DEF IInv, LoopInv, OneLoop, Running, At
  <2>2. ContinueIsAlone'
    BY <1>1, <1>2, <1>4, <1>6 DEF ContinueIsAlone, Running, Quiet
  <2> QED
    BY <1>6, <2>1, <2>2 DEF LoopInv
<1>8. ScopeInv'
  <2>1. status' = status /\ abandoned' = abandoned /\ status[Root] # "none"
    BY <1>1 DEF store, IInv, ScopeInv
  <2>2. ASSUME NEW g \in Runners PROVE Looked(g)'
    <3>1. runner' # g /\ Looked(g)
      BY <1>1, TaskRunnerAssumption DEF IInv, ScopeInv
    <3> QED
      BY <1>4, <3>1 DEF Looked
  <2>3. CASE lock = "stopping"
    <3>1. ~abandoned => LiveTasks = {}
      BY <2>3 DEF IInv, ScopeInv
    <3>2. ~abandoned' => AllMissed'
      BY <1>3, <2>1, <3>1 DEF AllMissed
    <3> QED
      BY <1>1, <1>3, <2>1, <2>2, <2>3, <3>1, <3>2 DEF ScopeInv
  <2>4. CASE lock = "quiescing"
    <3>1. lock' = "continuing"
      BY <1>1, <2>4
    <3> QED
      BY <2>1, <2>2, <3>1 DEF ScopeInv, Attended
  <2> QED
    BY <1>1, <2>3, <2>4
<1>9. TypeOK'
  BY <1>1, <1>3, <1>4, QuietTypes DEF IInv, TypeOK, TableLoosens, threads, counted, world
<1> QED
  BY <1>6, <1>7, <1>8, <1>9 DEF IInv

\* The scope is opened again while nothing runs.
LEMMA ReopenedEffect ==
    ASSUME IInv, lock = "continuing", NEW E \in SUBSET FailedTasks, NEW st \in Live,
           Reopened(E, st), UNCHANGED <<lease, overdue, table, threads, world, stalls, stops>>,
           loop' \in [Runners -> Loops], runner' \in Runners \cup {None}, lock' = "free",
           abandoned' \in BOOLEAN, faults' \in 0 .. MaxFaults
    PROVE  TypeOK' /\ ThreadInv' /\ TableInv' /\ status'[Root] # "none"
<1>1. TypeOK /\ LoopInv /\ TableInv /\ ThreadInv /\ Root \in Tasks
  BY DEF IInv, Tasks
<1>2. InFlight = {} /\ InFlight' = {} /\ \A g \in Runners : ~Running(g)
  BY <1>1 DEF LoopInv, ContinueIsAlone, InFlight, threads
<1>4. /\ status \in [Tasks -> Statuses] /\ lease \in [Tasks -> Executions \cup {None}]
      /\ \A t \in Tasks : lease[t] # None => status[t] = "running" /\ job[lease[t]] = t
  BY <1>1 DEF TypeOK
<1>5. status' = [t \in Tasks |-> IF t = Root /\ status[t] = "failed" THEN st
                                 ELSE IF t \in E THEN "pending" ELSE status[t]]
  BY DEF Reopened
<1>6. /\ status' \in [Tasks -> Statuses]
      /\ \A t \in Tasks : status[t] # "failed" => status'[t] = status[t]
      /\ \A t \in Tasks : status[t] # "none" => status'[t] # "none"
  BY <1>4, <1>5 DEF Statuses, Live, FailedTasks
<1>7. /\ exec' = exec /\ job' = job /\ adm' = adm /\ queued' = queued
      /\ lease' = lease /\ overdue' = overdue
  BY DEF threads, table
<1>8. TypeOK'
  <2>1. \A t \in Tasks : lease'[t] # None => status'[t] = "running" /\ job'[lease'[t]] = t
    BY <1>4, <1>6, <1>7
  <2> QED
    BY <1>1, <1>6, <1>7, <2>1 DEF TypeOK, world
<1>9. ThreadInv'
  BY <1>1, <1>2, <1>7 DEF ThreadInv, JobGiven, ThreadsAreClaimed, OneThread, OverdueIsLeased
<1>10. TableInv'
  <2>1. Seated' /\ WithinLimit'
    BY <1>1, <1>7 DEF TableInv, Seated, WithinLimit, Occupying
  <2>2. Owned'
    <3> SUFFICES ASSUME NEW u \in Tasks, adm[u] \in {"running", "waiting"}
                 PROVE  \E y \in Executions : Keeps(y, u)'
      BY <1>7 DEF Owned
    <3>1. \A g \in Runners : ~Claims(g, u)
      BY <1>2 DEF Claims, At, Running
    <3> QED
      BY <1>1, <1>7, <3>1 DEF TableInv, Owned, Keeps
  <2>3. ReservedIsPending'
    BY <1>1, <1>6, <1>7 DEF TableInv, ReservedIsPending
  <2> QED
    BY <2>1, <2>2, <2>3 DEF TableInv
<1> QED
  BY <1>1, <1>6, <1>8, <1>9, <1>10 DEF IInv, ScopeInv

LEMMA ReopeningOf ==
    ASSUME Reopening
    PROVE  \E E \in SUBSET FailedTasks, st \in Live : Reopened(E, st)
<1>1. CASE Reopened(FailedTasks, "pending")
  BY <1>1 DEF Live
<1>2. CASE \E E \in (SUBSET FailedTasks) \ {{}} : Reopened(E, "running")
  BY <1>2 DEF Live
<1> QED
  BY <1>1, <1>2 DEF Reopening

LEMMA ResumeStep ==
    ASSUME IInv, Resume
    PROVE  IInv'
<1>1. /\ lock = "continuing" /\ lock' = "free" /\ Spawned
      /\ UNCHANGED <<lease, overdue, table, threads, world, abandoned, counted>>
  BY DEF Resume
<1>2. PICK E \in SUBSET FailedTasks, st \in Live : Reopened(E, st)
  BY ReopeningOf DEF Resume
<1>3. /\ LoopInv' /\ Attended'
      /\ loop' \in [Runners -> Loops] /\ runner' \in Runners
      /\ \A g \in Runners : Looked(g)'
  BY <1>1, NewLoop DEF IInv
<1>4. abandoned' \in BOOLEAN /\ faults' \in 0 .. MaxFaults /\ UNCHANGED <<stalls, stops>>
  BY <1>1 DEF IInv, TypeOK, counted
<1>5. TypeOK' /\ ThreadInv' /\ TableInv' /\ status'[Root] # "none"
  BY <1>1, <1>2, <1>3, <1>4, ReopenedEffect
<1>6. ScopeInv'
  BY <1>1, <1>3, <1>5 DEF ScopeInv
<1> QED
  BY <1>3, <1>5, <1>6 DEF IInv

\* A Continue that fails leaves nothing running, whatever it left in the store.
LEMMA GiveUpStep ==
    ASSUME IInv, GiveUpContinue
    PROVE  IInv'
<1>1. /\ lock = "continuing" /\ lock' = "free" /\ abandoned' = TRUE
      /\ UNCHANGED <<table, threads, loop, runner, world, stalls, stops>>
  BY DEF GiveUpContinue, Abandon
<1>2. /\ TypeOK /\ OneLoop /\ OverdueIsLeased /\ ReservedIsPending
      /\ runner = None /\ \A g \in Runners : ~Running(g)
  BY <1>1 DEF IInv, LoopInv, ContinueIsAlone, ThreadInv, TableInv
<1>3. LoopSteady /\ TableLoosens
  BY <1>1, <1>2, TableSame DEF LoopSteady, ClaimsStay, At
<1>4. /\ loop' \in [Runners -> Loops] /\ runner' \in Runners \cup {None}
      /\ abandoned' \in BOOLEAN
  BY <1>1, <1>2 DEF TypeOK
<1>5. TypeOK' /\ ThreadInv' /\ TableInv' /\ status'[Root] # "none"
  <2>1. ASSUME StoreEnds, faults' \in 0 .. MaxFaults, ReservedIsPending'
        PROVE  TypeOK' /\ ThreadInv' /\ TableInv' /\ status'[Root] # "none"
    <3>1. TypeOK'
      BY <1>1, <1>2, <1>3, <1>4, <2>1, QuietTypes DEF TypeOK, TableLoosens, threads, world
    <3>2. ThreadInv' /\ TableInv'
      BY <1>1, <1>2, <1>3, <2>1, ThreadsUnchanged, QuietTable DEF IInv, LoopSteady
    <3> QED
      BY <2>1, <3>1, <3>2, EndsLive DEF IInv, ScopeInv
  <2>2. CASE UNCHANGED <<store, faults>>
    BY <1>1, <1>2, <2>1, <2>2, StayPut, FaultCounted
  <2>3. CASE Continuable /\ End({Root}, "failed") /\ UNCHANGED faults
    <3>1. /\ StoreEnds
          /\ \A t \in Tasks : t \notin {Root} => status'[t] = status[t]
      BY <1>2, <2>3, EndEffect DEF Ended
    <3>2. \A t \in Tasks : status[t] \in Live /\ status'[t] \in Ended => status[t] # "pending"
      BY <2>3, <3>1 DEF Continuable, Live, Ended
    <3>3. ReservedIsPending'
      BY <1>2, <1>3, <3>1, <3>2, ReservedFollows
    <3> QED
      BY <1>2, <2>1, <2>3, <3>1, <3>3, FaultCounted
  <2>4. CASE Continuable /\ Reopening /\ CanFail /\ Fault /\ UNCHANGED <<lease, overdue>>
    <3>1. PICK E \in SUBSET FailedTasks, st \in Live : Reopened(E, st)
      BY <2>4, ReopeningOf
    <3>2. faults' \in 0 .. MaxFaults
      BY <1>2, <2>4, FaultCounted
    <3> QED
      BY <1>1, <1>4, <2>4, <3>1, <3>2, ReopenedEffect
  <2> QED
    BY <2>2, <2>3, <2>4 DEF GiveUpContinue
<1>6. LoopInv'
  <2>1. OneLoop'
    BY <1>1, <1>2 DEF OneLoop, Running, At
  <2>2. LoopKnows'
    BY <1>1, <1>2 DEF LoopKnows, Running, At
  <2> QED
    BY <1>1, <2>1, <2>2 DEF LoopInv, ContinueIsAlone
<1>7. ScopeInv'
  <2>1. ASSUME NEW g \in Runners PROVE Looked(g)'
    <3>1. runner' # g /\ Looked(g)
      BY <1>1, <1>2, TaskRunnerAssumption DEF IInv, ScopeInv
    <3> QED
      BY <1>1, <3>1 DEF Looked
  <2> QED
    BY <1>1, <1>5, <2>1 DEF ScopeInv
<1> QED
  BY <1>5, <1>6, <1>7 DEF IInv

-----------------------------------------------------------------------------
LEMMA InitIInv ==
    ASSUME Init PROVE IInv
<1>1. /\ Root \in Tasks /\ Root \notin Agents /\ None \notin Runners
      /\ MaxActive \in Nat \ {0} /\ {MaxStalls, MaxStops, MaxFaults} \subseteq Nat
  BY TaskRunnerAssumption DEF Tasks
<1>2. /\ Idle \in Loops /\ Idle.pc = "none" /\ Idle.active = FALSE /\ Idle.cancel = FALSE
      /\ Idle.ids = {}
  BY DEF Idle, Loops, LoopPCs
<1>3. /\ \A h \in Runners : loop[h] = Idle
      /\ loop \in [Runners -> Loops]
  BY <1>2 DEF Init
<1>4. InFlight = {}
  BY DEF Init, InFlight
<1>5. TypeOK
  <2>1. /\ status \in [Tasks -> Statuses] /\ adm \in [Tasks -> Phases]
        /\ exec \in [Executions -> ExecPCs]
    BY DEF Init, Statuses, Live, Phases, ExecPCs
  <2>2. /\ lease \in [Tasks -> Executions \cup {None}] /\ \A t \in Tasks : lease[t] = None
        /\ job \in [Executions -> Tasks \cup {None}]
    BY DEF Init
  <2>3. /\ overdue \subseteq Tasks /\ queued \subseteq Tasks /\ unmatched \subseteq Tasks
        /\ runner \in Runners \cup {None} /\ abandoned \in BOOLEAN /\ short \in BOOLEAN
        /\ lock \in {"free", "stopping", "quiescing", "continuing"}
    BY DEF Init
  <2>4. stalls \in 0 .. MaxStalls /\ stops \in 0 .. MaxStops /\ faults \in 0 .. MaxFaults
    BY <1>1 DEF Init
  <2> QED
    BY <1>3, <2>1, <2>2, <2>3, <2>4 DEF TypeOK
<1>6. ThreadInv
  BY <1>4 DEF Init, ThreadInv, JobGiven, ThreadsAreClaimed, OneThread, OverdueIsLeased
<1>7. TableInv
  <2>1. Occupying = {}
    BY DEF Init, Occupying
  <2>2. Cardinality(Occupying) = 0
    BY <2>1, FS_EmptySet
  <2> QED
    BY <1>1, <2>2 DEF Init, TableInv, Seated, Owned, ReservedIsPending, WithinLimit
<1>8. LoopInv
  BY <1>1, <1>2, <1>3 DEF Init, LoopInv, OneLoop, LoopKnows, ContinueIsAlone, Running, At
<1>9. ScopeInv
  <2>1. \A h \in Runners : Looked(h)
    BY <1>2, <1>3 DEF Looked, LookPCs
  <2> QED
    BY <1>1, <1>2, <1>3, <2>1 DEF Init, ScopeInv, Attended, NewHandles
<1> QED
  BY <1>5, <1>6, <1>7, <1>8, <1>9 DEF IInv

LEMMA NextIInv ==
    ASSUME IInv, [Next]_vars PROVE IInv'
<1>1. CASE UNCHANGED vars
  BY <1>1, NothingMoves
<1>2. CASE Start \/ Stop \/ Continue \/ Quiesce \/ Resume \/ GiveUpContinue
  BY <1>2, StartStep, StopStep, ContinueStep, QuiesceStep, ResumeStep, GiveUpStep
<1>3. ASSUME NEW h \in Runners, Cycle(h) PROVE IInv'
  BY <1>3, TopStep, ExpireStep, OrphansStep, ScanStep, ListStep, ReadRootStep, ReadStep,
     JudgeStep, PickStep, LookStep, GatherStep, EachStep, CycleEndsStep, ClaimStep,
     DispatchStep, UnrunnableStep, ErrorStep, UnsavedStep DEF Cycle
<1>4. ASSUME NEW x \in Executions, Thread(x) PROVE IInv'
  BY <1>4, ReturnStep, ReportStep, ReleaseStep, LeaveStep, PanicStep, VanishStep,
     ReportPanicStep DEF Thread
<1>5. ASSUME NEW x \in Executions, Suspend(x) \/ (\E a \in Agents : Spawn(x, a)) PROVE IInv'
  BY <1>5, SuspendStep, SpawnStep
<1>6. ASSUME NEW a \in Agents, KillAgent(a) PROVE IInv'
  BY <1>6, KillAgentStep
<1>7. ASSUME NEW t \in Tasks, Overdue(t) \/ RemoveRole(t) PROVE IInv'
  BY <1>7, OverdueStep, RemoveRoleStep
<1>8. CASE Shortage \/ Relief
  BY <1>8, MemoryStep
<1> QED
  BY <1>1, <1>2, <1>3, <1>4, <1>5, <1>6, <1>7, <1>8 DEF Next

LEMMA Inductive == Spec => []IInv
  BY InitIInv, NextIInv, PTL DEF Spec

\* Every reachable state has its type; a lease is held by a running task and
\* names an execution of that task (TaskLease, TaskRunner, RunnerManager).
THEOREM TypeCorrect == Spec => []TypeOK
<1>1. IInv => TypeOK
  BY DEF IInv
<1> QED
  BY <1>1, Inductive, PTL

\* Threads at work have different tasks, and each task has a place.
LEMMA AdmittedAtWork ==
    ASSUME IInv PROVE WorkIsAdmitted
<1> DEFINE W == {x \in Executions : exec[x] \in {"granted", "working"}}
           f == [x \in W |-> job[x]]
<1>1. \A x \in W : x \in InFlight /\ job[x] \in Occupying
  <2> SUFFICES ASSUME NEW x \in W PROVE x \in InFlight /\ job[x] \in Occupying
    OBVIOUS
  <2>1. x \in InFlight /\ job[x] \in Tasks
    BY JobOf
  <2> QED
    BY <2>1 DEF IInv, TableInv, Seated, Occupying
<1>2. f \in Injection(W, Occupying)
  <2>1. f \in [W -> Occupying]
    BY <1>1
  <2>2. \A x, y \in W : f[x] = f[y] => x = y
    BY <1>1 DEF IInv, ThreadInv, OneThread
  <2> QED
    BY <2>1, <2>2 DEF Injection, IsInjective
<1>3. Cardinality(W) <= Cardinality(Occupying) /\ IsFiniteSet(W)
  BY <1>2, OccupyingIsFinite, FS_Injection
<1>4. Cardinality(W) \in Nat
  BY <1>3, FS_CardinalityType
<1>5. Cardinality(W) <= MaxActive
  BY <1>3, <1>4, OccupyingIsFinite DEF IInv, TableInv, WithinLimit
<1> QED
  BY <1>5 DEF WorkIsAdmitted

\* The limit of the admission table bounds the executor threads that work,
\* through waits, stops, expiries, restarts and failing checkpoints
\* (ExecutionAdmissionController::acquire, admit_locked, try_resume).
THEOREM LimitHolds == Spec => []WorkIsAdmitted
<1>1. IInv => WorkIsAdmitted
  BY AdmittedAtWork
<1> QED
  BY <1>1, Inductive, PTL

LEMMA RestIsClean ==
    ASSUME IInv PROVE RestsClean
<1> SUFFICES ASSUME AtRest, ~abandoned, NEW t \in Tasks,
                    status[t] \in Live \/ adm[t] # "none"
             PROVE  Missed(t)
  BY DEF RestsClean
<1>1. /\ lock = "free" /\ InFlight = {} /\ \A h \in Runners : ~Running(h)
      /\ \E h \in Runners : loop[h].pc = "ended"
  BY DEF AtRest
<1>2. AllMissed
  <2>1. ~Attended
    BY <1>1, TaskRunnerAssumption DEF Attended, NewHandles, IInv, TypeOK
  <2> QED
    BY <2>1 DEF IInv, ScopeInv
<1>3. CASE status[t] \in Live
  BY <1>2, <1>3 DEF AllMissed, LiveTasks
<1>4. CASE adm[t] # "none"
  <2>1. \A x \in Executions : ~Keeps(x, t)
    BY <1>1 DEF Keeps, InFlight
  <2>2. \A h \in Runners : ~Claims(h, t)
    BY <1>1 DEF Claims, At, Running
  <2>3. adm[t] \notin {"running", "waiting"}
    BY <2>1, <2>2 DEF IInv, TableInv, Owned
  <2>4. adm[t] = "reserved"
    BY <1>4, <2>3 DEF IInv, TypeOK, Phases
  <2>5. status[t] \in Live
    BY <2>4 DEF IInv, TableInv, ReservedIsPending, Live
  <2> QED
    BY <1>3, <2>5
<1> QED
  BY <1>3, <1>4

\* A scope at rest holds no live task and no place of the admission table,
\* whatever panics and failing checkpoints happened on the way, except a
\* pending agent that terminal_state did not list before it saw the root ended.
\* A stop, a Continue or a loop that reported an error of its own is excused
\* (terminal_state, finalize_unrunnable_outcome, settle_subtree_in_store,
\* quiesce_for_restart, release_pending).
THEOREM ScopeAtRest == Spec => []RestsClean
<1>1. IInv => RestsClean
  BY RestIsClean
<1> QED
  BY <1>1, Inductive, PTL

-----------------------------------------------------------------------------
(* What a step may never do *)

LEMMA OwnHandle ==
    ASSUME TypeOK, NEW g \in Runners, Cycle(g), NEW h \in Runners, h # g
    PROVE  loop'[h] = loop[h]
<1>1. loop \in [Runners -> Loops]
  BY DEF TypeOK
<1>2. CASE \/ Top(g) \/ Expire(g) \/ Orphans(g) \/ Judge(g) \/ CycleEnds(g)
           \/ Unrunnable(g) \/ Error(g) \/ Unsaved(g)
  BY <1>1, <1>2 DEF Top, Expire, Orphans, Judge, CycleEnds, Unrunnable, Error, Unsaved,
                    Go, Exit, Fresh
<1>3. CASE Scan(g) \/ List(g) \/ ReadRoot(g) \/ Pick(g) \/ Look(g)
  BY <1>1, <1>3 DEF Scan, List, ReadRoot, Pick, Look
<1>6. CASE Read(g) \/ Gather(g)
  BY <1>1, <1>6 DEF Read, Gather, Go
<1>4. CASE Each(g)
  BY <1>1, <1>4 DEF Each
<1>5. CASE Claim(g) \/ Dispatch(g)
  BY <1>1, <1>5 DEF Claim, Dispatch
<1> QED
  BY <1>2, <1>3, <1>4, <1>5, <1>6 DEF Cycle

LEMMA ThreadKeepsLoop ==
    ASSUME NEW x \in Executions,
           Thread(x) \/ Suspend(x) \/ (\E a \in Agents : Spawn(x, a))
    PROVE  loop' = loop
BY DEF Thread, Return, Report, Release, Leave, Panic, Vanish, ReportPanic, Suspend, Spawn

LEMMA GivenUp ==
    ASSUME IInv, Next, NEW h \in Runners, At(h, "unrunnable"), loop'[h].pc = "ended",
           status' # status
    PROVE  \E t \in LiveTasks : lease[t] = None
<1>1. TypeOK /\ LoopInv /\ OneLoop /\ loop \in [Runners -> Loops]
  BY DEF IInv, LoopInv, TypeOK
<1>2. CASE Start \/ Resume \/ Quiesce \/ GiveUpContinue
  <2>1. CASE Spawned
    <3>1. PICK g \in Runners : loop[g].pc = "none" /\ \A f \in Runners : ~Running(f)
      BY <1>1, <2>1, SpawnedEffect
    <3> QED
      BY <3>1 DEF Running, At
  <2>2. CASE Quiesce
    <3>1. \A g \in Runners : ~Running(g)
      BY <1>1, <2>2, NoneRuns DEF Quiesce
    <3> QED
      BY <3>1 DEF Running, At
  <2>3. CASE UNCHANGED loop
    BY <2>3 DEF At
  <2> QED
    BY <1>2, <2>1, <2>2, <2>3 DEF Start, Resume, GiveUpContinue
<1>3. CASE Stop \/ Continue
  <2>1. loop'[h].pc = loop[h].pc
    BY <1>1, <1>3, SignalEffect DEF Stop, Continue
  <2> QED
    BY <2>1 DEF At
<1>4. ASSUME NEW g \in Runners, Cycle(g) PROVE \E t \in LiveTasks : lease[t] = None
  <2>1. g = h
    BY <1>1, <1>4, OwnHandle DEF At
  <2>2. Unrunnable(h)
    <3>1. ~Unsaved(h)
      BY DEF Unsaved, store
    <3> QED
      BY <1>4, <2>1, <3>1 DEF Cycle, At, Top, Expire, Orphans, Scan, List, ReadRoot, Read, Judge,
                              Pick, Look, Gather, Each, CycleEnds, Claim, Dispatch, Error
  <2>3. loop[h].cand \subseteq Tasks /\ loop[h] \in Loops
    BY <1>1, LoopsAre
  <2>4. CASE StillUnrunnable(loop[h].cand)
    BY <2>3, <2>4 DEF StillUnrunnable, LiveTasks
  <2>5. CASE Go(h, "top")
    <3>1. loop'[h].pc = "top"
      BY <1>1, <2>3, <2>5 DEF Go, Loops
    <3> QED
      BY <3>1
  <2> QED
    BY <2>2, <2>4, <2>5 DEF Unrunnable
<1>5. CASE \E x \in Executions : Thread(x) \/ Suspend(x) \/ (\E a \in Agents : Spawn(x, a))
  BY <1>5, ThreadKeepsLoop DEF At
<1>6. CASE \E a \in Agents : KillAgent(a)
  BY <1>6 DEF KillAgent, At
<1>7. CASE \E t \in Tasks : Overdue(t) \/ RemoveRole(t)
  BY <1>7 DEF Overdue, RemoveRole, At
<1>8. CASE Shortage \/ Relief
  BY <1>8 DEF Shortage, Relief, At
<1> QED
  BY <1>2, <1>3, <1>4, <1>5, <1>6, <1>7, <1>8 DEF Next

\* A loop gives its scope up only while some live task of it has no executor,
\* whatever was claimed since the cycle read the runnable tasks
\* (fail_unrunnable_execution_scope, finalize_unrunnable_outcome).
THEOREM GivenUpWithCause == Spec => GivenUpForCause
<1> DEFINE Cause == \A h \in Runners :
                       At(h, "unrunnable") /\ loop'[h].pc = "ended" /\ status' # status
                          => \E t \in LiveTasks : lease[t] = None
<1>1. IInv /\ [Next]_vars => [Cause]_vars
  BY GivenUp
<1>2. GivenUpForCause <=> [][Cause]_vars
  BY DEF GivenUpForCause
<1> HIDE DEF Cause
<1>3. Spec => [][Cause]_vars
  BY <1>1, Inductive, PTL DEF Spec
<1> QED
  BY <1>2, <1>3

-----------------------------------------------------------------------------
(* TaskRunner implements TaskScope *)

Over == {x \in Executions : exec[x] \in {"unseen", "over"}}
ScopeStep == [Scope!Next]_(Scope!vars)

\* The abstract sets are the detailed ones.
LEMMA SameSets ==
    ASSUME JobGiven
    PROVE  /\ Scope!Tasks = Tasks /\ Scope!Live = Live
           /\ Scope!AtWork = InFlight
BY DEF Scope!Tasks, Scope!Live, Scope!AtWork, Tasks, Live, JobGiven, InFlight

LEMMA ScopeStutters ==
    ASSUME UNCHANGED <<status, lease, job>>, Over' = Over
    PROVE  ScopeStep
BY DEF ScopeStep, Scope!vars, Over

\* Tasks that end together are an Abort of those among them that were live.
LEMMA EndAborts ==
    ASSUME IInv, NEW S \in SUBSET Tasks, NEW st \in {"failed", "killed"}, End(S, st),
           UNCHANGED job, Over' = Over
    PROVE  ScopeStep
<1>1. TypeOK /\ JobGiven
  BY DEF IInv, ThreadInv
<1>2. /\ status \in [Tasks -> Statuses] /\ lease \in [Tasks -> Executions \cup {None}]
      /\ \A t \in Tasks : lease[t] # None => status[t] = "running"
  BY <1>1 DEF TypeOK
<1>3. /\ status' = [t \in Tasks |-> IF t \in S /\ status[t] \in Live THEN st ELSE status[t]]
      /\ lease' = [t \in Tasks |-> IF t \in S THEN None ELSE lease[t]]
  BY DEF End
<1>4. PICK A \in SUBSET Tasks : A = S \cap LiveTasks
  OBVIOUS
<1>5. \A t \in Tasks : t \in A <=> t \in S /\ status[t] \in Live
  BY <1>4 DEF LiveTasks
<1>6. \A t \in Tasks : t \in S /\ t \notin A => lease[t] = None
  BY <1>2, <1>5 DEF Live
<1>7. status' = [t \in Tasks |-> IF t \in A THEN st ELSE status[t]]
  BY <1>3, <1>5
<1>8. lease' = [t \in Tasks |-> IF t \in A THEN None ELSE lease[t]]
  BY <1>3, <1>5, <1>6
<1>9. CASE A = {}
  <2>1. status' = status
    BY <1>2, <1>7, <1>9
  <2>2. lease' = lease
    BY <1>2, <1>8, <1>9
  <2> QED
    BY <2>1, <2>2, ScopeStutters
<1>10. CASE A # {}
  <2>1. \A t \in A : status[t] \in Live
    BY <1>5
  <2>2. Scope!Abort(A, st)
    BY <1>1, <1>7, <1>8, <1>10, <2>1, SameSets DEF Scope!Abort, Over
  <2>3. A \in SUBSET Scope!Tasks
    BY <1>1, SameSets
  <2> QED
    BY <2>2, <2>3 DEF ScopeStep, Scope!Next
<1> QED
  BY <1>9, <1>10

LEMMA SettleAborts ==
    ASSUME IInv, NEW S \in SUBSET Tasks, NEW st \in {"failed", "killed"},
           Settled(S, st) \/ Unsettled(S), UNCHANGED job, Over' = Over
    PROVE  ScopeStep
<1>1. CASE Settled(S, st)
  BY <1>1, EndAborts DEF Settled
<1>2. CASE Unsettled(S)
  BY <1>2, ScopeStutters DEF Unsettled, store
<1> QED
  BY <1>1, <1>2

LEMMA SameThreads ==
    ASSUME UNCHANGED threads PROVE job' = job /\ Over' = Over
BY DEF threads, Over

LEMMA ManagerMaps ==
    ASSUME IInv, Start \/ Stop \/ Continue \/ Quiesce
    PROVE  ScopeStep
<1>1. job' = job /\ Over' = Over
  BY SameThreads DEF Start, Stop, Continue, Quiesce
<1>2. CASE Start \/ Continue \/ Quiesce
  BY <1>1, <1>2, ScopeStutters DEF Start, Continue, Quiesce, store
<1>3. CASE Stop
  BY <1>1, <1>3, SettleAborts DEF Stop, Settle
<1> QED
  BY <1>2, <1>3

\* What a Continue opens again is a Reopen.
LEMMA ReopeningMaps ==
    ASSUME IInv, lock = "continuing", FailedTasks # {}, Reopening,
           UNCHANGED <<lease, threads>>
    PROVE  ScopeStep
<1>1. job' = job /\ Over' = Over
  BY SameThreads
<1>2. JobGiven /\ InFlight = {}
  BY DEF IInv, ThreadInv, LoopInv, ContinueIsAlone
<1>3. PICK E \in SUBSET FailedTasks, st \in Live : E # {} /\ Reopened(E, st)
  <2>1. CASE Reopened(FailedTasks, "pending")
    BY <2>1 DEF Live
  <2>2. CASE \E E \in (SUBSET FailedTasks) \ {{}} : Reopened(E, "running")
    BY <2>2 DEF Live
  <2> QED
    BY <2>1, <2>2 DEF Reopening
<1>4. PICK F \in SUBSET Tasks : F = E \cup {t \in {Root} : status[t] = "failed"}
  BY DEF FailedTasks, Known, Tasks
<1>5. F # {} /\ \A t \in F : status[t] = "failed"
  BY <1>3, <1>4 DEF FailedTasks
<1>6. status' = [t \in Tasks |-> IF t \notin F THEN status[t]
                                 ELSE IF t = Root THEN st ELSE "pending"]
  <2>1. status' = [t \in Tasks |-> IF t = Root /\ status[t] = "failed" THEN st
                                   ELSE IF t \in E THEN "pending" ELSE status[t]]
    BY <1>3 DEF Reopened
  <2>2. \A t \in Tasks : (IF t = Root /\ status[t] = "failed" THEN st
                          ELSE IF t \in E THEN "pending" ELSE status[t])
                       = (IF t \notin F THEN status[t]
                          ELSE IF t = Root THEN st ELSE "pending")
    BY <1>4, <1>5
  <2> QED
    BY <2>1, <2>2
<1>7. Scope!Reopen(F)
  BY <1>1, <1>2, <1>5, <1>6, SameSets DEF Scope!Reopen, Over
<1>8. F \in SUBSET Scope!Tasks
  BY <1>2, SameSets
<1> QED
  BY <1>7, <1>8 DEF ScopeStep, Scope!Next

LEMMA ResumeMaps ==
    ASSUME IInv, Resume \/ GiveUpContinue
    PROVE  ScopeStep
<1>1. lock = "continuing" /\ UNCHANGED threads /\ job' = job /\ Over' = Over
  BY SameThreads DEF Resume, GiveUpContinue
<1>2. CASE UNCHANGED store
  BY <1>1, <1>2, ScopeStutters DEF store
<1>3. CASE Continuable /\ Reopening /\ UNCHANGED <<lease, overdue>>
  BY <1>1, <1>3, ReopeningMaps DEF Continuable
<1>4. CASE End({Root}, "failed")
  <2>1. {Root} \in SUBSET Tasks
    BY DEF Tasks
  <2> QED
    BY <1>1, <1>4, <2>1, EndAborts
<1> QED
  BY <1>2, <1>3, <1>4 DEF Resume, GiveUpContinue

\* A claim is a Grant: no earlier thread of the task is still there.
LEMMA ClaimMaps ==
    ASSUME IInv, NEW h \in Runners, Claim(h)
    PROVE  ScopeStep
<1>1. /\ TypeOK /\ JobGiven /\ exec \in [Executions -> ExecPCs]
  BY DEF IInv, ThreadInv, TypeOK
<1>2. PICK t : t = loop[h].at
  OBVIOUS
<1>3. ASSUME NEW x \in Executions, t \in Runnable, exec[x] = "none",
             status' = [status EXCEPT ![t] = "running"],
             lease' = [lease EXCEPT ![t] = x],
             exec' = [exec EXCEPT ![x] = "granted"],
             job' = [job EXCEPT ![x] = t]
      PROVE  ScopeStep
  <2>1. t \in Tasks /\ status[t] = "pending"
    BY <1>3 DEF Runnable
  <2>2. job[x] = None
    BY <1>1, <1>3 DEF JobGiven
  <2>3. \A y \in InFlight : job[y] # t
    BY <2>1 DEF IInv, ThreadInv, ThreadsAreClaimed
  <2>4. Over' = Over
    BY <1>1, <1>3 DEF Over
  <2>5. Scope!Grant(t, x)
    BY <1>1, <1>3, <2>1, <2>2, <2>3, <2>4, SameSets DEF Scope!Grant, Over
  <2>6. t \in Scope!Tasks
    BY <1>1, <2>1, SameSets
  <2> QED
    BY <2>5, <2>6 DEF ScopeStep, Scope!Next
<1>4. ASSUME UNCHANGED <<status, lease, threads>> PROVE ScopeStep
  BY <1>4, SameThreads, ScopeStutters
<1> QED
  BY <1>2, <1>3, <1>4, ClaimEffect

LEMMA CycleMaps ==
    ASSUME IInv, NEW h \in Runners, Cycle(h)
    PROVE  ScopeStep
<1>1. CASE \/ Top(h) \/ Scan(h) \/ List(h) \/ ReadRoot(h) \/ Read(h) \/ Judge(h) \/ Pick(h)
           \/ Look(h) \/ Gather(h) \/ Each(h) \/ CycleEnds(h) \/ Unsaved(h)
  <2>1. UNCHANGED <<status, lease, threads>>
    BY <1>1 DEF Top, Scan, List, ReadRoot, Read, Judge, Pick, Look, Gather, Each, CycleEnds,
                Unsaved, store
  <2> QED
    BY <2>1, SameThreads, ScopeStutters
<1>2. CASE Expire(h)
  <2>1. UNCHANGED threads /\ overdue \subseteq Tasks
    BY <1>2 DEF Expire, IInv, TypeOK
  <2>2. CASE UNCHANGED store
    BY <2>1, <2>2, SameThreads, ScopeStutters DEF store
  <2>3. CASE \E t \in overdue : End({t}, "failed")
    BY <2>1, <2>3, SameThreads, EndAborts
  <2> QED
    BY <1>2, <2>2, <2>3 DEF Expire
<1>3. CASE Orphans(h)
  <2>1. UNCHANGED threads
    BY <1>3 DEF Orphans
  <2>2. PICK S \in SUBSET Tasks : S = Orphaned
    BY DEF Orphaned, LiveTasks
  <2>3. CASE UNCHANGED store
    BY <2>1, <2>3, SameThreads, ScopeStutters DEF store
  <2>4. CASE End(S, "killed")
    BY <2>1, <2>4, SameThreads, EndAborts
  <2> QED
    BY <1>3, <2>2, <2>3, <2>4 DEF Orphans
<1>4. CASE Claim(h)
  BY <1>4, ClaimMaps
<1>5. CASE Dispatch(h)
  <2>1. UNCHANGED <<store, job>> /\ At(h, "dispatch")
    BY <1>5 DEF Dispatch
  <2>2. /\ exec[loop[h].at] = "granted" /\ exec \in [Executions -> ExecPCs]
        /\ exec' = [exec EXCEPT ![loop[h].at] = "working"]
    BY <1>5, <2>1 DEF Dispatch, IInv, LoopInv, LoopKnows, TypeOK
  <2>3. Over' = Over
    BY <2>2 DEF Over
  <2> QED
    BY <2>1, <2>3, ScopeStutters DEF store
<1>6. CASE Unrunnable(h) \/ Error(h)
  <2>1. UNCHANGED threads
    BY <1>6 DEF Unrunnable, Error
  <2>2. CASE UNCHANGED store
    BY <2>1, <2>2, SameThreads, ScopeStutters DEF store
  <2>3. CASE Settle(Tasks, "failed")
    BY <2>1, <2>3, SameThreads, SettleAborts DEF Settle
  <2> QED
    BY <1>6, <2>2, <2>3 DEF Unrunnable, Error
<1> QED
  BY <1>1, <1>2, <1>3, <1>4, <1>5, <1>6 DEF Cycle

LEMMA ThreadMaps ==
    ASSUME IInv, NEW x \in Executions, Thread(x) \/ Suspend(x)
    PROVE  ScopeStep
<1>1. /\ TypeOK /\ JobGiven /\ exec \in [Executions -> ExecPCs]
      /\ lease \in [Tasks -> Executions \cup {None}] /\ status \in [Tasks -> Statuses]
  BY DEF IInv, ThreadInv, TypeOK
<1>2. CASE Suspend(x) \/ Return(x) \/ Release(x) \/ Panic(x)
  <2>1. UNCHANGED <<store, job>>
    BY <1>2 DEF Suspend, Return, Release, Panic
  <2>2. PICK pc \in ExecPCs \ {"unseen", "over"} :
             exec' = [exec EXCEPT ![x] = pc] /\ exec[x] \notin {"unseen", "over"}
    BY <1>2 DEF Suspend, Return, Release, Panic, ExecPCs
  <2>3. Over' = Over
    BY <1>1, <2>2 DEF Over
  <2> QED
    BY <2>1, <2>3, ScopeStutters DEF store
<1>3. CASE Report(x)
  <2>1. /\ exec' = [exec EXCEPT ![x] = "reported"] /\ exec[x] \in {"working", "ending"}
        /\ job' = job
    BY <1>3 DEF Report
  <2>2. Over' = Over
    BY <1>1, <2>1 DEF Over
  <2>3. x \in InFlight /\ job[x] \in Tasks
    BY <2>1, JobOf
  <2>4. CASE UNCHANGED store
    BY <2>1, <2>2, <2>4, ScopeStutters DEF store
  <2>5. CASE \E st \in {"failed", "killed"} : End({job[x]}, st)
    BY <2>1, <2>2, <2>3, <2>5, EndAborts
  <2>6. CASE Holds(x) /\ End({job[x]}, "completed")
    <3>1. PICK t \in Tasks : t = job[x]
      BY <2>3
    <3>2. lease[t] = x /\ status[t] = "running"
      <4>1. None \notin Executions
        BY TaskRunnerAssumption
      <4> QED
        BY <1>1, <2>6, <3>1, <4>1 DEF Holds, TypeOK
    <3>3. /\ status' = [u \in Tasks |-> IF u \in {t} /\ status[u] \in Live
                                        THEN "completed" ELSE status[u]]
          /\ lease' = [u \in Tasks |-> IF u \in {t} THEN None ELSE lease[u]]
      BY <2>6, <3>1 DEF End
    <3>4. status' = [status EXCEPT ![t] = "completed"]
      BY <1>1, <3>2, <3>3 DEF Live
    <3>5. lease' = [lease EXCEPT ![t] = None]
      BY <1>1, <3>3
    <3>6. Scope!Complete(x)
      BY <1>1, <2>1, <2>2, <2>3, <3>1, <3>2, <3>4, <3>5, SameSets DEF Scope!Complete, Over
    <3> QED
      BY <3>6 DEF ScopeStep, Scope!Next
  <2> QED
    BY <1>3, <2>4, <2>5, <2>6 DEF Report
<1>4. CASE Leave(x) \/ Vanish(x)
  <2>1. /\ exec[x] \in {"released", "fallen"} /\ UNCHANGED <<store, job>>
        /\ \E pc \in {"unseen", "over"} : exec' = [exec EXCEPT ![x] = pc]
    BY <1>4 DEF Leave, Vanish
  <2>2. Over' = Over \cup {x}
    BY <1>1, <2>1 DEF Over
  <2>3. x \in InFlight
    BY <2>1, JobOf
  <2>4. Scope!Leave(x)
    BY <1>1, <2>1, <2>2, <2>3, SameSets DEF Scope!Leave, Over, store
  <2> QED
    BY <2>4 DEF ScopeStep, Scope!Next
<1>5. CASE ReportPanic(x)
  <2>1. exec' = [exec EXCEPT ![x] = "over"] /\ exec[x] = "unseen" /\ job' = job
    BY <1>5 DEF ReportPanic
  <2>2. Over' = Over
    BY <1>1, <2>1 DEF Over
  <2>3. job[x] \in Tasks
    BY <1>1, <2>1, JobIsTask
  <2>4. CASE UNCHANGED store
    BY <2>1, <2>2, <2>4, ScopeStutters DEF store
  <2>5. CASE End({job[x]}, "failed")
    BY <2>1, <2>2, <2>3, <2>5, EndAborts
  <2> QED
    BY <1>5, <2>4, <2>5 DEF ReportPanic
<1> QED
  BY <1>2, <1>3, <1>4, <1>5 DEF Thread

LEMMA SpawnMaps ==
    ASSUME IInv, NEW x \in Executions, NEW a \in Agents, Spawn(x, a)
    PROVE  ScopeStep
<1>1. /\ UNCHANGED <<lease, threads>> /\ status[a] = "none"
      /\ exec[x] = "working" /\ lease[Root] = x
  BY DEF Spawn, Holds
<1>2. job' = job /\ Over' = Over /\ JobGiven
  BY <1>1, SameThreads DEF IInv, ThreadInv
<1>3. CASE UNCHANGED status
  BY <1>1, <1>2, <1>3, ScopeStutters
<1>4. CASE status' = [status EXCEPT ![a] = "pending"]
  <2>1. lease[Root] \in InFlight
    BY <1>1, JobOf
  <2>2. Scope!Spawn(a)
    BY <1>1, <1>2, <1>4, <2>1, SameSets DEF Scope!Spawn, Over
  <2> QED
    BY <2>2 DEF ScopeStep, Scope!Next
<1> QED
  BY <1>3, <1>4 DEF Spawn

LEMMA NextMaps ==
    ASSUME IInv, [Next]_vars PROVE ScopeStep
<1>1. CASE UNCHANGED vars
  BY <1>1, ScopeStutters, SameThreads DEF vars, store
<1>2. CASE Start \/ Stop \/ Continue \/ Quiesce \/ Resume \/ GiveUpContinue
  BY <1>2, ManagerMaps, ResumeMaps
<1>3. CASE \E h \in Runners : Cycle(h)
  BY <1>3, CycleMaps
<1>4. CASE \E x \in Executions : Thread(x) \/ Suspend(x) \/ (\E a \in Agents : Spawn(x, a))
  BY <1>4, ThreadMaps, SpawnMaps
<1>5. CASE \E a \in Agents : KillAgent(a)
  <2>1. PICK a \in Agents : KillAgent(a)
    BY <1>5
  <2>2. {a} \in SUBSET Tasks
    BY DEF Tasks
  <2> QED
    BY <2>1, <2>2, SettleAborts, SameThreads DEF KillAgent
<1>6. CASE (\E t \in Tasks : Overdue(t) \/ RemoveRole(t)) \/ Shortage \/ Relief
  BY <1>6, SameThreads, ScopeStutters DEF Overdue, RemoveRole, Shortage, Relief, store
<1> QED
  BY <1>1, <1>2, <1>3, <1>4, <1>5, <1>6 DEF Next

\* Loop, admission table, stops and Continue implement the contract of a scope:
\* one thread works on a task at a time, only the holder of its lease completes
\* it, and it is opened again only when no thread is left (TaskRunner::run_cycle,
\* claim_task_for_execution_scope, wait_for_execution_scope).
THEOREM Refinement == Spec => ImplementsScope
<1>1. Init => Scope!Init
  BY DEF Init, Scope!Init, Scope!Tasks, Tasks
<1>2. IInv /\ [Next]_vars => [Scope!Next]_(Scope!vars)
  BY NextMaps DEF ScopeStep
<1> QED
  BY Inductive, <1>1, <1>2, PTL DEF Spec, ImplementsScope, Scope!Spec

=============================================================================
