----------------------------- MODULE SessionTurn -----------------------------
(***************************************************************************)
(* The conversation Turns of one session as magi-api's turn_service and    *)
(* input_service drive them: what is done under the session's Turn lock,   *)
(* what is done outside it, and the durable inbox of inputs that wait for  *)
(* their Turn.  Four pieces of state have to agree and no transaction      *)
(* spans them: the canonical Turn of the session store, the slot of the    *)
(* Turn coordinator, the steer input of the coordinator, and the executor  *)
(* that was spawned for the Turn.                                          *)
(*                                                                         *)
(* A critical section without an await inside is one action.  Two sections *)
(* do await with the lock held and are split: stopping a Turn waits for    *)
(* its executor, and a submission whose steer input cannot be opened asks  *)
(* for the lock again.                                                     *)
(*                                                                         *)
(* A Turn has the name of the request that opened it.  A write of the      *)
(* session store may fail, as may the release of a stopped Turn's          *)
(* resources; MaxFaults bounds how often.                                  *)
(***************************************************************************)
EXTENDS Naturals, FiniteSets

CONSTANTS Requests,     \* user inputs; also the names of the Turns they open
          None,         \* no request, no Turn
          MaxWakes,     \* queue tasks spawned and not yet run, counted up to here
          MaxTries,     \* MAX_QUEUED_SUBMISSION_RETRIES
          MaxStops,     \* how often the user stops the current Turn
          MaxFaults,    \* failing writes and releases in one behaviour
          MaxCrashes    \* daemon restarts in one behaviour

\* The queue task and a stop hold the lock as "stop", a submission as its request.
ASSUME SessionTurnAssumption ==
    /\ IsFiniteSet(Requests)
    /\ {None, "stop"} \cap Requests = {} /\ None # "stop"
    /\ MaxWakes \in Nat \ {0}
    /\ MaxTries \in Nat \ {0}
    /\ {MaxStops, MaxFaults, MaxCrashes} \subseteq Nat

VARIABLES
    session,    \* "active" or "deleted"
    held,       \* who holds the session's Turn lock
    canon,      \* canonical status of every Turn
    current,    \* current_turn of the runtime sidecar
    slot,       \* the coordinator's active attempt, by its Turn
    input,      \* the Turn whose steer input is open
    fifo,       \* the signals queued in the steer input
    inbox,      \* the durable inputs
    at,         \* accepted_at of an input, 0 before it is accepted
    exec,       \* where the executor of a Turn is
    context,    \* the inputs an executor has put into its messages
    result,     \* the outcome an executor is about to report
    stop,       \* the stop of a Turn that is under way
    wakes,      \* queue tasks spawned by schedule_next_queued_regular_session_turn
    stops, faults, crashes

disk    == <<session, canon, current, inbox, at>>
memory  == <<held, slot, input, fifo, exec, context, result, stop, wakes>>
counted == <<stops, faults, crashes>>
vars    == <<disk, memory, counted>>

Ended == {"completed", "failed", "cancelled"}
Live(t) == t # None /\ canon[t] \in {"accepted", "running"}

NewInput == [state |-> "none", turn |-> None, target |-> None, settled |-> FALSE, tries |-> 0]
NoStop   == [by |-> "none", turn |-> None, item |-> None]

(***************************************************************************)
(* The executor's activity guard is alive from the moment it is spawned    *)
(* until its blocking part returned, or was given up.                      *)
(***************************************************************************)
Tracked(t) == exec[t] \in {"spawned", "prepared", "started", "working"}

Statuses == {"none", "accepted", "running"} \cup Ended
ExecPCs  == {"none", "spawned", "prepared", "started", "working", "failing", "settling",
             "closing", "done"}
Inputs   == [state   : {"none", "pending", "attached", "consumed", "cancelled"},
             turn    : Requests \cup {None},
             target  : Requests \cup {None},
             settled : BOOLEAN,
             tries   : 0 .. MaxTries]
StopTasks == [by : {"none", "user", "drain", "remove", "admit"},
              turn : Requests \cup {None}, item : Requests \cup {None}]

TypeOK ==
    /\ session \in {"active", "deleted"}
    /\ held \in Requests \cup {None, "stop"}
    /\ canon \in [Requests -> Statuses]
    /\ {current, slot, input} \subseteq Requests \cup {None}
    /\ fifo \subseteq Requests
    /\ inbox \in [Requests -> Inputs]
    /\ at \in [Requests -> 0 .. Cardinality(Requests)]
    /\ exec \in [Requests -> ExecPCs]
    /\ context \in [Requests -> SUBSET Requests]
    /\ result \in [Requests -> {"none"} \cup Ended]
    /\ stop \in StopTasks
    /\ held = "stop" <=> stop.by # "none"
    /\ wakes \in 0 .. MaxWakes
    /\ stops \in 0 .. MaxStops
    /\ faults \in 0 .. MaxFaults
    /\ crashes \in 0 .. MaxCrashes

Init ==
    /\ session = "active"
    /\ held = None
    /\ canon = [t \in Requests |-> "none"]
    /\ current = None /\ slot = None /\ input = None /\ fifo = {}
    /\ inbox = [r \in Requests |-> NewInput]
    /\ at = [r \in Requests |-> 0]
    /\ exec = [t \in Requests |-> "none"]
    /\ context = [t \in Requests |-> {}]
    /\ result = [t \in Requests |-> "none"]
    /\ stop = NoStop
    /\ wakes = 0 /\ stops = 0 /\ faults = 0 /\ crashes = 0

(* Mutant: nobody looks at the session again after it got the lock. *)
FreeUnchecked == held = None

(***************************************************************************)
(* Reads.                                                                  *)
(***************************************************************************)
Free == held = None /\ session = "active"

Pending == {r \in Requests : inbox[r].state = "pending"}

Replacements == {r \in Pending : inbox[r].target # None}

(* Mutant: the queue is sorted with the newest input first. *)
HeadNewest ==
    LET first == IF Replacements # {} THEN Replacements ELSE Pending
    IN  CHOOSE r \in first : \A q \in first : at[r] >= at[q]

(***************************************************************************)
(* queued_regular_session_turns sorts stop-and-replace inputs first, then  *)
(* by acceptance.                                                          *)
(***************************************************************************)
Head ==
    LET first == IF Replacements # {} THEN Replacements ELSE Pending
    IN  CHOOSE r \in first : \A q \in first : at[r] <= at[q]

Unsettled(r) == inbox[r].target # None /\ ~inbox[r].settled

(* A write for Turn t succeeds only while t is the session's live Turn. *)
Writable(t) == session = "active" /\ current = t /\ Live(t)

CanFail == faults < MaxFaults
Fault   == faults' = faults + 1

Wake  == wakes' = IF wakes < MaxWakes THEN wakes + 1 ELSE wakes
Awake == wakes' = wakes - 1

NextAt == 1 + Cardinality({r \in Requests : at[r] > 0})

(***************************************************************************)
(* Canonical facts and the coordinator.                                    *)
(***************************************************************************)
(* close_session_turn_input removes the steer input of its own Turn only. *)
CloseInput(t) ==
    /\ input' = IF input = t THEN None ELSE input
    /\ fifo'  = IF input = t THEN {} ELSE fifo

(* Finish, Cancel and Abort of the attempt that owns the slot. *)
Release(t) == slot' = IF slot = t THEN None ELSE slot

(* The canonical accept attaches the input to its Turn in the same commit. *)
Attach(r, t) ==
    inbox' = [inbox EXCEPT ![r].state = "attached", ![r].turn = t]

(***************************************************************************)
(* submit_conversation_session_turn, called with the lock held: Start,     *)
(* durable accept, begin_session_turn_input, spawn of the executor.  If    *)
(* another Turn's steer input is still open the failure path awaits        *)
(* lock_session_turn_commit, and the caller still holds that lock.         *)
(***************************************************************************)
Admit(r) ==
    /\ slot = None
    /\ Replacements \subseteq {r}
    /\ slot' = r
    /\ canon' = [canon EXCEPT ![r] = "accepted"]
    /\ current' = r
    /\ Attach(r, r)
    /\ IF input = None
       THEN /\ input' = r /\ fifo' = {}
            /\ exec' = [exec EXCEPT ![r] = "spawned"]
            /\ context' = [context EXCEPT ![r] = {r}]
            /\ held' = None
       ELSE /\ held' = r
            /\ UNCHANGED <<input, fifo, exec, context>>

Enqueue(r, target) ==
    inbox' = [inbox EXCEPT ![r].state = "pending", ![r].target = target]

(***************************************************************************)
(* Submission of a request.                                                *)
(***************************************************************************)
(* A request that is known already is answered from its record. *)
Unknown(r) == inbox[r].state = "none"

(* submit_session_turn_internal, chat route. *)
Submit(r) ==
    /\ Free /\ Unknown(r)
    /\ at' = [at EXCEPT ![r] = NextAt]
    /\ \/ /\ Pending # {} \/ Live(current)
          /\ Enqueue(r, None)
          /\ IF Pending # {} /\ ~Live(current) THEN Wake ELSE UNCHANGED wakes
          /\ UNCHANGED <<held, canon, current, slot, input, fifo, exec, context>>
       \/ /\ Pending = {} /\ ~Live(current)
          /\ Admit(r)
          /\ UNCHANGED wakes
    /\ UNCHANGED <<session, result, stop, counted>>

(* Stop and do this instead: the target is durable before anything stops. *)
SubmitReplacement(r) ==
    /\ Free /\ Unknown(r)
    /\ Live(current)
    /\ Replacements = {}
    /\ at' = [at EXCEPT ![r] = NextAt]
    /\ Enqueue(r, current)
    /\ Wake
    /\ UNCHANGED <<session, canon, current, held, slot, input, fifo, exec, context,
                   result, stop, counted>>

(***************************************************************************)
(* submit_steer_current_turn_after_turn_commit: only the coordinator's     *)
(* Turn, only while its steer input is open, and the user item and the     *)
(* signal are committed together.                                          *)
(***************************************************************************)
Steer(r, t) ==
    /\ slot = t /\ input = t
    /\ Writable(t)
    /\ ~Unsettled(r)
    /\ Attach(r, t)
    /\ fifo' = fifo \cup {r}

SubmitSteer(r) ==
    /\ Free /\ Unknown(r)
    /\ at' = [at EXCEPT ![r] = NextAt]
    /\ \E t \in Requests : Steer(r, t)
    /\ UNCHANGED <<session, canon, current, held, slot, input, exec, context, result,
                   stop, wakes, counted>>

(***************************************************************************)
(* The inbox (input_service).                                              *)
(***************************************************************************)
(* guide_session_turn_queue_item: a waiting input becomes a steer. *)
Guide(r) ==
    /\ Free /\ r \in Pending
    /\ \E t \in Requests : Steer(r, t)
    /\ UNCHANGED <<session, canon, current, at, held, slot, input, exec, context,
                   result, stop, wakes, counted>>

(* retry_session_turn_queue_item *)
RetryItem(r) ==
    /\ Free /\ r \in Replacements
    /\ wakes = 0
    /\ Wake
    /\ UNCHANGED <<disk, held, slot, input, fifo, exec, context, result, stop, counted>>

(* Mutant: the Turn lock is not held while the executor is waited for. *)
BeginStopUnlocked(by, t, r) ==
    /\ canon' = IF Live(t) THEN [canon EXCEPT ![t] = "cancelled"] ELSE canon
    /\ stop' = [by |-> by, turn |-> t, item |-> r]
    /\ UNCHANGED held

(***************************************************************************)
(* interrupt_session_turn_after_turn_commit, first half: the canonical     *)
(* Turn ends before anything is waited for.                                *)
(***************************************************************************)
BeginStop(by, t, r) ==
    /\ canon' = IF Live(t) THEN [canon EXCEPT ![t] = "cancelled"] ELSE canon
    /\ stop' = [by |-> by, turn |-> t, item |-> r]
    /\ held' = "stop"

(* remove_session_turn_queue_item settles a replacement before removing it. *)
RemoveItem(r) ==
    /\ Free /\ r \in Pending
    /\ IF Unsettled(r)
       THEN /\ current = inbox[r].target
            /\ BeginStop("remove", current, r)
            /\ UNCHANGED <<inbox, wakes>>
       ELSE /\ inbox' = [inbox EXCEPT ![r].state = "cancelled"]
            /\ Wake
            /\ UNCHANGED <<canon, stop, held>>
    /\ UNCHANGED <<session, current, at, slot, input, fifo, exec, context, result, counted>>

(* interrupt_session_turn: the queue is drained afterwards in any case. *)
StopByUser ==
    /\ Free /\ stops < MaxStops
    /\ stops' = stops + 1
    /\ IF Live(current)
       THEN BeginStop("user", current, None) /\ UNCHANGED wakes
       ELSE Wake /\ UNCHANGED <<canon, stop, held>>
    /\ UNCHANGED <<session, current, inbox, at, slot, input, fifo, exec, context, result,
                   faults, crashes>>

(***************************************************************************)
(* drain_next_queued_regular_session_turn, once nothing is in the way: a   *)
(* failed admission counts a try and schedules the queue again; the last   *)
(* one removes the input so that it does not block the rest.               *)
(***************************************************************************)
CountTry(r) ==
    LET tries == inbox[r].tries + 1
    IN  inbox' = [inbox EXCEPT ![r].tries = tries,
                               ![r].state = IF tries < MaxTries THEN @ ELSE "cancelled"]

Dispatch(r) ==
    \/ Admit(r) /\ UNCHANGED <<wakes, faults>>
    \/ /\ CanFail /\ Fault
       /\ CountTry(r)
       /\ Wake
       /\ held' = None
       /\ UNCHANGED <<canon, current, slot, input, fifo, exec, context>>

(***************************************************************************)
(* One run of a queue task: nothing to do, or the current Turn is live and *)
(* its end will schedule again; a replacement that has to stop its target  *)
(* first, which may fail at once; or the admission of the head.            *)
(***************************************************************************)
RunQueue ==
    /\ Free /\ wakes > 0
    /\ \/ /\ \/ Pending = {}
             \/ Pending # {} /\ Live(current) /\ ~Unsettled(Head)
          /\ Awake
          /\ UNCHANGED <<canon, current, inbox, held, slot, input, fifo, exec, context,
                         stop, faults>>
       \/ /\ Pending # {} /\ Unsettled(Head)
          /\ current = inbox[Head].target
          /\ BeginStop("drain", current, Head)
          /\ Awake
          /\ UNCHANGED <<current, inbox, slot, input, fifo, exec, context, faults>>
       \/ /\ Pending # {} /\ Unsettled(Head) /\ Live(current)
          /\ CanFail /\ Fault
          /\ Awake
          /\ UNCHANGED <<canon, current, inbox, held, slot, input, fifo, exec, context, stop>>
       \/ /\ Pending # {} /\ ~Unsettled(Head) /\ ~Live(current)
          /\ stop' = [by |-> "admit", turn |-> None, item |-> Head]
          /\ held' = "stop"
          /\ Awake
          /\ UNCHANGED <<canon, current, inbox, slot, input, fifo, exec, context, faults>>
    /\ UNCHANGED <<session, at, result, stops, crashes>>

(* The head of the queue is admitted under the lock the queue task holds. *)
AdmitHead ==
    /\ held = "stop" /\ stop.by = "admit"
    /\ stop' = NoStop
    /\ Dispatch(stop.item)
    /\ UNCHANGED <<session, at, result, stops, crashes>>

(* Mutant: the executor is told to stop and not waited for. *)
QuietAtOnce(t) == TRUE

(* wait_for_conversation_turn_quiesce has no time limit. *)
Quiet(t) == ~Tracked(t)

(***************************************************************************)
(* Second half of a stop: the executor is quiet, the steer input and the   *)
(* slot are released.  A stop for a replacement then writes that the old   *)
(* execution is settled and goes on with what it was for.  If resources    *)
(* of the Turn are still in use it returns before the release, and the     *)
(* replacement keeps waiting.                                              *)
(***************************************************************************)
FinishStop ==
    /\ held = "stop" /\ stop.by # "admit"
    /\ Quiet(stop.turn)
    /\ \/ /\ stop.by = "user"
          /\ CloseInput(stop.turn) /\ Release(stop.turn)
          /\ stop' = NoStop /\ held' = None
          /\ Wake
          /\ UNCHANGED <<inbox, faults>>
       \/ /\ stop.by = "remove"
          /\ CloseInput(stop.turn) /\ Release(stop.turn)
          /\ inbox' = [inbox EXCEPT ![stop.item].settled = TRUE,
                                    ![stop.item].state = "cancelled"]
          /\ stop' = NoStop /\ held' = None
          /\ Wake
          /\ UNCHANGED faults
       \/ /\ stop.by = "drain"
          /\ CloseInput(stop.turn) /\ Release(stop.turn)
          /\ inbox' = [inbox EXCEPT ![stop.item].settled = TRUE]
          /\ stop' = [by |-> "admit", turn |-> None, item |-> stop.item]
          /\ UNCHANGED <<held, wakes, faults>>
       \/ /\ stop.by # "user"
          /\ CanFail /\ Fault
          /\ stop' = NoStop /\ held' = None
          /\ UNCHANGED <<inbox, slot, input, fifo, wakes>>
    /\ UNCHANGED <<session, canon, current, at, exec, context, result, stops, crashes>>

(***************************************************************************)
(* The executor of a Turn (schedule_conversation_execution).               *)
(***************************************************************************)
To(t, pc) == exec' = [exec EXCEPT ![t] = pc]

(* SetStatus Preparing; an attempt that lost its slot ends here. *)
Prepare(t) ==
    /\ exec[t] = "spawned"
    /\ To(t, IF slot = t THEN "prepared" ELSE "done")
    /\ UNCHANGED <<disk, held, slot, input, fifo, context, result, stop, wakes, counted>>

(* SetStatus Running *)
MarkRunning(t) ==
    /\ exec[t] = "prepared"
    /\ To(t, IF slot = t THEN "started" ELSE "done")
    /\ UNCHANGED <<disk, held, slot, input, fifo, context, result, stop, wakes, counted>>

(***************************************************************************)
(* The canonical Turn follows to running.  For a Turn that has ended, is   *)
(* not the current one or lost its session, update_current_turn_status...  *)
(* is an error, as a write that fails is: the activity guard is dropped    *)
(* and fail_conversation_turn_before_execution follows.  (Its other answer,*)
(* None, needs a session whose sidecar never had a Turn.)                  *)
(***************************************************************************)
StartRunning(t) ==
    /\ exec[t] = "started"
    /\ \/ /\ Writable(t)
          /\ canon' = [canon EXCEPT ![t] = "running"]
          /\ To(t, "working")
          /\ UNCHANGED faults
       \/ /\ ~Writable(t)
          /\ To(t, "failing")
          /\ UNCHANGED <<canon, faults>>
       \/ /\ Writable(t) /\ CanFail /\ Fault
          /\ To(t, "failing")
          /\ UNCHANGED canon
    /\ UNCHANGED <<session, current, inbox, at, held, slot, input, fifo, context, result,
                   stop, wakes, stops, crashes>>

(* Mutant: the coordinator is not told. *)
SettleNoFinish(t, status) ==
    /\ canon' = IF Writable(t) THEN [canon EXCEPT ![t] = status] ELSE canon
    /\ UNCHANGED <<slot, faults>>

(* Mutant: a failed execution is reported and not settled. *)
SettleSuccessOnly(t, status) ==
    /\ canon' = IF Writable(t) /\ status # "failed" THEN [canon EXCEPT ![t] = status] ELSE canon
    /\ IF Writable(t) /\ status # "failed" THEN Release(t) ELSE UNCHANGED slot
    /\ UNCHANGED faults

(* settle_conversation_turn and, only if it changed the Turn, Finish. *)
SettleTurn(t, status) ==
    \/ /\ canon' = IF Writable(t) THEN [canon EXCEPT ![t] = status] ELSE canon
       /\ IF Writable(t) THEN Release(t) ELSE UNCHANGED slot
       /\ UNCHANGED faults
    \/ /\ Writable(t) /\ CanFail /\ Fault
       /\ UNCHANGED <<canon, slot>>

(* The critical section of fail_conversation_turn_before_execution ... *)
FailBefore(t) ==
    /\ exec[t] = "failing" /\ held = None
    /\ SettleTurn(t, "failed")
    /\ To(t, "closing")
    /\ UNCHANGED <<session, current, inbox, at, held, input, fifo, context, result, stop,
                   wakes, stops, crashes>>

(* ... and what it does after it has left it. *)
CloseAfterFailure(t) ==
    /\ exec[t] = "closing"
    /\ CloseInput(t)
    /\ To(t, "done")
    /\ Wake
    /\ UNCHANGED <<disk, held, slot, context, result, stop, counted>>

(* begin_model_step: the inputs in the request become consumed. *)
Step(t) ==
    /\ exec[t] = "working" /\ Writable(t)
    /\ \E r \in context[t] : inbox[r].state = "attached"
    /\ inbox' = [r \in Requests |->
                    IF r \in context[t] THEN [inbox[r] EXCEPT !.state = "consumed"]
                                        ELSE inbox[r]]
    /\ UNCHANGED <<session, canon, current, at, memory, counted>>

(* Mutant: the steer input is closed without looking at what it holds. *)
TakeNothing(t) == {}

(* take_session_turn_steers_or_close: the queued signals, or nothing. *)
TakenSteers(t) == IF input = t THEN fifo ELSE {}

(***************************************************************************)
(* take_session_turn_steers_or_close after the model's last message: the   *)
(* queued signals open another round, otherwise the input is closed in the *)
(* same critical section and the Turn is complete.                         *)
(***************************************************************************)
Boundary(t) ==
    /\ exec[t] = "working" /\ Writable(t)
    /\ \A r \in context[t] : inbox[r].state = "consumed"
    /\ IF TakenSteers(t) # {}
       THEN /\ context' = [context EXCEPT ![t] = @ \cup TakenSteers(t)]
            /\ fifo' = {}
            /\ UNCHANGED <<input, exec, result>>
       ELSE /\ CloseInput(t)
            /\ To(t, "settling")
            /\ result' = [result EXCEPT ![t] = "completed"]
            /\ UNCHANGED context
    /\ UNCHANGED <<disk, held, slot, stop, wakes, counted>>

(* The model or a write fails, or the executor sees that its Turn ended. *)
Break(t) ==
    /\ exec[t] = "working"
    /\ To(t, "settling")
    /\ result' = [result EXCEPT ![t] = IF Writable(t) THEN "failed" ELSE "cancelled"]
    /\ UNCHANGED <<disk, held, slot, input, fifo, context, stop, wakes, counted>>

(* Mutant: the end of a Turn does not schedule the queue. *)
SettleQuietly(t) ==
    /\ exec[t] = "settling" /\ held = None
    /\ SettleTurn(t, result[t])
    /\ CloseInput(t)
    /\ To(t, "done")
    /\ UNCHANGED <<session, current, inbox, at, held, context, result, stop, wakes, stops, crashes>>

(* The terminal section of schedule_conversation_execution. *)
Settle(t) ==
    /\ exec[t] = "settling" /\ held = None
    /\ SettleTurn(t, result[t])
    /\ CloseInput(t)
    /\ To(t, "done")
    /\ Wake
    /\ UNCHANGED <<session, current, inbox, at, held, context, result, stop, stops, crashes>>

(***************************************************************************)
(* delete_session_and_resources.  The map entry of the lock goes with the  *)
(* session, so a caller that waits for the old mutex and a newcomer may    *)
(* hold different ones; every section reads the session again, which is    *)
(* what Free and Writable say.  The executor is not waited for.            *)
(***************************************************************************)
Delete ==
    /\ Free
    /\ session' = "deleted"
    /\ canon' = IF Live(current) THEN [canon EXCEPT ![current] = "cancelled"] ELSE canon
    /\ current' = None /\ slot' = None /\ input' = None /\ fifo' = {}
    /\ inbox' = [r \in Requests |->
                    IF r \in Pending THEN [inbox[r] EXCEPT !.state = "cancelled"] ELSE inbox[r]]
    /\ UNCHANGED <<at, held, exec, context, result, stop, wakes, counted>>

(***************************************************************************)
(* The daemon dies and starts again: a Turn without an execution chain is  *)
(* cancelled, the queue of every session with pending inputs is scheduled. *)
(***************************************************************************)
Restart ==
    /\ session = "active" /\ crashes < MaxCrashes
    /\ crashes' = crashes + 1
    /\ canon' = IF Live(current) THEN [canon EXCEPT ![current] = "cancelled"] ELSE canon
    /\ held' = None /\ stop' = NoStop
    /\ slot' = None /\ input' = None /\ fifo' = {}
    /\ exec' = [t \in Requests |-> IF exec[t] = "none" THEN "none" ELSE "done"]
    /\ context' = [t \in Requests |-> {}]
    /\ result' = [t \in Requests |-> "none"]
    /\ wakes' = IF Pending = {} THEN 0 ELSE 1
    /\ UNCHANGED <<session, current, inbox, at, stops, faults>>

Client == \E r \in Requests : \/ Submit(r) \/ SubmitReplacement(r) \/ SubmitSteer(r)
                              \/ Guide(r) \/ RetryItem(r) \/ RemoveItem(r)

Execute == \E t \in Requests :
    \/ Prepare(t) \/ MarkRunning(t) \/ StartRunning(t) \/ FailBefore(t)
    \/ CloseAfterFailure(t) \/ Step(t) \/ Boundary(t) \/ Break(t) \/ Settle(t)

Next == Client \/ StopByUser \/ RunQueue \/ AdmitHead \/ FinishStop \/ Execute
        \/ Delete \/ Restart

Spec == Init /\ [][Next]_vars

(***************************************************************************)
(* Spawned tasks and executors run; a model answers or its call fails.     *)
(* Clients, the user and crashes owe nothing.                              *)
(***************************************************************************)
Fairness == /\ WF_vars(RunQueue) /\ WF_vars(AdmitHead) /\ WF_vars(FinishStop)
            /\ \A t \in Requests :
                 /\ WF_vars(Prepare(t)) /\ WF_vars(MarkRunning(t)) /\ WF_vars(StartRunning(t))
                 /\ WF_vars(FailBefore(t)) /\ WF_vars(CloseAfterFailure(t))
                 /\ WF_vars(Step(t)) /\ WF_vars(Boundary(t)) /\ WF_vars(Settle(t))
                 /\ WF_vars(Break(t) /\ ~Writable(t))

FairSpec == Spec /\ Fairness

-----------------------------------------------------------------------------
(***************************************************************************)
(* Properties.                                                             *)
(***************************************************************************)
(***************************************************************************)
(* The coordinator's slot and the canonical Turn, written by different     *)
(* components in different sections, tell the same story whenever nobody   *)
(* holds the Turn lock: the slot is taken exactly by the session's live    *)
(* Turn.  The one exception is a stop for a replacement that could not     *)
(* release the Turn's resources; then the replacement still waits.         *)
(***************************************************************************)
SlotFollowsCanon ==
    held = None =>
        /\ Live(current) => slot = current
        /\ slot # None => \/ slot = current /\ Live(slot)
                          \/ \E r \in Replacements : Unsettled(r) /\ inbox[r].target = slot

(***************************************************************************)
(* No two executors of one session are at work at the same time: stopping  *)
(* a Turn waits for its executor before the next Turn is admitted.         *)
(***************************************************************************)
OneExecutor ==
    \A t, u \in Requests : Tracked(t) /\ Tracked(u) => t = u

(***************************************************************************)
(* A Turn that completes has given every input steered into it to the      *)
(* model: none is left in the closed steer input.                          *)
(***************************************************************************)
NoSteerLost ==
    \A t, r \in Requests :
        canon[t] = "completed" /\ inbox[r].turn = t => inbox[r].state = "consumed"

(***************************************************************************)
(* A live Turn whose executor is gone blocks the session; only a write of  *)
(* the session store that failed can leave one behind.                     *)
(***************************************************************************)
NoOrphanTurn ==
    held = None /\ Live(current) /\ exec[current] = "done" => faults > 0

(* A deleted session comes back in no component, whoever was waiting for its lock. *)
DeletedStaysEmpty ==
    session = "deleted" => current = None /\ slot = None /\ input = None /\ Pending = {}

(***************************************************************************)
(* A Turn starts for a waiting input only in its turn: a stop-and-replace  *)
(* input first, else the oldest; and a replacement only once the executor  *)
(* of the Turn it replaces has stopped.                                    *)
(***************************************************************************)
StartsInOrder ==
    [][\A r \in Requests :
          canon[r] = "none" /\ canon'[r] # "none" =>
            /\ \A q \in Pending \ {r} : inbox[r].target # None \/ (at'[r] > 0 /\ at[q] > at'[r])
            /\ inbox[r].target # None => ~Tracked(inbox[r].target)]_vars

(***************************************************************************)
(* Every waiting input is answered, withdrawn or refused in the end, and   *)
(* every Turn ends: no wake-up of the queue is lost between the Turn lock, *)
(* the executor and a restart.                                             *)
(***************************************************************************)
QueueMoves ==
    /\ \A r \in Requests : inbox[r].state = "pending" ~> inbox[r].state # "pending"
    /\ \A t \in Requests : canon[t] \in {"accepted", "running"} ~> canon[t] \in Ended

(***************************************************************************)
(* A submission never waits for the Turn lock it is holding.               *)
(***************************************************************************)
NoSelfLock == held \notin Requests

=============================================================================
