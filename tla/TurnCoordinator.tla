-------------------------- MODULE TurnCoordinator --------------------------
(***************************************************************************)
(* SessionTurnCoordinator of magi-conversation-runtime: the registry that  *)
(* decides, for one session, which Turn owns the single active slot.       *)
(* Sessions share no state inside the coordinator, so one session is       *)
(* modelled.  Every command of TurnCommand is an action; the commands are  *)
(* issued by threads that hold an attempt handed out earlier, in any order,*)
(* any number of times and arbitrarily late.                               *)
(*                                                                         *)
(* The canonical Turn facts of the SessionStore are outside this           *)
(* component; `canon' keeps the part of them that a Recover command reads. *)
(* The approvals that close_session_turn_input also revokes belong to the  *)
(* ToolApprovalRegistry, another component.                                *)
(***************************************************************************)
EXTENDS Naturals, FiniteSets

CONSTANTS
    Turns,         \* turn ids
    Requests,      \* client request ids (the idempotency key)
    Fingerprints,  \* digests of request bodies
    Profiles,      \* ExecutionProfile: conversation | task
    MaxRecent,     \* MAX_RECENT_FINISHED_TURNS
    MaxSteers,     \* bound: steers waiting in an input slot
    Reached,       \* bound: statuses a canonical Turn moves to
    LiveRestore,   \* TRUE: a restore may also run while commands are served
    None           \* Option::None

CanonicalLive     == {"pending", "running", "blocked"}
CanonicalTerminal == {"completed", "failed", "interrupted", "cancelled",
                      "superseded"}

ASSUME ConstantsAssumption ==
    /\ MaxRecent \in Nat \ {0}
    /\ MaxSteers \in Nat
    /\ Reached \subseteq CanonicalLive \cup CanonicalTerminal
    /\ LiveRestore \in BOOLEAN

Live     == {"accepted", "preparing", "running", "waiting_input", "blocked"}
Terminal == {"completed", "failed", "cancelled"}

\* TurnAttempt; the attempt id "attempt-<turn>-<n>" is the pair (turn, n).
Attempts == [turn : Turns, n : Nat, profile : Profiles]

\* TurnAdmission
Admissions == [turn : Turns, request : Requests, fp : Fingerprints,
               profile : Profiles]

\* An admission with the attempt it was given.
Identities == [turn : Turns, request : Requests, fp : Fingerprints,
               profile : Profiles, n : Nat]

\* ActiveTurn; seq = 0 is "canonical turnSeq not known yet".
ActiveTurns == [turn : Turns, request : Requests, fp : Fingerprints,
                profile : Profiles, n : Nat, status : Live, seq : Nat]

\* FinishedTurn
FinishedTurns == [turn : Turns, request : Requests, fp : Fingerprints,
                  profile : Profiles, n : Nat, status : Terminal, seq : Nat,
                  order : Nat]

\* A canonical Turn, restricted to what recovery reads.
Facts == [turn : Turns, request : Requests, fp : Fingerprints,
          profile : Profiles, n : Nat,
          status : CanonicalLive \cup CanonicalTerminal, seq : Nat]

\* A Continue command between two of its critical sections.
Continuations == [step : {"finish", "terminal", "accept"}, prev : Attempts,
                  status : Terminal, next : Admissions]

ASSUME NoneAssumption ==
    /\ None \notin ActiveTurns
    /\ None \notin FinishedTurns
    /\ None \notin Facts
    /\ None \notin Identities

VARIABLES
    active,      \* SessionState.active
    recent,      \* SessionState.recent: request -> finished Turn
    nextOrder,   \* SessionState.next_finished_order
    attemptSeq,  \* attempt_sequence
    input,       \* session_turn_inputs: [turn, pending] of the open slot
    cont,        \* the Continue command in progress
    clearing,    \* "inputs": clear_session has to take the input lock next
    steering,    \* Turns for which a validated Steer is about to commit
    submitting,  \* admitted Turns whose durable accept is outstanding
    issued,      \* attempts held by threads of this process
    todo,        \* canonical facts a running restore still has to replay
    canon,       \* canonical Turn facts in the SessionStore
    clock,       \* monotonic_accepted_at: the last acceptance time given out
    stamp,       \* acceptance time in the id of a generated Turn (0: none)
    born         \* history: the admission and attempt of every accepted Turn

slot        == <<active, recent, nextOrder>>
coordinator == <<slot, attemptSeq, input>>
callers     == <<cont, clearing, steering, submitting, issued, todo>>
environment == <<canon, clock, stamp, born>>
vars        == <<coordinator, callers, environment>>

Inputs == [turn : Turns, pending : Nat]

TypeOK ==
    /\ active \in ActiveTurns \cup {None}
    /\ recent \in [Requests -> FinishedTurns \cup {None}]
    /\ nextOrder \in Nat
    /\ attemptSeq \in Nat
    /\ input \in Inputs \cup {None}
    /\ cont \in Continuations \cup {None}
    /\ clearing \in {"idle", "inputs"}
    /\ steering \subseteq Turns
    /\ submitting \subseteq Identities
    /\ issued \subseteq Attempts
    /\ todo \subseteq Facts
    /\ canon \in [Turns -> Facts \cup {None}]
    /\ clock \in Nat
    /\ stamp \in [Turns -> Nat]
    /\ born \in [Turns -> Identities \cup {None}]

-----------------------------------------------------------------------------
(* Reading the slot                                                        *)

AttemptOf(rec) == [turn |-> rec.turn, n |-> rec.n, profile |-> rec.profile]

SameAdmission(a, b) ==
    /\ a.turn = b.turn
    /\ a.request = b.request
    /\ a.fp = b.fp
    /\ a.profile = b.profile

\* The identity checks shared by set_status, finish and steer.
Owns(att) ==
    /\ active # None
    /\ active.turn = att.turn
    /\ active.n = att.n
    /\ active.profile = att.profile

Held == {r \in Requests : recent[r] # None}

\* Mutant of HasTerminalStatus: any terminal status will do.
HasAnyTerminalStatus(att, status) ==
    \E r \in Held : recent[r].turn = att.turn /\ recent[r].n = att.n

\* terminal_status: the attempt does not own the slot and is recorded with
\* this terminal status.
HasTerminalStatus(att, status) ==
    /\ \/ active = None
       \/ active.turn # att.turn
       \/ active.n # att.n
    /\ \E r \in Held : /\ recent[r].turn = att.turn
                       /\ recent[r].n = att.n
                       /\ recent[r].status = status

\* status_transition_allowed
Transition(from, to) ==
    \/ from = to
    \/ <<from, to>> \in {<<"accepted", "preparing">>, <<"accepted", "blocked">>,
                         <<"preparing", "running">>,
                         <<"preparing", "waiting_input">>,
                         <<"preparing", "blocked">>,
                         <<"running", "waiting_input">>, <<"running", "blocked">>,
                         <<"waiting_input", "running">>,
                         <<"waiting_input", "blocked">>,
                         <<"blocked", "preparing">>, <<"blocked", "waiting_input">>,
                         <<"blocked", "running">>}

\* Commands are served unless the startup restore is still running.
Serving == LiveRestore \/ todo = {}

\* lock_session_turn: a submission holds it from its replay check to the
\* durable accept, a Continue and a session deletion for their whole length.
TurnLockFree ==
    /\ Serving
    /\ cont = None
    /\ submitting = {}
    /\ clearing = "idle"

-----------------------------------------------------------------------------
(* Start                                                                   *)

Init ==
    /\ active = None
    /\ recent = [r \in Requests |-> None]
    /\ nextOrder = 0
    /\ attemptSeq = 0
    /\ input = None
    /\ cont = None
    /\ clearing = "idle"
    /\ steering = {}
    /\ submitting = {}
    /\ issued = {}
    /\ todo = {}
    /\ canon = [t \in Turns |-> None]
    /\ clock = 0
    /\ stamp = [t \in Turns |-> 0]
    /\ born = [t \in Turns |-> None]

IdentityOf(rec) ==
    [turn |-> rec.turn, request |-> rec.request, fp |-> rec.fp,
     profile |-> rec.profile, n |-> rec.n]

\* The ActiveTurn of a fresh admission: attempt ids count up.
Fresh(adm) ==
    [turn |-> adm.turn, request |-> adm.request, fp |-> adm.fp,
     profile |-> adm.profile, n |-> attemptSeq + 1, status |-> "accepted",
     seq |-> 0]

\* accept, CoordinatorAdmission::Accepted.  The caller goes on to the durable
\* accept before it hands the attempt to any other thread.
Accepted(adm) ==
    /\ active = None
    /\ recent[adm.request] = None
    /\ active' = Fresh(adm)
    /\ attemptSeq' = attemptSeq + 1
    /\ submitting' = submitting \cup {IdentityOf(Fresh(adm))}
    /\ born' = [born EXCEPT ![adm.turn] = IdentityOf(Fresh(adm))]
    /\ UNCHANGED <<recent, nextOrder>>

\* The record an admission collides with: the slot, else the replay index.
Collision(adm) == IF active # None THEN active ELSE recent[adm.request]

\* accept, CoordinatorAdmission::Replay and the errors ActiveTurn and
\* RequestConflict: the caller learns of the existing Turn, nothing changes.
NotAccepted(adm) ==
    /\ Collision(adm) # None
    /\ UNCHANGED <<slot, attemptSeq, submitting, born>>

\* Mutant of RequestSeen: the canonical facts are not asked.
RequestNeverSeen(r) == FALSE

\* canonical_turn_for_request_id, read by replay_existing_submission before a
\* submission reaches the coordinator.
RequestSeen(r) == \E t \in Turns : canon[t] # None /\ canon[t].request = r

\* monotonic_accepted_at: a new Turn id carries a strictly larger time.
Generate(t) ==
    /\ stamp[t] = 0
    /\ clock' = clock + 1
    /\ stamp' = [stamp EXCEPT ![t] = clock + 1]

\* A submission: TurnCommand::Start with a newly generated Turn id.
Start(adm) ==
    /\ TurnLockFree
    /\ ~RequestSeen(adm.request)
    /\ Generate(adm.turn)
    /\ Accepted(adm) \/ NotAccepted(adm)
    /\ UNCHANGED <<input, cont, clearing, steering, issued, todo, canon>>

-----------------------------------------------------------------------------
(* Status, finish and abort                                                *)

\* TurnCommand::SetStatus
SetStatus(att, status) ==
    /\ Serving
    /\ att \in issued
    /\ Owns(att)
    /\ status \in Live
    /\ status # active.status
    /\ Transition(active.status, status)
    /\ active' = [active EXCEPT !.status = status]
    /\ UNCHANGED <<recent, nextOrder, attemptSeq, input, callers, environment>>

\* FinishedTurn of a Turn that ends now.
FinishedOf(rec, status) ==
    [turn |-> rec.turn, request |-> rec.request, fp |-> rec.fp,
     profile |-> rec.profile, n |-> rec.n, status |-> status, seq |-> rec.seq,
     order |-> nextOrder]

\* Mutant of Oldest: the record written last.
Latest(records) ==
    CHOOSE r \in Requests :
        /\ records[r] # None
        /\ \A q \in Requests :
               records[q] # None => records[r].order >= records[q].order

\* The request whose record was written first.
Oldest(records) ==
    CHOOSE r \in Requests :
        /\ records[r] # None
        /\ \A q \in Requests :
               records[q] # None => records[r].order <= records[q].order

\* record_finished: insert, then evict the oldest record above the limit.
RecordFinished(fin) ==
    LET inserted == [recent EXCEPT ![fin.request] = fin]
        size     == Cardinality({r \in Requests : inserted[r] # None})
    IN  /\ recent' = IF size > MaxRecent
                     THEN [inserted EXCEPT ![Oldest(inserted)] = None]
                     ELSE inserted
        /\ nextOrder' = nextOrder + 1

\* close_session_turn_input: only the slot of this very Turn is closed.
ClosedFor(t) == IF input # None /\ input.turn = t THEN None ELSE input

\* Mutant of Release: the slot is read instead of taken.
ReleaseKeepsSlot(att, status) ==
    /\ Owns(att)
    /\ status \in Terminal
    /\ RecordFinished(FinishedOf(active, status))
    /\ input' = ClosedFor(att.turn)
    /\ UNCHANGED <<active, attemptSeq>>

\* finish by the owning attempt: the record is written and the input slot of
\* the Turn is closed, both under the state lock.
Release(att, status) ==
    /\ Owns(att)
    /\ status \in Terminal
    /\ active' = None
    /\ RecordFinished(FinishedOf(active, status))
    /\ input' = ClosedFor(att.turn)
    /\ UNCHANGED attemptSeq

\* finish by a late caller: idempotent when another thread committed the same
\* terminal status for this attempt before.
AlreadyFinished(att, status) ==
    /\ active = None
    /\ \E r \in Held : /\ AttemptOf(recent[r]) = att
                       /\ recent[r].status = status

\* TurnCommand::Finish and TurnCommand::Cancel; every other outcome is a reply
\* that changes nothing.
Finish(att, status) ==
    /\ Serving
    /\ att \in issued
    /\ Release(att, status)
    /\ UNCHANGED <<callers, environment>>

\* TurnCommand::Abort: the durable accept failed, or the Turn could not be
\* given its input slot.  The input slot is left alone.
Abort(att) ==
    /\ Serving
    /\ att \in issued \/ \E id \in submitting : AttemptOf(id) = att
    /\ active # None
    /\ active.turn = att.turn
    /\ active.n = att.n
    /\ active' = None
    /\ submitting' = {id \in submitting : AttemptOf(id) # att}
    /\ UNCHANGED <<recent, nextOrder, attemptSeq, input, cont, clearing,
                   steering, issued, todo, environment>>

-----------------------------------------------------------------------------
(* Continue: current_attempt, finish (or terminal_status) and accept are   *)
(* separate critical sections of one command.  Its callers hold the        *)
(* session's turn lock, so a session has one Continue at a time.           *)

ContinueCheck(att, status, adm) ==
    /\ TurnLockFree
    /\ att \in issued
    /\ ~RequestSeen(adm.request)
    /\ Generate(adm.turn)
    /\ \/ /\ active # None
          /\ active.turn = att.turn
          /\ active.n = att.n
          /\ cont' = [step |-> "finish", prev |-> att, status |-> status,
                      next |-> adm]
       \/ /\ active = None
          /\ cont' = [step |-> "terminal", prev |-> att, status |-> status,
                      next |-> adm]
    /\ UNCHANGED <<coordinator, clearing, steering, submitting, issued, todo,
                   canon, born>>

ContinueFinish ==
    /\ cont # None
    /\ cont.step = "finish"
    /\ \/ /\ Release(cont.prev, cont.status)
          /\ cont' = [cont EXCEPT !.step = "accept"]
       \/ /\ AlreadyFinished(cont.prev, cont.status)
          /\ cont' = [cont EXCEPT !.step = "accept"]
          /\ UNCHANGED coordinator
       \/ /\ ~Owns(cont.prev)
          /\ ~AlreadyFinished(cont.prev, cont.status)
          /\ cont' = None
          /\ UNCHANGED coordinator
    /\ UNCHANGED <<clearing, steering, submitting, issued, todo, environment>>

ContinueTerminal ==
    /\ cont # None
    /\ cont.step = "terminal"
    /\ cont' = IF HasTerminalStatus(cont.prev, cont.status)
               THEN [cont EXCEPT !.step = "accept"]
               ELSE None
    /\ UNCHANGED <<coordinator, clearing, steering, submitting, issued, todo,
                   environment>>

ContinueAccept ==
    /\ cont # None
    /\ cont.step = "accept"
    /\ cont' = None
    /\ Accepted(cont.next) \/ NotAccepted(cont.next)
    /\ UNCHANGED <<input, clearing, steering, issued, todo, canon, clock, stamp>>

-----------------------------------------------------------------------------
(* The steer input slot                                                    *)

\* begin_session_turn_input, called by any thread that works for the Turn.
BeginInput(att) ==
    /\ Serving
    /\ att \in issued
    /\ input = None
    /\ input' = [turn |-> att.turn, pending |-> 0]
    /\ UNCHANGED <<slot, attemptSeq, callers, environment>>

\* TurnCommand::Steer: validate_attempt and active_turn_accepts_steer.
SteerCheck(att) ==
    /\ Serving
    /\ att \in issued
    /\ Owns(att)
    /\ input # None
    /\ input.turn = att.turn
    /\ input.pending < MaxSteers
    /\ steering' = steering \cup {att.turn}
    /\ UNCHANGED <<coordinator, cont, clearing, submitting, issued, todo,
                   environment>>

\* try_steer_session_turn_with: the canonical item is written inside the input
\* lock, which fails once the canonical Turn is closed.
SteerCommit(t) ==
    /\ Serving
    /\ t \in steering
    /\ steering' = steering \ {t}
    /\ IF /\ input # None
          /\ input.turn = t
          /\ canon[t] # None
          /\ canon[t].status \in CanonicalLive
       THEN input' = [input EXCEPT !.pending = @ + 1]
       ELSE UNCHANGED input
    /\ UNCHANGED <<slot, attemptSeq, cont, clearing, submitting, issued, todo,
                   environment>>

\* drain_session_turn_steers, and take_session_turn_steers_or_close when it
\* returns Pending.
Drain(t) ==
    /\ Serving
    /\ input # None
    /\ input.turn = t
    /\ input.pending > 0
    /\ input' = [input EXCEPT !.pending = 0]
    /\ UNCHANGED <<slot, attemptSeq, callers, environment>>

\* take_session_turn_steers_or_close with nothing pending.
TakeOrClose(t) ==
    /\ Serving
    /\ input # None
    /\ input.turn = t
    /\ input.pending = 0
    /\ input' = None
    /\ UNCHANGED <<slot, attemptSeq, callers, environment>>

\* close_session_turn_input called outside finish.
CloseInput(att) ==
    /\ Serving
    /\ att \in issued
    /\ input' = ClosedFor(att.turn)
    /\ UNCHANGED <<slot, attemptSeq, callers, environment>>

-----------------------------------------------------------------------------
(* Recovery from canonical facts                                           *)

\* Mutant of RecoveredStatus: canonical statuses are taken over unmapped.
StatusUnmapped(status) == status

\* recover_command_for_canonical_turn: the status a Turn is recovered with.
RecoveredStatus(status) ==
    CASE status = "pending" -> "accepted"
      [] status \in {"interrupted", "cancelled", "superseded"} -> "cancelled"
      [] OTHER -> status

\* A terminal fact may not contradict the Turn that owns the slot.
SlotAgrees(f) ==
    active # None =>
        IF active.turn = f.turn
        THEN /\ active.n = f.n
             /\ SameAdmission(active, f)
             /\ active.seq \in {0, f.seq}
        ELSE active.request # f.request

\* Terminal fact of a Turn already recorded with an unknown seq.
FillsFinished(f) ==
    /\ f.status \in CanonicalTerminal
    /\ SlotAgrees(f)
    /\ recent[f.request] # None
    /\ SameAdmission(recent[f.request], f)
    /\ recent[f.request].n = f.n
    /\ recent[f.request].status = RecoveredStatus(f.status)
    /\ recent[f.request].seq = 0
    /\ f.seq # 0

\* Mutant of RecordsFinished: a record of the request is no obstacle.
RecordsAgain(f) ==
    /\ f.status \in CanonicalTerminal
    /\ SlotAgrees(f)

\* Terminal fact that enters the replay index.
RecordsFinished(f) ==
    /\ f.status \in CanonicalTerminal
    /\ SlotAgrees(f)
    /\ recent[f.request] = None
    /\ \A r \in Held : recent[r].turn = f.turn =>
           SameAdmission(recent[r], f) /\ recent[r].n = f.n

\* Live fact of the Turn that owns the slot, seq unknown so far.
FillsActive(f) ==
    /\ f.status \in CanonicalLive
    /\ recent[f.request] = None
    /\ active # None
    /\ active.turn = f.turn
    /\ active.n = f.n
    /\ SameAdmission(active, f)
    /\ active.seq = 0
    /\ f.seq # 0

\* Mutant of Revives: the sequence of recorded Turns is not compared.
RevivesOlder(f) ==
    /\ f.status \in CanonicalLive
    /\ recent[f.request] = None
    /\ active # None => /\ active.turn # f.turn
                        /\ active.request # f.request
                        /\ f.seq > active.seq
    /\ \A r \in Held : recent[r].turn # f.turn

\* Live fact that takes the slot: from an older Turn, and only if no recorded
\* Turn is as new.
Revives(f) ==
    /\ f.status \in CanonicalLive
    /\ recent[f.request] = None
    /\ active # None => /\ active.turn # f.turn
                        /\ active.request # f.request
                        /\ f.seq > active.seq
    /\ \A r \in Held : /\ recent[r].turn # f.turn
                       /\ recent[r].seq < f.seq

\* apply_recover_command
Recover(f) ==
    \/ /\ FillsFinished(f)
       /\ recent' = [recent EXCEPT ![f.request].seq = f.seq]
       /\ UNCHANGED <<active, nextOrder>>
    \/ /\ RecordsFinished(f)
       /\ active' = IF active # None /\ active.turn = f.turn THEN None
                                                             ELSE active
       /\ RecordFinished(FinishedOf(f, RecoveredStatus(f.status)))
    \/ /\ FillsActive(f)
       /\ active' = [active EXCEPT !.seq = f.seq]
       /\ UNCHANGED <<recent, nextOrder>>
    \/ /\ Revives(f)
       /\ active' = [turn |-> f.turn, request |-> f.request, fp |-> f.fp,
                     profile |-> f.profile, n |-> f.n,
                     status |-> RecoveredStatus(f.status), seq |-> f.seq]
       /\ UNCHANGED <<recent, nextOrder>>
    \/ /\ ~(\/ FillsFinished(f) \/ RecordsFinished(f)
            \/ FillsActive(f) \/ Revives(f))
       /\ UNCHANGED slot

\* The order restore_turn_coordinator_from_session_store replays facts in.
Newest(facts) == {f \in facts : \A g \in facts : f.seq >= g.seq}

\* One iteration of the restore loop.
RecoverNext ==
    /\ \E f \in Newest(todo) :
           /\ todo' = todo \ {f}
           /\ issued' = issued \cup {AttemptOf(f)}
           /\ Recover(f)
    /\ UNCHANGED <<attemptSeq, input, cont, clearing, steering, submitting,
                   environment>>

CanonicalFacts == {canon[t] : t \in Turns} \ {None}

\* The process dies and starts again: only canonical facts survive, and the
\* restore reads them before anything is served.
Restart ==
    /\ active' = None
    /\ recent' = [r \in Requests |-> None]
    /\ nextOrder' = 0
    /\ attemptSeq' = 0
    /\ input' = None
    /\ cont' = None
    /\ clearing' = "idle"
    /\ steering' = {}
    /\ submitting' = {}
    /\ issued' = {}
    /\ todo' = CanonicalFacts
    /\ UNCHANGED environment

\* Recover commands on a coordinator in use: the facts are read once and
\* replayed while other commands go on.
BeginRestore ==
    /\ LiveRestore
    /\ clearing = "idle"
    /\ todo = {}
    /\ todo' = CanonicalFacts
    /\ UNCHANGED <<coordinator, cont, clearing, steering, submitting, issued,
                   environment>>

-----------------------------------------------------------------------------
(* Session deletion: clear_session takes the state lock, then the input    *)
(* lock; the session's facts are deleted last, which may fail.             *)

ClearState ==
    /\ TurnLockFree
    /\ todo = {}
    /\ clearing' = "inputs"
    /\ active' = None
    /\ recent' = [r \in Requests |-> None]
    /\ nextOrder' = 0
    /\ UNCHANGED <<attemptSeq, input, cont, steering, submitting, issued, todo,
                   environment>>

ClearInputs ==
    /\ clearing = "inputs"
    /\ clearing' = "idle"
    /\ input' = None
    /\ canon' \in {canon, [t \in Turns |-> None]}
    /\ UNCHANGED <<slot, attemptSeq, cont, steering, submitting, issued, todo,
                   clock, stamp, born>>

-----------------------------------------------------------------------------
(* The SessionStore, as far as the coordinator's callers use it (external) *)

\* The durable accept of an admitted Turn; turnSeq is the acceptance time.
\* From here on other threads hold the attempt.
CanonAccept(id) ==
    /\ id \in submitting
    /\ submitting' = submitting \ {id}
    /\ issued' = issued \cup {AttemptOf(id)}
    /\ canon' = [canon EXCEPT ![id.turn] =
           [turn |-> id.turn, request |-> id.request, fp |-> id.fp,
            profile |-> id.profile, n |-> id.n, status |-> "pending",
            seq |-> stamp[id.turn]]]
    /\ UNCHANGED <<coordinator, cont, clearing, steering, todo, clock, stamp,
                   born>>

\* set_status_domain, cancel_turn, interrupt_turn: terminal facts are final.
CanonStatus(t, status) ==
    /\ Serving
    /\ canon[t] # None
    /\ canon[t].status \in CanonicalLive
    /\ status # canon[t].status
    /\ canon' = [canon EXCEPT ![t].status = status]
    /\ UNCHANGED <<coordinator, callers, clock, stamp, born>>

Next ==
    \/ \E adm \in Admissions : Start(adm)
    \/ \E att \in issued, st \in Live : SetStatus(att, st)
    \/ \E att \in issued, st \in Terminal : Finish(att, st)
    \/ \E att \in issued \cup {AttemptOf(id) : id \in submitting} : Abort(att)
    \/ \E att \in issued, st \in Terminal, adm \in Admissions :
           ContinueCheck(att, st, adm)
    \/ ContinueFinish
    \/ ContinueTerminal
    \/ ContinueAccept
    \/ \E att \in issued : BeginInput(att)
    \/ \E att \in issued : SteerCheck(att)
    \/ \E t \in steering : SteerCommit(t)
    \/ \E t \in Turns : Drain(t)
    \/ \E t \in Turns : TakeOrClose(t)
    \/ \E att \in issued : CloseInput(att)
    \/ RecoverNext
    \/ Restart
    \/ BeginRestore
    \/ ClearState
    \/ ClearInputs
    \/ \E id \in submitting : CanonAccept(id)
    \/ \E t \in Turns, st \in Reached : CanonStatus(t, st)

Spec == Init /\ [][Next]_vars

-----------------------------------------------------------------------------
(* Properties                                                              *)

\* accept and apply_recover_command keep a request in one place: the Turn that
\* owns the slot is never in the replay index as well, under any order of
\* commands.  Otherwise a retry would be answered with a Turn that is not the
\* one running, and finish would overwrite a recorded result.
SlotExclusive ==
    active # None => /\ recent[active.request] = None
                     /\ \A r \in Held : recent[r].turn # active.turn

\* Whatever finishes, recovers, restarts or retries, a Turn keeps the request,
\* fingerprint, profile and attempt it was admitted with, in the slot, in the
\* replay index and in the facts a restore replays; and the replay index files
\* each record under its own request.
IdentityStable ==
    /\ active # None => born[active.turn] = IdentityOf(active)
    /\ \A r \in Held : /\ recent[r].request = r
                       /\ born[recent[r].turn] = IdentityOf(recent[r])
    /\ \A f \in todo \cup CanonicalFacts : born[f.turn] = IdentityOf(f)
    /\ \A id \in submitting : born[id.turn] = id

\* requestId is an idempotency key across Turns (comment in
\* apply_recover_command): slot, replay index and canonical facts never bind
\* one request to two Turns, not even after the record was evicted or the
\* process was restarted.
OneTurnPerRequest ==
    \A a, b \in ({active} \cup {recent[r] : r \in Requests} \cup CanonicalFacts)
                    \ {None} :
        a.request = b.request => a.turn = b.turn

\* record_finished keeps exactly the Turns finished last: the orders of the
\* retained records are an unbroken run that ends at the newest.
ReplayWindow ==
    {recent[r].order : r \in Held} =
        {o \in 0 .. nextOrder : nextOrder - Cardinality(Held) <= o /\ o < nextOrder}

\* Once Continue has settled the previous attempt, that Turn does not hold the
\* slot and its record, while retained, says what Continue was told, although
\* other commands run between the critical sections.
ContinueAgrees ==
    cont # None /\ cont.step = "accept" =>
        /\ active # None => active.turn # cont.prev.turn
        /\ \A r \in Held : recent[r].turn = cont.prev.turn =>
               recent[r].status = cont.status

\* No retained record changes, except that an unknown turnSeq is filled in.
ResultsKept ==
    \A r \in Requests : recent[r] # None /\ recent'[r] # None =>
        \/ recent'[r] = recent[r]
        \/ /\ recent[r].seq = 0
           /\ recent'[r] = [recent[r] EXCEPT !.seq = recent'[r].seq]

\* A recorded terminal result is final: while a record is retained, no late
\* finish, Continue or Recover changes it, except that an unknown turnSeq is
\* filled in once (finish: "only the current attempt may submit a result").
TerminalImmutable == [][ResultsKept]_vars

\* The startup restore hands the slot to the newest canonical Turn if that
\* Turn is live, and to nobody otherwise: a stale live fact never covers a
\* newer Turn (comment in restore_turn_coordinator_from_session_store).
RestoreRevivesNewest ==
    [][~LiveRestore /\ todo # {} /\ todo' = {} =>
           \A f \in CanonicalFacts :
               (\A g \in CanonicalFacts : f.seq >= g.seq) =>
               IF f.status \in CanonicalLive
               THEN active' # None /\ active'.turn = f.turn
               ELSE active' = None]_vars

\* FinishedTurn.finished_order: "only the most recent batch is kept".  Stated
\* for the index a restart rebuilds: no finished canonical Turn that is missing
\* from it is newer than one that is in it.
RestoreKeepsNewest ==
    [][~LiveRestore /\ todo # {} /\ todo' = {} =>
           \A f, g \in CanonicalFacts :
               /\ f.status \in CanonicalTerminal
               /\ g.status \in CanonicalTerminal
               /\ recent'[f.request] = None
               /\ recent'[g.request] # None
               => f.seq < g.seq]_vars

====
