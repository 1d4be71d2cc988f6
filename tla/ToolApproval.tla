---------------------------- MODULE ToolApproval ----------------------------
(***************************************************************************)
(* Tool approvals of one session: the registry that lives in the process   *)
(* (ToolApprovalRegistry), the durable approvals on the canonical tool     *)
(* items (SessionStore), the threads that wait for a decision, the clients *)
(* that decide, and a daemon that may restart between any two steps.       *)
(*                                                                         *)
(* An approval is named after the tool call it is for: every call asks at  *)
(* most once.  A native call belongs to a Turn and has a durable record;   *)
(* an external (MCP) call is a Turn of its own and lives in the registry   *)
(* only.  A durable commit may fail at any time and then changes nothing.  *)
(***************************************************************************)
EXTENDS Naturals

CONSTANTS
    Calls,        \* tool calls, numbered in the order of their items
    External,     \* the calls that come from an MCP client
    Turns,        \* Turn ids
    Agents,       \* the Turns of agents handed over to the session
    Tasks,        \* task ids; for an external call, its token
    TurnOf,       \* Turn of a call; an external call is its own Turn
    TaskOf,       \* task of a call
    WhatOf,       \* tool, normalized arguments, execution root and policy
    Resumes,      \* the interrupted Turn that a Turn continues, or None
    Sources,      \* a task and the tasks of its recovery chain
    Clients,      \* clients deciding concurrently
    Choices,      \* the decisions they take
    MaxRestarts,  \* bound on daemon restarts
    None          \* Option::None

Native == Calls \ External
Main   == Turns \ Agents

ASSUME CallAssumption ==
    /\ Calls \subseteq Nat
    /\ External \subseteq Calls
    /\ Agents \subseteq Turns
    /\ TurnOf \in [Calls -> Turns \cup External]
    /\ TaskOf \in [Calls -> Tasks]
    /\ \A c \in Native : TurnOf[c] \in Turns
    /\ \A c \in External : TurnOf[c] = c /\ c \notin Turns

ASSUME ChainAssumption ==
    /\ Resumes \in [Turns -> Turns \cup {None}]
    /\ Sources \in [Tasks -> SUBSET Tasks]
    /\ MaxRestarts \in Nat
    /\ None \notin Turns
    /\ Choices \subseteq {"once", "turn", "deny"}

Allow     == {"once", "turn"}
Decisions == Allow \cup {"deny"}
Undecided == "open"

\* DurableToolApproval, with the consistency that reading it back enforces.
\* execution is the call that claimed it.
Records ==
    {r \in [decision : Decisions \cup {Undecided}, cancelled : BOOLEAN,
            execution : Calls \cup {None}] :
        /\ r.cancelled => r.decision = Undecided
        /\ r.execution # None => r.decision \in Allow}

\* dropped: cancelled, timed out or failed without having run.
Outcomes == {"ran", "denied", "expired", "dropped"}

ASSUME NoneAssumption ==
    None \notin Records \cup Calls \cup Decisions \cup Outcomes

\* SessionToolCallFingerprint.
Fingerprint(c) == [turn |-> TurnOf[c], task |-> TaskOf[c], what |-> WhatOf[c]]
Fingerprints   == {Fingerprint(c) : c \in Calls}

VARIABLES
    turn,     \* status of the canonical Turns
    current,  \* the Turn the session's sidecar points at
    live,     \* tasks still pending or running, tokens still connected
    late,     \* approvals older than TOOL_APPROVAL_TTL_MILLIS
    rec,      \* the durable approvals
    pend,     \* registry: pending
    grants,   \* registry: turn_tool_grants
    denied,   \* registry: denied_session_tool_calls
    lapsed,   \* registry: expired
    mail,     \* decision in the channel of a waiter
    pc,       \* where the thread of a call is
    out,      \* how the call ended
    asks,     \* what a client is about to do with a decision
    restarts, \* daemon restarts so far
    consent,  \* history: decisions the daemon confirmed to a client
    runs      \* history: the calls that ran on an approval

registry == <<pend, grants, denied, lapsed>>
world    == <<turn, current, live, restarts>>
vars     == <<world, late, rec, registry, mail, pc, out, asks, consent, runs>>

PCs      == {"idle", "asking", "requested", "waiting", "allowed", "running",
             "over", "closed", "lost"}
Requests == [call : Calls, decision : Decisions, path : {"registry", "store"}]

TypeOK ==
    /\ turn \in [Turns -> {"new", "accepted", "running", "interrupted", "ended"}]
    /\ current \in Turns \cup {None}
    /\ live \subseteq Tasks
    /\ late \subseteq Calls
    /\ rec \in [Calls -> Records \cup {None}]
    /\ pend \subseteq Calls
    /\ grants \subseteq Fingerprints
    /\ denied \subseteq Fingerprints
    /\ lapsed \subseteq Calls
    /\ mail \in [Calls -> Decisions \cup {None}]
    /\ pc \in [Calls -> PCs]
    /\ out \in [Calls -> Outcomes \cup {None}]
    /\ asks \in [Clients -> Requests \cup {None}]
    /\ restarts \in 0..MaxRestarts
    /\ consent \subseteq [call : Calls, decision : Decisions]
    /\ runs \in [Calls -> SUBSET Calls]

Init ==
    /\ turn = [t \in Turns |-> "new"]
    /\ current = None
    /\ live = Tasks
    /\ late = {}
    /\ rec = [c \in Calls |-> None]
    /\ pend = {} /\ grants = {} /\ denied = {} /\ lapsed = {}
    /\ mail = [c \in Calls |-> None]
    /\ pc = [c \in Calls |-> "idle"]
    /\ out = [c \in Calls |-> None]
    /\ asks = [u \in Clients |-> None]
    /\ restarts = 0
    /\ consent = {}
    /\ runs = [c \in Calls |-> {}]

-----------------------------------------------------------------------------
(* The durable side *)

\* interaction_turn_is_current_or_recoverable: an agent's Turn by itself, a
\* Turn of the main line only while the session points at it.
LiveTurn(t) ==
    IF t \in Agents THEN turn[t] \in {"running", "interrupted"} ELSE current = t

ItemOpen(c) == pc[c] \notin {"idle", "closed", "lost"}

\* A running Turn takes a decision on an open item, an interrupted one on an
\* item that still shows awaiting_approval.
Resolvable(c) ==
    /\ LiveTurn(TurnOf[c])
    /\ \/ turn[TurnOf[c]] = "running" /\ ItemOpen(c)
       \/ turn[TurnOf[c]] = "interrupted" /\ rec[c].execution = None

\* Mutant of IsPending: a cancelled approval can still be decided.
IsPendingOrCancelled(c) ==
    rec[c] # None /\ rec[c].decision = Undecided /\ c \notin late

IsPending(c) ==
    rec[c] # None /\ rec[c].decision = Undecided /\ ~rec[c].cancelled /\ c \notin late

\* pending_in_state
PendingInStore == {c \in Native : IsPending(c) /\ Resolvable(c)}

Decided(C, d) ==
    [c \in Calls |-> IF c \in C THEN [rec[c] EXCEPT !.decision = d] ELSE rec[c]]

\* cancel_tool_approval of each call of C; a decided approval is left alone.
Cancelled(C) ==
    [c \in Calls |->
        IF c \in C /\ rec[c] # None /\ rec[c].decision = Undecided
        THEN [rec[c] EXCEPT !.cancelled = TRUE] ELSE rec[c]]

\* Mutant of Claimable: an approval already claimed can be claimed again.
ClaimableTwice(a, c) ==
    /\ rec[a] # None /\ ~rec[a].cancelled
    /\ TaskOf[a] \in Sources[TaskOf[c]] /\ WhatOf[a] = WhatOf[c]
    /\ \/ rec[a].decision = "deny"
       \/ rec[a].decision \in Allow /\ a \notin late

\* The conditions under which claim_tool_approval answers call c with the
\* approval of call a.
Claimable(a, c) ==
    /\ rec[a] # None /\ rec[a].execution = None /\ ~rec[a].cancelled
    /\ TaskOf[a] \in Sources[TaskOf[c]] /\ WhatOf[a] = WhatOf[c]
    /\ \/ rec[a].decision = "deny"
       \/ rec[a].decision \in Allow /\ a \notin late

\* Without an id only interrupted Turns are searched, the latest item first.
PriorApprovals(c) ==
    {a \in Native : /\ TurnOf[a] # TurnOf[c]
                    /\ turn[TurnOf[a]] = "interrupted"
                    /\ Claimable(a, c)}
Latest(C) == {c \in C : \A d \in C : d <= c}

\* claim_tool_approval commits the claim and the running item in one step; a
\* denial is returned without a claim.
Launch(c, a) ==
    /\ rec' = IF rec[a].decision = "deny" THEN rec
              ELSE [rec EXCEPT ![a].execution = c]
    /\ runs' = [runs EXCEPT ![a] = @ \cup {c}]
    /\ pc' = [pc EXCEPT ![c] = "running"]

End(c, o) ==
    /\ pc' = [pc EXCEPT ![c] = "over"]
    /\ out' = [out EXCEPT ![c] = o]

-----------------------------------------------------------------------------
(* The registry *)

\* expire_stale_locked: every entry point begins with it.
Fresh == pend \ late
Stale == lapsed \cup (pend \cap late)

ExpireStale == pend' = Fresh /\ lapsed' = Stale

\* Drop the pending approvals of C.  persist_cancel only logs a failed
\* commit, so any part of C may stay undecided on disk.
Withdraw(C) ==
    /\ pend' = pend \ C
    /\ \E failed \in SUBSET (pend \cap C) :
         rec' = Cancelled((pend \cap C) \ failed)

RemoveTurn(t) ==
    /\ Withdraw({c \in Calls : TurnOf[c] = t})
    /\ grants' = {f \in grants : f.turn # t}
    /\ denied' = {f \in denied : f.turn # t}
    /\ lapsed' = {c \in lapsed : TurnOf[c] # t}

\* A task's grants and denials are kept.
RemoveTask(k) ==
    /\ Withdraw({c \in Calls : TaskOf[c] = k})
    /\ lapsed' = {c \in lapsed : TaskOf[c] # k}
    /\ UNCHANGED <<grants, denied>>

\* begin_turn and remove_session drop what the registry holds of the session.
Wipe == Withdraw(Calls) /\ grants' = {} /\ denied' = {} /\ lapsed' = {}

-----------------------------------------------------------------------------
(* A native call: await_task_tool_approval *)

TaskActive(c) == TaskOf[c] \in live
TurnActive(c) == turn[TurnOf[c]] = "running"

\* A batch reaches the call.  Its Turn may have ended already; a decided
\* approval of the interrupted Turns before it is used first.
Enter(c) ==
    /\ c \in Native /\ pc[c] = "idle"
    /\ turn[TurnOf[c]] \in {"running", "ended"}
    /\ \/ ~TurnActive(c) /\ End(c, "dropped") /\ UNCHANGED <<rec, runs>>
       \/ End(c, "dropped") /\ UNCHANGED <<rec, runs>>
       \/ /\ TurnActive(c) /\ TaskActive(c)
          /\ \/ /\ PriorApprovals(c) = {}
                /\ pc' = [pc EXCEPT ![c] = "asking"]
                /\ UNCHANGED <<out, rec, runs>>
             \/ \E a \in Latest(PriorApprovals(c)) :
                  \/ /\ rec[a].decision = "deny"
                     /\ End(c, "denied") /\ UNCHANGED <<rec, runs>>
                  \/ /\ rec[a].decision # "deny"
                     /\ Launch(c, a) /\ UNCHANGED out
    /\ UNCHANGED <<world, late, registry, mail, asks, consent>>

\* register_tool_approval with the decision already taken, if there is one.
Register(c, d) ==
    /\ LiveTurn(TurnOf[c]) /\ TurnActive(c)
    /\ rec' = [rec EXCEPT ![c] =
                 [decision |-> d, cancelled |-> FALSE, execution |-> None]]

\* request_internal with a journal, all of it under the registry's lock.
RequestPersisted(c) ==
    /\ c \in Native /\ pc[c] = "asking"
    /\ lapsed' = Stale \ {c}
    /\ LET kept == {f \in grants : f.turn = TurnOf[c]}
           f    == Fingerprint(c)
       IN  /\ grants' = kept
           /\ \/ /\ f \in kept
                 /\ Register(c, "turn")
                 /\ pc' = [pc EXCEPT ![c] = "allowed"]
                 /\ pend' = Fresh /\ UNCHANGED out
              \/ /\ f \notin kept /\ f \in denied
                 /\ End(c, "denied") /\ pend' = Fresh /\ UNCHANGED rec
              \/ /\ f \notin kept /\ f \notin denied
                 /\ Register(c, Undecided)
                 /\ pend' = Fresh \cup {c}
                 /\ pc' = [pc EXCEPT ![c] = "requested"]
                 /\ UNCHANGED out
              \/ /\ f \in kept \/ f \notin denied
                 /\ End(c, "dropped") /\ pend' = Fresh /\ UNCHANGED rec
    /\ UNCHANGED <<world, late, denied, mail, asks, consent, runs>>

\* The awaiting_approval progress is persisted, or the request is withdrawn;
\* a decision that is already there stays in the channel.
Announce(c) ==
    /\ c \in Native /\ pc[c] = "requested"
    /\ \/ /\ pc' = [pc EXCEPT ![c] = "waiting"]
          /\ UNCHANGED <<out, rec, pend>>
       \/ End(c, "dropped") /\ Withdraw({c})
    /\ UNCHANGED <<world, late, grants, denied, lapsed, mail, asks, consent, runs>>

\* What the waiter does when its task or its Turn is no longer active.
StopWaiting(c) ==
    /\ ~TaskActive(c) \/ ~TurnActive(c)
    /\ \/ ~TurnActive(c) /\ RemoveTurn(TurnOf[c])
       \/ TurnActive(c) /\ RemoveTask(TaskOf[c])
    /\ End(c, "dropped")

\* recv_timeout returns a decision.
Receive(c) ==
    /\ c \in Native /\ pc[c] = "waiting" /\ mail[c] # None
    /\ \/ /\ mail[c] \in Allow /\ TaskActive(c) /\ TurnActive(c)
          /\ pc' = [pc EXCEPT ![c] = "allowed"]
          /\ UNCHANGED <<out, rec, registry>>
       \/ mail[c] \in Allow /\ StopWaiting(c)
       \/ /\ mail[c] = "deny"
          /\ End(c, IF TaskActive(c) /\ TurnActive(c) THEN "denied" ELSE "dropped")
          /\ UNCHANGED <<rec, registry>>
    /\ mail' = [mail EXCEPT ![c] = None]
    /\ UNCHANGED <<world, late, asks, consent, runs>>

\* Mutant of Poll: a waiter that times out does not ask for the expiry.
PollNoExpiry(c) ==
    /\ c \in Native /\ pc[c] = "waiting" /\ mail[c] = None
    /\ \/ /\ c \in lapsed
          /\ ExpireStale /\ UNCHANGED <<grants, denied, rec>>
          /\ End(c, IF TaskActive(c) /\ TurnActive(c) THEN "expired" ELSE "dropped")
       \/ c \notin lapsed /\ StopWaiting(c)
       \/ /\ c \notin lapsed /\ TaskActive(c) /\ TurnActive(c) /\ c \notin pend
          /\ End(c, "dropped")
          /\ UNCHANGED <<registry, rec>>
    /\ UNCHANGED <<world, late, mail, asks, consent, runs>>

\* recv_timeout returns without one: the entry expired, the work stopped, or
\* the sender is gone.  Otherwise the loop goes on waiting.
Poll(c) ==
    /\ c \in Native /\ pc[c] = "waiting" /\ mail[c] = None
    /\ \/ /\ c \in Stale
          /\ ExpireStale /\ UNCHANGED <<grants, denied, rec>>
          /\ End(c, IF TaskActive(c) /\ TurnActive(c) THEN "expired" ELSE "dropped")
       \/ c \notin Stale /\ StopWaiting(c)
       \/ /\ c \notin Stale /\ TaskActive(c) /\ TurnActive(c) /\ c \notin pend
          /\ End(c, "dropped")
          /\ UNCHANGED <<registry, rec>>
    /\ UNCHANGED <<world, late, mail, asks, consent, runs>>

\* After the repository lease is back: claim with this call's own id.
Claim(c) ==
    /\ c \in Native /\ pc[c] = "allowed"
    /\ \/ /\ TaskActive(c) /\ TurnActive(c) /\ LiveTurn(TurnOf[c])
          /\ Claimable(c, c)
          /\ Launch(c, c) /\ UNCHANGED out
       \/ End(c, "dropped") /\ UNCHANGED <<rec, runs>>
    /\ UNCHANGED <<world, late, registry, mail, asks, consent>>

\* The tool returns, or the progress of the running tool cannot be saved.
Finish(c) ==
    /\ pc[c] = "running"
    /\ End(c, "ran")
    /\ UNCHANGED <<world, late, rec, registry, mail, asks, consent, runs>>

\* The batch commits the result: the canonical item is terminal.
Settle(c) ==
    /\ pc[c] = "over"
    /\ pc' = [pc EXCEPT ![c] = "closed"]
    /\ UNCHANGED <<world, late, rec, registry, mail, out, asks, consent, runs>>

-----------------------------------------------------------------------------
(* An external call: await_external_tool_approval.  Its grants and denials *)
(* die with it, because its Turn is its own.                               *)

RequestExternal(c) ==
    /\ c \in External /\ pc[c] = "idle"
    /\ IF TaskActive(c)
       THEN /\ pend' = Fresh \cup {c}
            /\ lapsed' = Stale \ {c}
            /\ grants' = {f \in grants : f.turn = TurnOf[c]}
            /\ pc' = [pc EXCEPT ![c] = "waiting"]
            /\ UNCHANGED out
       ELSE End(c, "dropped") /\ UNCHANGED <<pend, lapsed, grants>>
    /\ UNCHANGED <<world, late, rec, denied, mail, asks, consent, runs>>

ReceiveExternal(c) ==
    /\ c \in External /\ pc[c] = "waiting" /\ mail[c] # None
    /\ \/ /\ mail[c] \in Allow /\ TaskActive(c)
          /\ pc' = [pc EXCEPT ![c] = "running"]
          /\ runs' = [runs EXCEPT ![c] = @ \cup {c}]
          /\ UNCHANGED out
       \/ /\ mail[c] \in Allow => ~TaskActive(c)
          /\ End(c, IF mail[c] = "deny" THEN "denied" ELSE "dropped")
          /\ UNCHANGED runs
    /\ RemoveTurn(c)
    /\ mail' = [mail EXCEPT ![c] = None]
    /\ UNCHANGED <<world, late, asks, consent>>

\* The caller's own deadline is at most the TTL, so it may pass at any time.
PollExternal(c) ==
    /\ c \in External /\ pc[c] = "waiting" /\ mail[c] = None
    /\ End(c, IF TaskActive(c) /\ c \in Stale THEN "expired" ELSE "dropped")
    /\ RemoveTurn(c)
    /\ UNCHANGED <<world, late, mail, asks, consent, runs>>

\* cancel_external_approvals, after a token is revoked or disconnected.
CancelExternal(k) ==
    /\ k \notin live
    /\ \E c \in External : TaskOf[c] = k
    /\ Withdraw({c \in Calls : TaskOf[c] = k})
    /\ lapsed' = {c \in lapsed : TaskOf[c] # k}
    /\ grants' = {f \in grants : f.turn \notin External}
    /\ denied' = {f \in denied : f.turn \notin External}
    /\ UNCHANGED <<world, late, mail, pc, out, asks, consent, runs>>

-----------------------------------------------------------------------------
(* Clients: resolve_approval looks the id up in the registry and takes one *)
(* of two paths; between the lookup and the decision anything may happen.  *)

Known(c) == rec[c] # None \/ c \in pend

LookUp(u, c, d) ==
    /\ asks[u] = None /\ Known(c)
    /\ ExpireStale
    /\ asks' = [asks EXCEPT ![u] =
                 [call |-> c, decision |-> d,
                  path |-> IF c \in Fresh THEN "registry" ELSE "store"]]
    /\ UNCHANGED <<world, late, rec, grants, denied, mail, pc, out, consent, runs>>

\* Mutant of Together: AllowForTurn wakes every request for the same tool.
TogetherByTool(c, d) ==
    {a \in Fresh : a = c \/ (d = "turn" /\ WhatOf[a] = WhatOf[c])}

\* The pending requests that one decision settles.
Together(c, d) ==
    {a \in Fresh : a = c \/ (d = "turn" /\ Fingerprint(a) = Fingerprint(c))}

\* ToolApprovalRegistry::resolve.  All durable records of the decision are
\* committed before a waiter is woken; a refused or failed commit leaves
\* every request pending.
Resolve(u) ==
    /\ asks[u] # None /\ asks[u].path = "registry"
    /\ LET c == asks[u].call
           d == asks[u].decision
           C == Together(c, d)
       IN  /\ lapsed' = Stale
           /\ \/ /\ c \in Fresh
                 /\ C \cap Native \subseteq PendingInStore
                 /\ rec' = Decided(C \cap Native, d)
                 /\ pend' = Fresh \ C
                 /\ mail' = [a \in Calls |-> IF a \in C THEN d ELSE mail[a]]
                 /\ denied' = denied \cup (IF d = "deny" THEN {Fingerprint(c)} ELSE {})
                 /\ grants' = grants \cup (IF d = "turn" THEN {Fingerprint(c)} ELSE {})
                 /\ consent' = consent \cup {[call |-> c, decision |-> d]}
              \/ /\ c \notin Fresh \/ c \in Native
                 /\ pend' = Fresh
                 /\ UNCHANGED <<rec, mail, denied, grants, consent>>
    /\ asks' = [asks EXCEPT ![u] = None]
    /\ UNCHANGED <<world, late, pc, out, runs>>

\* Mutant of ResolveStored: the age of the approval is not checked.
ResolveStoredLate(u) ==
    /\ asks[u] # None /\ asks[u].path = "store"
    /\ LET c == asks[u].call
           d == asks[u].decision
       IN  \/ /\ rec[c] # None /\ rec[c].decision = Undecided /\ ~rec[c].cancelled
              /\ Resolvable(c)
              /\ rec' = Decided({c}, d)
              /\ consent' = consent \cup {[call |-> c, decision |-> d]}
           \/ UNCHANGED <<rec, consent>>
    /\ asks' = [asks EXCEPT ![u] = None]
    /\ UNCHANGED <<world, late, registry, mail, pc, out, runs>>

\* The durable path, meant for approvals of a daemon that is gone: no waiter
\* is woken.
ResolveStored(u) ==
    /\ asks[u] # None /\ asks[u].path = "store"
    /\ LET c == asks[u].call
           d == asks[u].decision
       IN  \/ /\ c \in PendingInStore
              /\ rec' = Decided({c}, d)
              /\ consent' = consent \cup {[call |-> c, decision |-> d]}
           \/ UNCHANGED <<rec, consent>>
    /\ asks' = [asks EXCEPT ![u] = None]
    /\ UNCHANGED <<world, late, registry, mail, pc, out, runs>>

-----------------------------------------------------------------------------
(* Turns, tasks, time and the daemon *)

\* A new Turn of the main line.  A Turn that continues an interrupted one is
\* refused while the session has approvals to decide.
Accept(t) ==
    /\ t \in Main /\ turn[t] = "new"
    /\ \A s \in Main : turn[s] \notin {"accepted", "running"}
    /\ Resumes[t] # None => /\ current = Resumes[t]
                            /\ turn[current] = "interrupted"
                            /\ PendingInStore = {}
    /\ turn' = [turn EXCEPT ![t] = "accepted"]
    /\ current' = t
    /\ UNCHANGED <<live, restarts, late, rec, registry, mail, pc, out, asks, consent, runs>>

\* begin_session_turn_input: the registry forgets the session.
BeginInput(t) ==
    /\ t \in Main /\ turn[t] = "accepted"
    /\ turn' = [turn EXCEPT ![t] = "running"]
    /\ Wipe
    /\ UNCHANGED <<current, live, restarts, late, mail, pc, out, asks, consent, runs>>

\* An agent handed over to the session starts its Turn, or is continued in a
\* new one after its approvals were decided; the registry is not touched.
StartAgent(t) ==
    /\ t \in Agents /\ turn[t] = "new"
    /\ Resumes[t] # None => /\ turn[Resumes[t]] = "interrupted"
                            /\ \A c \in PendingInStore : TurnOf[c] # Resumes[t]
    /\ turn' = [turn EXCEPT ![t] = "running"]
    /\ UNCHANGED <<current, live, restarts, late, rec, registry, mail, pc, out, asks, consent, runs>>

\* The canonical Turn becomes terminal.
EndTurn(t) ==
    /\ turn[t] \in {"accepted", "running"}
    /\ turn' = [turn EXCEPT ![t] = "ended"]
    /\ UNCHANGED <<current, live, restarts, late, rec, registry, mail, pc, out, asks, consent, runs>>

\* close_session_turn_input, and take_session_turn_steers_or_close when it
\* closes: before or after the Turn is terminal.
CloseInput(t) ==
    /\ t \in Main /\ turn[t] \in {"running", "ended"}
    /\ RemoveTurn(t)
    /\ UNCHANGED <<world, late, mail, pc, out, asks, consent, runs>>

\* remove_session: the session is closed or deleted with all it runs.
CloseSession ==
    /\ Wipe
    /\ turn' = [t \in Turns |-> "ended"]
    /\ live' = {}
    /\ UNCHANGED <<current, restarts, late, mail, pc, out, asks, consent, runs>>

StopTask(k) ==
    /\ k \in live
    /\ live' = live \ {k}
    /\ UNCHANGED <<turn, current, restarts, late, rec, registry, mail, pc, out, asks, consent, runs>>

\* Five minutes have passed since the request.
Age(c) ==
    /\ Known(c) /\ c \notin late
    /\ late' = late \cup {c}
    /\ UNCHANGED <<world, rec, registry, mail, pc, out, asks, consent, runs>>

\* The process dies; at startup open Turns are interrupted, recoverable.
Restart ==
    /\ restarts < MaxRestarts
    /\ restarts' = restarts + 1
    /\ turn' = [t \in Turns |-> IF turn[t] \in {"accepted", "running"}
                                THEN "interrupted" ELSE turn[t]]
    /\ pend' = {} /\ grants' = {} /\ denied' = {} /\ lapsed' = {}
    /\ mail' = [c \in Calls |-> None]
    /\ pc' = [c \in Calls |-> IF pc[c] \in {"idle", "closed"} THEN pc[c] ELSE "lost"]
    /\ asks' = [u \in Clients |-> None]
    /\ UNCHANGED <<current, live, late, rec, out, consent, runs>>

Next ==
    \/ \E c \in Calls : \/ Enter(c) \/ RequestPersisted(c) \/ Announce(c)
                        \/ Receive(c) \/ Poll(c) \/ Claim(c)
                        \/ Finish(c) \/ Settle(c) \/ Age(c)
                        \/ RequestExternal(c) \/ ReceiveExternal(c)
                        \/ PollExternal(c)
                        \/ \E u \in Clients, d \in Choices : LookUp(u, c, d)
    \/ \E u \in Clients : Resolve(u) \/ ResolveStored(u)
    \/ \E t \in Turns : \/ Accept(t) \/ BeginInput(t) \/ StartAgent(t)
                        \/ EndTurn(t) \/ CloseInput(t)
    \/ \E k \in Tasks : StopTask(k) \/ CancelExternal(k)
    \/ CloseSession \/ Restart

\* The waiting thread polls every 250 ms and the clock goes on.
Fairness ==
    \A c \in Calls : /\ WF_vars(Receive(c)) /\ WF_vars(Poll(c))
                     /\ WF_vars(ReceiveExternal(c)) /\ WF_vars(PollExternal(c))
                     /\ WF_vars(Age(c))

Spec     == Init /\ [][Next]_vars
FairSpec == Spec /\ Fairness

-----------------------------------------------------------------------------
(* Properties *)

\* A pending entry has a thread waiting for it and a durable record nobody
\* has decided, cancelled or claimed: registry and store never disagree
\* about what can still be decided, whichever of them a client reaches.
RegistryAgrees ==
    \A c \in pend :
        /\ pc[c] \in {"requested", "waiting"}
        /\ mail[c] = None
        /\ c \in Native =>
             rec[c] = [decision |-> Undecided, cancelled |-> FALSE, execution |-> None]

\* A decision reaches a waiter only after it is durable.
DurableFirst ==
    \A c \in Native : mail[c] # None => rec[c] # None /\ rec[c].decision = mail[c]

Consented(c) ==
    \/ \E d \in Allow : [call |-> c, decision |-> d] \in consent
    \/ \E a \in Calls : /\ [call |-> a, decision |-> "turn"] \in consent
                        /\ Fingerprint(a) = Fingerprint(c)

\* A tool runs only on an approval that a user gave: for this call, or for
\* the Turn, task, tool and arguments of this call; after a restart only for
\* the same tool and arguments in the recovery chain of the task.
RunsAreConsented ==
    \A a \in Calls : \A c \in runs[a] :
        /\ Consented(a)
        /\ WhatOf[c] = WhatOf[a]
        /\ c # a => TaskOf[a] \in Sources[TaskOf[c]]

\* A call reported as expired was not decided: the last-minute decision is
\* either refused or applied, never both confirmed and dropped by the clock.
ExpiredIsUndecided ==
    \A c \in Native : out[c] = "expired" => rec[c].decision = Undecided

\* What the client is told, what the waiting thread is told and what is stored
\* are one decision: the daemon's table of waiters and the store agree on what
\* can still be decided, no waiter hears of a decision that is not durable, and
\* a decision that was confirmed in the last minute is not dropped by the clock.
DecisionsAgree == RegistryAgrees /\ DurableFirst /\ ExpiredIsUndecided

\* No approval is spent twice, not even when the daemon dies between the
\* decision, the claim and the run and the Turn is continued.
OneRunPerApproval ==
    \A a \in Calls : \A c, d \in runs[a] : c = d

\* A thread does not wait for ever: somebody decides, the work stops, or the
\* approval expires.
WaitEnds ==
    \A c \in Calls : pc[c] = "waiting" ~> pc[c] # "waiting"

\* The main line going on does not touch an approval that an agent handed
\* over to the session waits for: while its task and its Turn are active it
\* stays pending until it is decided or expires.
AgentApprovalKept ==
    [][\A c \in pend \ pend' :
          TurnOf[c] \in Agents /\ TaskActive(c) /\ TurnActive(c) /\ live' = live =>
             \/ rec'[c].decision # Undecided
             \/ c \in late
             \/ pc'[c] = "over"]_vars

\* The stage of a durable approval as ApprovalLedger sees it.
StageOf(c) ==
    IF rec[c] = None THEN "none"
    ELSE IF rec[c].execution # None THEN "spent"
    ELSE IF rec[c].cancelled THEN "cancelled"
    ELSE IF rec[c].decision \in Allow THEN "allow"
    ELSE IF rec[c].decision = "deny" THEN "deny" ELSE "open"

\* The durable approvals implement ApprovalLedger: whoever decides, cancels,
\* expires, restarts or claims, an approval is opened, settled and spent once,
\* and nothing runs on one that is not being spent.
Ledger == INSTANCE ApprovalLedger WITH
              Calls <- Native,
              stage <- [c \in Native |-> StageOf(c)],
              ran <- [c \in Native |-> runs[c]]
ImplementsLedger == Ledger!Spec
=============================================================================
