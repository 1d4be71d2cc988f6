------------------------- MODULE ToolApprovalProofs -------------------------
(***************************************************************************)
(* Proofs about ToolApproval, for every number of calls, Turns, tasks,     *)
(* clients and restarts.                                                   *)
(*                                                                         *)
(* Four places know something of an approval: the registry, the channel of *)
(* the waiter, the thread, and the durable record.  No property of one of  *)
(* them is inductive by itself; IInv says what each may conclude about the *)
(* others.                                                                 *)
(***************************************************************************)
EXTENDS ToolApproval, TLAPS

\* Before it asks, a call has left no trace.
NoTrace ==
    \A c \in Calls :
        pc[c] \in {"idle", "asking"} =>
            rec[c] = None /\ out[c] = None /\ mail[c] = None

\* An external call has no durable approval.
ExternalUnrecorded == \A c \in External : rec[c] = None

\* Too old to be decided, and not decided.
Overtaken(c) ==
    c \in late /\ (c \in Native => rec[c] # None /\ rec[c].decision = Undecided)

LapsedIsOvertaken  == \A c \in lapsed : c \notin pend /\ Overtaken(c)
ExpiredIsOvertaken == \A c \in Native : out[c] = "expired" => Overtaken(c)

\* A thread that goes on has its permission on disk.
AllowedIsDurable ==
    \A c \in Native : pc[c] = "allowed" => rec[c] # None /\ rec[c].decision \in Allow

\* The durable execution is the one run, and the run is the durable execution.
RunIsExecution ==
    /\ \A a \in Native :
          runs[a] = IF rec[a] # None /\ rec[a].execution # None
                    THEN {rec[a].execution} ELSE {}
    /\ \A a \in External : runs[a] \subseteq {a}

\* An execution is of the approved tool, in the recovery chain of its task.
ExecutionMatches ==
    \A a \in Native :
        rec[a] # None /\ rec[a].execution # None =>
            /\ WhatOf[rec[a].execution] = WhatOf[a]
            /\ rec[a].execution # a => TaskOf[a] \in Sources[TaskOf[rec[a].execution]]

\* Every permission, wherever it is kept, goes back to a user.
PermissionsAreConsented ==
    /\ \A c \in Native : rec[c] # None /\ rec[c].decision \in Allow => Consented(c)
    /\ \A c \in External : mail[c] \in Allow \/ runs[c] # {} => Consented(c)
    /\ \A f \in grants : \E a \in Calls :
          [call |-> a, decision |-> "turn"] \in consent /\ Fingerprint(a) = f

\* A client that takes the durable path decides nothing a waiter waits for.
StorePathIsLate ==
    \A u \in Clients :
        asks[u] # None /\ asks[u].path = "store" =>
            asks[u].call \notin pend /\ pc[asks[u].call] \notin {"idle", "asking"}

IInv ==
    /\ TypeOK
    /\ NoTrace /\ ExternalUnrecorded
    /\ RegistryAgrees /\ DurableFirst
    /\ LapsedIsOvertaken /\ ExpiredIsOvertaken
    /\ AllowedIsDurable
    /\ RunIsExecution /\ ExecutionMatches
    /\ PermissionsAreConsented
    /\ StorePathIsLate

-----------------------------------------------------------------------------
(* Records *)

LEMMA RecordFacts ==
    ASSUME TypeOK, NEW c \in Calls, rec[c] # None
    PROVE  /\ rec[c] \in Records
           /\ rec[c].decision \in Decisions \cup {Undecided}
           /\ rec[c].cancelled \in BOOLEAN
           /\ rec[c].execution \in Calls \cup {None}
           /\ rec[c].cancelled => rec[c].decision = Undecided
           /\ rec[c].execution # None => rec[c].decision \in Allow
<1>1. rec[c] \in Records
  BY DEF TypeOK
<1> QED
  BY <1>1 DEF Records

\* "open" is not a decision.
LEMMA Kinds ==
    /\ Undecided \notin Decisions
    /\ Allow \subseteq Decisions /\ "deny" \in Decisions /\ "deny" \notin Allow
    /\ "turn" \in Allow
BY DEF Undecided, Decisions, Allow

\* What Register writes is a record.
LEMMA NewRecord ==
    ASSUME NEW d \in Decisions \cup {Undecided}
    PROVE  /\ [decision |-> d, cancelled |-> FALSE, execution |-> None] \in Records
           /\ [decision |-> d, cancelled |-> FALSE, execution |-> None] # None
<1>1. [decision |-> d, cancelled |-> FALSE, execution |-> None] \in Records
  BY DEF Records
<1> QED
  BY <1>1, NoneAssumption

\* A pending entry that is dropped may be cancelled on disk.
Withdrawn(c) ==
    /\ c \in pend \ pend'
    /\ rec[c] # None /\ rec[c].decision = Undecided
    /\ rec'[c] = [rec[c] EXCEPT !.cancelled = TRUE]
Kept == \A c \in Calls : rec'[c] = rec[c] \/ Withdrawn(c)

\* What a withdrawn record still is.
LEMMA KeptFacts ==
    ASSUME TypeOK, Kept, NEW c \in Calls
    PROVE  /\ rec'[c] \in Records \cup {None}
           /\ rec'[c] = None <=> rec[c] = None
           /\ rec[c] # None => /\ rec'[c].decision = rec[c].decision
                               /\ rec'[c].execution = rec[c].execution
           /\ c \in pend' => rec'[c] = rec[c]
<1>1. CASE rec'[c] = rec[c]
  BY <1>1 DEF TypeOK
<1>2. CASE Withdrawn(c)
  <2>1. rec[c] \in Records /\ rec[c].decision = Undecided
    BY <1>2, RecordFacts DEF Withdrawn
  <2>2. [rec[c] EXCEPT !.cancelled = TRUE] \in Records
    BY <2>1, Kinds DEF Records
  <2> QED
    BY <1>2, <2>1, <2>2, NoneAssumption DEF Withdrawn, Records
<1> QED
  BY <1>1, <1>2 DEF Kept

LEMMA WithdrawFacts ==
    ASSUME TypeOK, NEW C \in SUBSET Calls, Withdraw(C)
    PROVE  /\ pend' = pend \ C
           /\ rec' \in [Calls -> Records \cup {None}]
           /\ Kept
<1>1. PICK failed \in SUBSET (pend \cap C) :
          rec' = Cancelled((pend \cap C) \ failed)
  BY DEF Withdraw
<1>2. pend' = pend \ C
  BY DEF Withdraw
<1>3. Kept
  BY <1>1, <1>2 DEF Kept, Withdrawn, Cancelled
<1>4. \A c \in Calls : rec'[c] \in Records \cup {None}
  BY <1>3, KeptFacts
<1>5. rec' = [c \in Calls |-> rec'[c]]
  BY <1>1 DEF Cancelled
<1> QED
  BY <1>2, <1>3, <1>4, <1>5

-----------------------------------------------------------------------------
(* Steps that decide nothing *)

\* What most steps have in common: nobody decides, asks, or claims a durable
\* approval.
ThreadGoesOn(c) ==
    /\ mail'[c] \in {mail[c], None}
    /\ pc'[c] \in {"idle", "asking"} =>
          pc[c] \in {"idle", "asking"} /\ out'[c] = out[c]
    /\ c \in pend' => pc'[c] \in {"requested", "waiting"}
    /\ out'[c] = "expired" => out[c] = "expired" \/ c \in Stale
    /\ c \in Native /\ pc'[c] = "allowed" => pc[c] = "allowed" \/ mail[c] \in Allow
    /\ \/ runs'[c] = runs[c]
       \/ c \in External /\ mail[c] \in Allow /\ runs'[c] = runs[c] \cup {c}

Undecisive ==
    /\ Kept
    /\ pend' \subseteq pend /\ late \subseteq late'
    /\ grants' \subseteq grants
    /\ lapsed' \subseteq Stale /\ lapsed' \cap pend' = {}
    /\ consent' = consent
    /\ \A c \in Calls : ThreadGoesOn(c)
    /\ \A u \in Clients :
          \/ asks'[u] \in {asks[u], None}
          \/ asks'[u].path = "store" =>
                asks'[u].call \notin pend' /\ pc'[asks'[u].call] \notin {"idle", "asking"}

\* What is forgotten for its age is overtaken.
LEMMA StaleFacts ==
    ASSUME IInv
    PROVE  \A c \in Stale : c \in Calls /\ Overtaken(c)
<1>1. \A c \in lapsed : c \in Calls /\ Overtaken(c)
  BY DEF IInv, LapsedIsOvertaken, TypeOK
<1>2. \A c \in pend \cap late : c \in Calls /\ Overtaken(c)
  BY NewRecord DEF IInv, RegistryAgrees, Overtaken, TypeOK
<1> QED
  BY <1>1, <1>2 DEF Stale

LEMMA UndecisiveStep ==
    ASSUME IInv, TypeOK', Undecisive
    PROVE  IInv'
<1> USE KeptFacts DEF ThreadGoesOn
<1>1. TypeOK /\ Kept
  BY DEF IInv, Undecisive
<1>2. NoTrace'
  BY <1>1 DEF IInv, NoTrace, Undecisive
<1>3. ExternalUnrecorded'
  BY <1>1, CallAssumption DEF IInv, ExternalUnrecorded
<1>4. RegistryAgrees'
  <2>1. ASSUME NEW c \in pend'
        PROVE  /\ c \in pend /\ c \in Calls /\ rec'[c] = rec[c]
               /\ pc'[c] \in {"requested", "waiting"} /\ mail'[c] \in {mail[c], None}
    BY <1>1 DEF Undecisive, TypeOK
  <2> QED
    BY <2>1 DEF IInv, RegistryAgrees
<1>5. DurableFirst'
  BY <1>1 DEF IInv, DurableFirst, Undecisive, Native
<1>6. \A c \in Calls : Overtaken(c) => Overtaken(c)'
  BY <1>1 DEF Overtaken, Undecisive
<1>7. \A c \in Stale : c \in Calls /\ Overtaken(c)
  BY StaleFacts
<1>8. LapsedIsOvertaken'
  BY <1>6, <1>7 DEF LapsedIsOvertaken, Undecisive
<1>9. ExpiredIsOvertaken'
  BY <1>6, <1>7 DEF IInv, ExpiredIsOvertaken, Undecisive, Native
<1>10. AllowedIsDurable'
  BY <1>1, NoneAssumption, Kinds
  DEF IInv, AllowedIsDurable, DurableFirst, Undecisive, Native
<1>11. RunIsExecution'
  <2>1. \A a \in Native : a \in Calls /\ a \notin External
    BY DEF Native
  <2>2. \A a \in Native :
           runs'[a] = IF rec'[a] # None /\ rec'[a].execution # None
                      THEN {rec'[a].execution} ELSE {}
    BY <1>1, <2>1 DEF IInv, RunIsExecution, Undecisive
  <2>3. \A a \in External : runs'[a] \subseteq {a}
    BY CallAssumption DEF IInv, RunIsExecution, Undecisive
  <2> QED
    BY <2>2, <2>3 DEF RunIsExecution
<1>12. ExecutionMatches'
  BY <1>1 DEF IInv, ExecutionMatches, Native
<1>13. PermissionsAreConsented'
  <2>1. \A c \in Calls : Consented(c) => Consented(c)'
    BY DEF Consented, Undecisive
  <2>2. \A c \in External : mail'[c] \in Allow => mail[c] \in Allow
    BY NoneAssumption, Kinds, CallAssumption DEF Undecisive
  <2>3. \A c \in External : runs'[c] # {} => runs[c] # {} \/ mail[c] \in Allow
    BY CallAssumption DEF Undecisive
  <2>4. \A c \in Native : rec'[c] # None /\ rec'[c].decision \in Allow => Consented(c)
    BY <1>1 DEF IInv, PermissionsAreConsented, Native
  <2>5. \A c \in External : mail'[c] \in Allow \/ runs'[c] # {} => Consented(c)
    BY <2>2, <2>3 DEF IInv, PermissionsAreConsented
  <2> QED
    BY <2>1, <2>4, <2>5, CallAssumption DEF IInv, PermissionsAreConsented, Undecisive, Native
<1>14. StorePathIsLate'
  BY DEF IInv, StorePathIsLate, Undecisive, TypeOK, Requests
<1> QED
  BY <1>2, <1>3, <1>4, <1>5, <1>8, <1>9, <1>10, <1>11, <1>12, <1>13, <1>14 DEF IInv

\* The registry loses the entries of C and perhaps more of what it remembers.
Drops(C) ==
    /\ pend' = pend \ C /\ Kept
    /\ rec' \in [Calls -> Records \cup {None}]
    /\ grants' \subseteq grants /\ denied' \subseteq denied
    /\ lapsed' \subseteq Stale /\ lapsed' \cap pend' = {}

LEMMA DropFacts ==
    ASSUME IInv
    PROVE  /\ \A t : RemoveTurn(t) => Drops({c \in Calls : TurnOf[c] = t})
           /\ \A k : RemoveTask(k) => Drops({c \in Calls : TaskOf[c] = k})
           /\ Wipe => Drops(Calls)
           /\ UNCHANGED <<rec, registry>> => Drops({})
           /\ ExpireStale /\ UNCHANGED <<rec, grants, denied>> => Drops(late)
<1>1. TypeOK /\ lapsed \cap pend = {} /\ lapsed \subseteq Stale
  BY DEF IInv, LapsedIsOvertaken, Stale
<1>2. ASSUME NEW t, RemoveTurn(t)
      PROVE  Drops({c \in Calls : TurnOf[c] = t})
  BY <1>1, <1>2, WithdrawFacts DEF RemoveTurn, Drops
<1>3. ASSUME NEW k, RemoveTask(k)
      PROVE  Drops({c \in Calls : TaskOf[c] = k})
  BY <1>1, <1>3, WithdrawFacts DEF RemoveTask, Drops
<1>4. ASSUME Wipe
      PROVE  Drops(Calls)
  BY <1>4, WithdrawFacts, <1>1 DEF Wipe, Drops
<1>5. ASSUME UNCHANGED <<rec, registry>>
      PROVE  Drops({})
  BY <1>1, <1>5 DEF registry, Drops, Kept, TypeOK
<1>6. ASSUME ExpireStale, UNCHANGED <<rec, grants, denied>>
      PROVE  Drops(late)
  BY <1>1, <1>6 DEF ExpireStale, Fresh, Stale, Drops, Kept, TypeOK
<1> QED
  BY <1>2, <1>3, <1>4, <1>5, <1>6

LEMMA DropsType ==
    ASSUME TypeOK, NEW C, Drops(C)
    PROVE  /\ rec' \in [Calls -> Records \cup {None}]
           /\ pend' \subseteq Calls /\ lapsed' \subseteq Calls
           /\ grants' \subseteq Fingerprints /\ denied' \subseteq Fingerprints
BY DEF Drops, Stale, TypeOK

\* Nothing but the registry, the Turns, the tasks and the clock moves.
LEMMA WorldStep ==
    ASSUME IInv, NEW C, Drops(C),
           UNCHANGED <<mail, pc, out, asks, consent, runs>>,
           late \subseteq late', late' \subseteq Calls,
           turn' \in [Turns -> {"new", "accepted", "running", "interrupted", "ended"}],
           current' \in Turns \cup {None}, live' \subseteq Tasks,
           restarts' \in 0..MaxRestarts
    PROVE  TypeOK' /\ Undecisive
<1>1. TypeOK'
  BY DropsType DEF IInv, TypeOK
<1>2. ASSUME NEW c \in Calls
      PROVE  ThreadGoesOn(c)
  BY DEF ThreadGoesOn, IInv, TypeOK, RegistryAgrees, Drops
<1>3. Undecisive
  BY <1>2 DEF Undecisive, Drops
<1> QED
  BY <1>1, <1>3

\* Besides, the thread of one call moves on; perhaps it took its mail.
LEMMA ThreadStep ==
    ASSUME IInv, NEW C, Drops(C), NEW c \in Calls,
           NEW p \in PCs \ {"idle", "asking"}, pc' = [pc EXCEPT ![c] = p],
           NEW o \in Outcomes, out' \in {out, [out EXCEPT ![c] = o]},
           mail' \in {mail, [mail EXCEPT ![c] = None]},
           \/ runs' = runs
           \/ /\ c \in External /\ mail[c] \in Allow
              /\ runs' = [runs EXCEPT ![c] = @ \cup {c}],
           UNCHANGED <<world, late, asks, consent>>,
           c \in pend' => p \in {"requested", "waiting"},
           o = "expired" => c \in Stale,
           c \in Native /\ p = "allowed" => mail[c] \in Allow
    PROVE  TypeOK' /\ Undecisive
<1>1. TypeOK'
  <2>1. /\ pc' \in [Calls -> PCs] /\ out' \in [Calls -> Outcomes \cup {None}]
        /\ mail' \in [Calls -> Decisions \cup {None}]
        /\ runs' \in [Calls -> SUBSET Calls]
    BY DEF IInv, TypeOK
  <2> QED
    BY <2>1, DropsType DEF IInv, TypeOK, world
<1>2. ASSUME NEW x \in Calls
      PROVE  ThreadGoesOn(x)
  <2>1. /\ pc'[x] = IF x = c THEN p ELSE pc[x]
        /\ out'[x] = out[x] \/ (x = c /\ out'[x] = o)
        /\ mail'[x] \in {mail[x], None}
        /\ \/ runs'[x] = runs[x]
           \/ x = c /\ x \in External /\ mail[x] \in Allow /\ runs'[x] = runs[x] \cup {x}
    BY DEF IInv, TypeOK
  <2> QED
    BY <2>1 DEF ThreadGoesOn, IInv, RegistryAgrees, Drops
<1>3. Undecisive
  BY <1>2 DEF Undecisive, Drops
<1> QED
  BY <1>1, <1>3

\* The thread gives up waiting.
LEMMA EndStep ==
    ASSUME IInv, NEW C, Drops(C), NEW c \in Calls, c \notin pend',
           NEW o \in Outcomes, End(c, o),
           mail' \in {mail, [mail EXCEPT ![c] = None]},
           UNCHANGED <<world, late, asks, consent, runs>>,
           o = "expired" => c \in Stale
    PROVE  TypeOK' /\ Undecisive
<1>1. "over" \in PCs \ {"idle", "asking"} /\ "over" # "allowed"
  BY DEF PCs
<1>2. /\ pc' = [pc EXCEPT ![c] = "over"]
      /\ out' \in {out, [out EXCEPT ![c] = o]}
  BY DEF End
<1> QED
  BY <1>1, <1>2, ThreadStep

LEMMA AnnounceStep ==
    ASSUME IInv, NEW c \in Calls, Announce(c)
    PROVE  TypeOK' /\ Undecisive
<1>1. /\ pc[c] = "requested"
      /\ \/ pc' = [pc EXCEPT ![c] = "waiting"] /\ UNCHANGED <<out, rec, pend>>
         \/ End(c, "dropped") /\ Withdraw({c})
      /\ UNCHANGED <<world, late, grants, denied, lapsed, mail, asks, consent, runs>>
  BY DEF Announce
<1>2. "dropped" \in Outcomes /\ "dropped" # "expired"
  BY DEF Outcomes
<1>3. CASE pc' = [pc EXCEPT ![c] = "waiting"] /\ UNCHANGED <<out, rec, pend>>
  <2>1. Drops({})
    BY <1>1, <1>3, DropFacts DEF registry
  <2>2. "waiting" \in PCs \ {"idle", "asking"}
    BY DEF PCs
  <2> QED
    BY <1>1, <1>2, <1>3, <2>1, <2>2, ThreadStep
<1>4. CASE End(c, "dropped") /\ Withdraw({c})
  <2>1. pend' = pend \ {c} /\ rec' \in [Calls -> Records \cup {None}] /\ Kept
    BY <1>4, WithdrawFacts DEF IInv
  <2>2. Drops({c}) /\ c \notin pend'
    BY <1>1, <2>1 DEF Drops, IInv, LapsedIsOvertaken, Stale
  <2> QED
    BY <1>1, <1>2, <1>4, <2>2, EndStep
<1> QED
  BY <1>1, <1>3, <1>4

\* Leaving the wait for a task or a Turn that is over.
LEMMA StopWaitingDrops ==
    ASSUME IInv, NEW c \in Calls, StopWaiting(c)
    PROVE  \E C : Drops(C) /\ c \notin pend' /\ End(c, "dropped")
<1>1. CASE RemoveTurn(TurnOf[c])
  BY <1>1, DropFacts DEF StopWaiting, Drops
<1>2. CASE RemoveTask(TaskOf[c])
  BY <1>2, DropFacts DEF StopWaiting, Drops
<1> QED
  BY <1>1, <1>2 DEF StopWaiting

LEMMA ReceiveStep ==
    ASSUME IInv, NEW c \in Calls, Receive(c)
    PROVE  TypeOK' /\ Undecisive
<1>1. /\ pc[c] = "waiting" /\ mail[c] # None /\ c \notin pend
      /\ mail' = [mail EXCEPT ![c] = None]
      /\ UNCHANGED <<world, late, asks, consent, runs>>
  BY DEF Receive, IInv, RegistryAgrees
<1>2. "dropped" \in Outcomes /\ "denied" \in Outcomes /\ "expired" \notin {"dropped", "denied"}
  BY DEF Outcomes
<1>3. CASE mail[c] \in Allow /\ pc' = [pc EXCEPT ![c] = "allowed"]
           /\ UNCHANGED <<out, rec, registry>>
  <2>1. Drops({}) /\ c \notin pend'
    BY <1>1, <1>3, DropFacts DEF registry
  <2>2. "allowed" \in PCs \ {"idle", "asking"}
    BY DEF PCs
  <2> QED
    BY <1>1, <1>2, <1>3, <2>1, <2>2, ThreadStep
<1>4. CASE StopWaiting(c)
  BY <1>1, <1>2, <1>4, StopWaitingDrops, EndStep
<1>5. CASE /\ End(c, IF TaskActive(c) /\ TurnActive(c) THEN "denied" ELSE "dropped")
           /\ UNCHANGED <<rec, registry>>
  <2>1. Drops({}) /\ c \notin pend'
    BY <1>1, <1>5, DropFacts DEF registry
  <2> QED
    BY <1>1, <1>2, <1>5, <2>1, EndStep
<1> QED
  BY <1>3, <1>4, <1>5 DEF Receive

LEMMA PollStep ==
    ASSUME IInv, NEW c \in Calls, Poll(c)
    PROVE  TypeOK' /\ Undecisive
<1>1. UNCHANGED <<world, late, mail, asks, consent, runs>>
  BY DEF Poll
<1>2. "dropped" \in Outcomes /\ "expired" \in Outcomes /\ "expired" # "dropped"
  BY DEF Outcomes
<1>3. CASE /\ c \in Stale /\ ExpireStale /\ UNCHANGED <<grants, denied, rec>>
           /\ End(c, IF TaskActive(c) /\ TurnActive(c) THEN "expired" ELSE "dropped")
  <2>1. Drops(late)
    BY <1>3, DropFacts
  <2>2. c \notin pend'
    BY <1>3 DEF ExpireStale, Fresh, Stale, IInv, LapsedIsOvertaken
  <2> QED
    BY <1>1, <1>2, <1>3, <2>1, <2>2, EndStep
<1>4. CASE StopWaiting(c)
  BY <1>1, <1>2, <1>4, StopWaitingDrops, EndStep
<1>5. CASE c \notin pend /\ End(c, "dropped") /\ UNCHANGED <<registry, rec>>
  <2>1. Drops({}) /\ c \notin pend'
    BY <1>5, DropFacts DEF registry
  <2> QED
    BY <1>1, <1>2, <1>5, <2>1, EndStep
<1> QED
  BY <1>3, <1>4, <1>5 DEF Poll

\* A thread whose call is not pending goes on and leaves the registry alone.
LEMMA FinishStep ==
    ASSUME IInv, NEW c \in Calls, Finish(c)
    PROVE  TypeOK' /\ Undecisive
<1>1. Drops({}) /\ c \notin pend'
  BY DropFacts DEF Finish, registry, IInv, RegistryAgrees
<1>2. "ran" \in Outcomes /\ "ran" # "expired"
  BY DEF Outcomes
<1>3. /\ End(c, "ran") /\ mail' = mail
      /\ UNCHANGED <<world, late, asks, consent, runs>>
  BY DEF Finish
<1> QED
  BY <1>1, <1>2, <1>3, EndStep

LEMMA SettleStep ==
    ASSUME IInv, NEW c \in Calls, Settle(c)
    PROVE  TypeOK' /\ Undecisive
<1>1. Drops({}) /\ c \notin pend'
  BY DropFacts DEF Settle, registry, IInv, RegistryAgrees
<1>2. "closed" \in PCs \ {"idle", "asking"} /\ "ran" \in Outcomes
  BY DEF PCs, Outcomes
<1>3. /\ pc' = [pc EXCEPT ![c] = "closed"] /\ out' = out /\ mail' = mail
      /\ UNCHANGED <<world, late, asks, consent, runs>>
  BY DEF Settle
<1> QED
  BY <1>1, <1>2, <1>3, ThreadStep

\* The thread of a call that stops before or after its approval.
LEMMA DropStep ==
    ASSUME IInv, NEW c \in Calls, pc[c] \notin {"requested", "waiting"},
           End(c, "dropped") \/ End(c, "denied"),
           UNCHANGED <<world, late, rec, registry, mail, asks, consent, runs>>
    PROVE  TypeOK' /\ Undecisive
<1>1. Drops({}) /\ c \notin pend'
  BY DropFacts DEF registry, IInv, RegistryAgrees
<1>2. "dropped" \in Outcomes /\ "denied" \in Outcomes /\ "expired" \notin {"dropped", "denied"}
  BY DEF Outcomes
<1> QED
  BY <1>1, <1>2, EndStep

LEMMA PollExternalStep ==
    ASSUME IInv, NEW c \in Calls, PollExternal(c)
    PROVE  TypeOK' /\ Undecisive
<1>1. /\ c \in External /\ TurnOf[c] = c /\ RemoveTurn(c)
      /\ End(c, IF TaskActive(c) /\ c \in Stale THEN "expired" ELSE "dropped")
      /\ mail' = mail
      /\ UNCHANGED <<world, late, asks, consent, runs>>
  BY CallAssumption DEF PollExternal
<1>2. Drops({x \in Calls : TurnOf[x] = c}) /\ c \notin pend'
  BY <1>1, DropFacts DEF Drops
<1>3. "dropped" \in Outcomes /\ "expired" \in Outcomes /\ "expired" # "dropped"
  BY DEF Outcomes
<1> QED
  BY <1>1, <1>2, <1>3, EndStep

LEMMA WorldSteps ==
    ASSUME IInv,
           \/ \E t \in Turns : \/ Accept(t) \/ BeginInput(t) \/ StartAgent(t)
                               \/ EndTurn(t) \/ CloseInput(t)
           \/ \E k \in Tasks : StopTask(k) \/ CancelExternal(k)
           \/ \E c \in Calls : Age(c)
           \/ CloseSession
    PROVE  TypeOK' /\ Undecisive
<1> USE DEF Main
<1>1. TypeOK
  BY DEF IInv
<1>2. Agents \subseteq Turns
  BY CallAssumption
<1>3. ASSUME NEW t \in Turns, Accept(t) \/ StartAgent(t) \/ EndTurn(t)
      PROVE  TypeOK' /\ Undecisive
  <2>1. /\ turn' \in [Turns -> {"new", "accepted", "running", "interrupted", "ended"}]
        /\ current' \in Turns \cup {None}
    BY <1>1, <1>3 DEF Accept, StartAgent, EndTurn, TypeOK
  <2>2. /\ UNCHANGED <<mail, pc, out, asks, consent, runs, rec, registry>>
        /\ late' = late /\ live' = live /\ restarts' = restarts
    BY <1>3 DEF Accept, StartAgent, EndTurn
  <2>3. Drops({})
    BY <2>2, DropFacts
  <2> QED
    BY <1>1, <2>1, <2>2, <2>3, WorldStep DEF TypeOK
<1>4. ASSUME NEW t \in Turns, BeginInput(t)
      PROVE  TypeOK' /\ Undecisive
  <2>1. turn' \in [Turns -> {"new", "accepted", "running", "interrupted", "ended"}]
    BY <1>1, <1>4 DEF BeginInput, TypeOK
  <2>2. /\ UNCHANGED <<mail, pc, out, asks, consent, runs>> /\ Wipe
        /\ late' = late /\ live' = live /\ restarts' = restarts /\ current' = current
    BY <1>4 DEF BeginInput
  <2>3. Drops(Calls)
    BY <2>2, DropFacts
  <2> QED
    BY <1>1, <2>1, <2>2, <2>3, WorldStep DEF TypeOK
<1>5. ASSUME NEW t \in Turns, CloseInput(t)
      PROVE  TypeOK' /\ Undecisive
  <2>1. /\ UNCHANGED <<mail, pc, out, asks, consent, runs, late>>
        /\ turn' = turn /\ live' = live /\ restarts' = restarts /\ current' = current
    BY <1>5 DEF CloseInput, world
  <2>2. Drops({c \in Calls : TurnOf[c] = t})
    BY <1>5, DropFacts DEF CloseInput
  <2> QED
    BY <1>1, <2>1, <2>2, WorldStep DEF TypeOK
<1>6. ASSUME NEW k \in Tasks, StopTask(k)
      PROVE  TypeOK' /\ Undecisive
  <2>1. /\ UNCHANGED <<mail, pc, out, asks, consent, runs, late, rec, registry>>
        /\ turn' = turn /\ live' \subseteq live /\ restarts' = restarts /\ current' = current
    BY <1>6 DEF StopTask
  <2>2. Drops({})
    BY <2>1, DropFacts
  <2> QED
    BY <1>1, <2>1, <2>2, WorldStep DEF TypeOK
<1>7. ASSUME NEW k \in Tasks, CancelExternal(k)
      PROVE  TypeOK' /\ Undecisive
  <2> DEFINE C == {c \in Calls : TaskOf[c] = k}
  <2>1. /\ UNCHANGED <<mail, pc, out, asks, consent, runs, late>>
        /\ turn' = turn /\ live' = live /\ restarts' = restarts /\ current' = current
    BY <1>7 DEF CancelExternal, world
  <2>2. pend' = pend \ C /\ rec' \in [Calls -> Records \cup {None}] /\ Kept
    BY <1>1, <1>7, WithdrawFacts DEF CancelExternal
  <2>3. grants' \subseteq grants /\ denied' \subseteq denied /\ lapsed' \subseteq lapsed
    BY <1>7 DEF CancelExternal
  <2>4. Drops(C)
    BY <2>2, <2>3 DEF Drops, Stale, IInv, LapsedIsOvertaken
  <2> QED
    BY <1>1, <2>1, <2>4, WorldStep DEF TypeOK
<1>8. ASSUME NEW c \in Calls, Age(c)
      PROVE  TypeOK' /\ Undecisive
  <2>1. /\ UNCHANGED <<mail, pc, out, asks, consent, runs, rec, registry>>
        /\ late \subseteq late' /\ late' \subseteq Calls
        /\ turn' = turn /\ live' = live /\ restarts' = restarts /\ current' = current
    BY <1>1, <1>8 DEF Age, world, TypeOK
  <2>2. Drops({})
    BY <2>1, DropFacts
  <2> QED
    BY <1>1, <2>1, <2>2, WorldStep DEF TypeOK
<1>9. CASE CloseSession
  <2>1. turn' \in [Turns -> {"new", "accepted", "running", "interrupted", "ended"}]
    BY <1>9 DEF CloseSession
  <2>2. /\ UNCHANGED <<mail, pc, out, asks, consent, runs>> /\ Wipe
        /\ late' = late /\ live' = {} /\ restarts' = restarts /\ current' = current
    BY <1>9 DEF CloseSession
  <2>3. Drops(Calls)
    BY <2>2, DropFacts
  <2> QED
    BY <1>1, <2>1, <2>2, <2>3, WorldStep DEF TypeOK
<1> QED
  BY <1>3, <1>4, <1>5, <1>6, <1>7, <1>8, <1>9

\* A client is told where to decide.
LEMMA LookUpStep ==
    ASSUME IInv, NEW c \in Calls, NEW u \in Clients, NEW d \in Choices, LookUp(u, c, d)
    PROVE  TypeOK' /\ Undecisive
<1> DEFINE p == IF c \in Fresh THEN "registry" ELSE "store"
           q == [call |-> c, decision |-> d, path |-> p]
<1>1. /\ Known(c) /\ ExpireStale /\ asks' = [asks EXCEPT ![u] = q]
      /\ UNCHANGED <<world, late, rec, grants, denied, mail, pc, out, consent, runs>>
  BY DEF LookUp
<1>2. Drops(late)
  BY <1>1, DropFacts
<1>3. q \in Requests /\ q.path = p /\ q.call = c
  BY ChainAssumption DEF Requests, Decisions, Allow
<1>4. TypeOK'
  BY <1>1, <1>2, <1>3, DropsType DEF IInv, TypeOK, world
<1>5. ASSUME NEW x \in Calls
      PROVE  ThreadGoesOn(x)
  BY <1>1, <1>2 DEF ThreadGoesOn, IInv, TypeOK, RegistryAgrees, Drops
<1>6. p = "store" => c \notin pend' /\ pc'[c] \notin {"idle", "asking"}
  <2>1. CASE c \in pend
    BY <1>1, <2>1 DEF ExpireStale, IInv, RegistryAgrees
  <2>2. CASE c \notin pend
    BY <1>1, <2>2 DEF ExpireStale, Fresh, Known, IInv, NoTrace
  <2> QED
    BY <2>1, <2>2
<1>7. ASSUME NEW v \in Clients
      PROVE  \/ asks'[v] \in {asks[v], None}
             \/ asks'[v].path = "store" =>
                   asks'[v].call \notin pend' /\ pc'[asks'[v].call] \notin {"idle", "asking"}
  <2>1. asks'[v] = IF v = u THEN q ELSE asks[v]
    BY <1>1 DEF IInv, TypeOK
  <2> QED
    BY <1>3, <1>6, <2>1
<1>8. Undecisive
  BY <1>1, <1>2, <1>5, <1>7 DEF Undecisive, Drops, world
<1> QED
  BY <1>4, <1>8

\* The process forgets everything but the store.
LEMMA RestartStep ==
    ASSUME IInv, Restart
    PROVE  TypeOK' /\ Undecisive
<1>1. /\ pend' = {} /\ grants' = {} /\ denied' = {} /\ lapsed' = {}
      /\ mail' = [c \in Calls |-> None]
      /\ asks' = [u \in Clients |-> None]
      /\ UNCHANGED <<current, live, late, rec, out, consent, runs>>
  BY DEF Restart
<1>2. turn' \in [Turns -> {"new", "accepted", "running", "interrupted", "ended"}]
  BY DEF Restart, IInv, TypeOK
<1>3. restarts' \in 0..MaxRestarts
  BY ChainAssumption DEF Restart, IInv, TypeOK
<1>4. /\ pc' \in [Calls -> PCs]
      /\ \A c \in Calls : pc'[c] = IF pc[c] \in {"idle", "closed"} THEN pc[c] ELSE "lost"
  BY DEF Restart, IInv, TypeOK, PCs
<1>5. TypeOK'
  BY <1>1, <1>2, <1>3, <1>4 DEF IInv, TypeOK
<1>6. ASSUME NEW x \in Calls
      PROVE  ThreadGoesOn(x)
  BY <1>1, <1>4 DEF ThreadGoesOn
<1>7. Undecisive
  BY <1>1, <1>6 DEF Undecisive, Kept
<1> QED
  BY <1>5, <1>7

-----------------------------------------------------------------------------
(* Steps that decide, ask or claim *)

\* A claim commits the one execution of an approval that was allowed.
LEMMA LaunchFacts ==
    ASSUME IInv, NEW c \in Native, NEW a \in Native, Launch(c, a), Claimable(a, c),
           rec[a].decision # "deny", pc[c] \notin {"requested", "waiting"},
           UNCHANGED <<world, late, registry, mail, asks, consent, out>>
    PROVE  /\ IInv'
           /\ StageOf(a) = "allow" /\ runs[a] = {}
           /\ rec' = [rec EXCEPT ![a].execution = c]
           /\ runs' = [runs EXCEPT ![a] = {c}]
<1> DEFINE r == [rec[a] EXCEPT !.execution = c]
<1>1. TypeOK /\ a \in Calls /\ c \in Calls
  BY CallAssumption DEF IInv, Native
<1>2. /\ rec[a] \in Records /\ rec[a].execution = None /\ ~rec[a].cancelled
      /\ rec[a].decision \in Allow /\ rec[a] # None
  BY <1>1 DEF Claimable, TypeOK
<1>3. r \in Records /\ r # None /\ r.execution = c /\ r.decision = rec[a].decision
  BY <1>1, <1>2, NoneAssumption DEF Records
<1>4. runs[a] = {}
  BY <1>2 DEF IInv, RunIsExecution
<1>5. rec' = [rec EXCEPT ![a] = r]
  BY <1>1, <1>2 DEF Launch, TypeOK
<1>6. runs' = [runs EXCEPT ![a] = {c}]
  BY <1>1, <1>4 DEF Launch, TypeOK
<1>7. pc' = [pc EXCEPT ![c] = "running"]
  BY DEF Launch
<1>8. StageOf(a) = "allow"
  BY <1>2 DEF StageOf
<1>9. TypeOK'
  <2>1. /\ rec' \in [Calls -> Records \cup {None}] /\ runs' \in [Calls -> SUBSET Calls]
        /\ pc' \in [Calls -> PCs]
    BY <1>1, <1>3, <1>5, <1>6, <1>7 DEF TypeOK, PCs
  <2> QED
    BY <1>1, <2>1 DEF TypeOK, world, registry
<1>10. \A x \in Calls : /\ rec'[x] = IF x = a THEN r ELSE rec[x]
                        /\ runs'[x] = IF x = a THEN {c} ELSE runs[x]
                        /\ pc'[x] = IF x = c THEN "running" ELSE pc[x]
  BY <1>1, <1>5, <1>6, <1>7 DEF TypeOK
<1>11. \A x \in Calls : x = a => x \notin pend
  BY <1>2, Kinds DEF IInv, RegistryAgrees
<1>12. NoTrace' /\ ExternalUnrecorded'
  BY <1>1, <1>2, <1>10, CallAssumption DEF IInv, NoTrace, ExternalUnrecorded, Native
<1>13. c \notin pend
  BY DEF IInv, RegistryAgrees
<1>14. RegistryAgrees' /\ DurableFirst'
  BY <1>1, <1>2, <1>3, <1>10, <1>11, <1>13 DEF IInv, RegistryAgrees, DurableFirst, registry, TypeOK, Native
<1>15. LapsedIsOvertaken' /\ ExpiredIsOvertaken'
  BY <1>1, <1>2, <1>3, <1>10 DEF IInv, LapsedIsOvertaken, ExpiredIsOvertaken, Overtaken, registry, TypeOK, Native
<1>16. AllowedIsDurable' /\ RunIsExecution' /\ ExecutionMatches'
  <2>1. WhatOf[a] = WhatOf[c] /\ TaskOf[a] \in Sources[TaskOf[c]]
    BY DEF Claimable
  <2>2. AllowedIsDurable'
    BY <1>2, <1>3, <1>10 DEF IInv, AllowedIsDurable, Native
  <2>3. RunIsExecution'
    <3>1. a \notin External /\ c # None
      BY <1>1, NoneAssumption DEF Native
    <3>2. \A x \in Native : x \in Calls
      BY DEF Native
    <3>3. RunIsExecution
      BY DEF IInv
    <3>4. ASSUME NEW x \in Native
          PROVE  runs'[x] = IF rec'[x] # None /\ rec'[x].execution # None
                            THEN {rec'[x].execution} ELSE {}
      <4>1. CASE x = a
        <5>1. rec'[x] = r /\ runs'[x] = {c}
          BY <1>1, <1>10, <4>1
        <5> QED
          BY <1>3, <3>1, <5>1
      <4>2. CASE x # a
        BY <1>10, <3>2, <3>3, <4>2 DEF RunIsExecution
      <4> QED
        BY <4>1, <4>2
    <3>5. \A x \in External : runs'[x] \subseteq {x}
      BY <1>10, <3>1, <3>3, CallAssumption DEF RunIsExecution
    <3> QED
      BY <3>4, <3>5 DEF RunIsExecution
  <2>4. ExecutionMatches'
    BY <1>3, <1>10, <2>1 DEF IInv, ExecutionMatches, Native
  <2> QED
    BY <2>2, <2>3, <2>4
<1>17. PermissionsAreConsented'
  <2>1. \A x : Consented(x)' <=> Consented(x)
    BY DEF Consented
  <2>2. a \notin External
    BY DEF Native
  <2> QED
    BY <1>1, <1>2, <1>3, <1>10, <2>1, <2>2, CallAssumption
    DEF IInv, PermissionsAreConsented, registry, Native
<1>18. StorePathIsLate'
  <2>1. asks' = asks /\ pend' = pend
    BY DEF registry
  <2>2. \A u \in Clients : asks[u] # None => asks[u].call \in Calls
    BY <1>1 DEF TypeOK, Requests
  <2> QED
    BY <1>10, <2>1, <2>2 DEF IInv, StorePathIsLate
<1> QED
  BY <1>4, <1>5, <1>6, <1>8, <1>9, <1>12, <1>14, <1>15, <1>16, <1>17, <1>18 DEF IInv

LEMMA ReceiveExternalStep ==
    ASSUME IInv, NEW c \in Calls, ReceiveExternal(c)
    PROVE  TypeOK' /\ Undecisive
<1>1. /\ c \in External /\ TurnOf[c] = c /\ RemoveTurn(c)
      /\ mail' = [mail EXCEPT ![c] = None]
      /\ UNCHANGED <<world, late, asks, consent>>
  BY CallAssumption DEF ReceiveExternal
<1>2. Drops({x \in Calls : TurnOf[x] = c}) /\ c \notin pend'
  BY <1>1, DropFacts DEF Drops
<1>3. "denied" \in Outcomes /\ "dropped" \in Outcomes /\ "expired" \notin {"denied", "dropped"}
  BY DEF Outcomes
<1>4. CASE /\ mail[c] \in Allow /\ pc' = [pc EXCEPT ![c] = "running"]
           /\ runs' = [runs EXCEPT ![c] = @ \cup {c}] /\ out' = out
  <2>1. "running" \in PCs \ {"idle", "asking"} /\ c \notin Native
    BY <1>1 DEF PCs, Native
  <2> QED
    BY <1>1, <1>2, <1>3, <1>4, <2>1, ThreadStep
<1>5. CASE End(c, IF mail[c] = "deny" THEN "denied" ELSE "dropped") /\ runs' = runs
  BY <1>1, <1>2, <1>3, <1>5, EndStep
<1> QED
  BY <1>4, <1>5 DEF ReceiveExternal

\* A call asks: it is pending from now on, or granted already.
LEMMA AskStep ==
    ASSUME IInv, NEW c \in Calls, pc[c] \in {"idle", "asking"},
           NEW p \in {"requested", "waiting", "allowed"}, pc' = [pc EXCEPT ![c] = p],
           NEW d \in {Undecided, "turn"},
           c \in Native => rec' = [rec EXCEPT ![c] =
               [decision |-> d, cancelled |-> FALSE, execution |-> None]],
           c \in External => rec' = rec,
           pend' \in {Fresh, Fresh \cup {c}}, lapsed' = Stale \ {c}, grants' \subseteq grants,
           c \in pend' => p # "allowed" /\ d = Undecided,
           c \in Native /\ p = "allowed" => d = "turn",
           d = "turn" => Consented(c),
           UNCHANGED <<world, late, denied, mail, out, asks, consent, runs>>
    PROVE  IInv'
<1> DEFINE r == [decision |-> d, cancelled |-> FALSE, execution |-> None]
<1>1. TypeOK
  BY DEF IInv
<1>2. /\ r \in Records /\ r # None /\ r.decision = d /\ ~r.cancelled /\ r.execution = None
  BY NewRecord, Kinds
<1>3. rec[c] = None /\ out[c] = None /\ mail[c] = None
  BY DEF IInv, NoTrace
<1>4. \A x \in Calls : /\ rec'[x] = IF x = c /\ c \in Native THEN r ELSE rec[x]
                       /\ pc'[x] = IF x = c THEN p ELSE pc[x]
  BY <1>1 DEF TypeOK, Native
<1>5. TypeOK'
  <2>1. rec' \in [Calls -> Records \cup {None}] /\ pc' \in [Calls -> PCs]
    BY <1>1, <1>2 DEF TypeOK, Native, PCs
  <2>2. /\ pend' \subseteq Calls /\ lapsed' \subseteq Calls /\ grants' \subseteq Fingerprints
    BY <1>1 DEF TypeOK, Fresh, Stale
  <2> QED
    BY <1>1, <2>1, <2>2 DEF TypeOK, world
<1>6. NoTrace' /\ ExternalUnrecorded'
  BY <1>4, CallAssumption DEF IInv, NoTrace, ExternalUnrecorded, Native
<1>7. RegistryAgrees'
  <2>1. \A x \in pend' : x \in Calls /\ (x # c => x \in pend)
    BY <1>1 DEF Fresh, TypeOK
  <2>2. c \in pend' => p \in {"requested", "waiting"} /\ d = Undecided
    OBVIOUS
  <2> QED
    BY <1>3, <1>4, <2>1, <2>2 DEF IInv, RegistryAgrees
<1>8. DurableFirst'
  BY <1>3, <1>4 DEF IInv, DurableFirst, Native
<1>9. LapsedIsOvertaken'
  <2>1. \A x \in lapsed' : x \in Calls /\ x # c /\ x \notin pend' /\ Overtaken(x)
    BY StaleFacts DEF Fresh, Stale, IInv, LapsedIsOvertaken
  <2> QED
    BY <1>4, <2>1 DEF LapsedIsOvertaken, Overtaken
<1>10. ExpiredIsOvertaken'
  <2>1. out[c] # "expired"
    BY <1>3, NoneAssumption DEF Outcomes
  <2> QED
    BY <1>4, <2>1 DEF IInv, ExpiredIsOvertaken, Overtaken, Native
<1>11. AllowedIsDurable'
  BY <1>2, <1>4, Kinds DEF IInv, AllowedIsDurable, Native
<1>12. RunIsExecution' /\ ExecutionMatches'
  <2>1. \A x \in Native :
           /\ x \in Calls
           /\ (rec'[x] # None /\ rec'[x].execution # None) =
                 (rec[x] # None /\ rec[x].execution # None)
           /\ rec[x] # None => rec'[x] = rec[x]
    BY <1>2, <1>3, <1>4 DEF Native
  <2>2. RunIsExecution /\ ExecutionMatches
    BY DEF IInv
  <2> QED
    BY <2>1, <2>2 DEF RunIsExecution, ExecutionMatches
<1>13. PermissionsAreConsented'
  <2>1. \A x : Consented(x)' <=> Consented(x)
    BY DEF Consented
  <2>2. \A x \in Native : rec'[x] # None /\ rec'[x].decision \in Allow => Consented(x)
    BY <1>2, <1>4, Kinds DEF IInv, PermissionsAreConsented, Native, Decisions
  <2> QED
    BY <2>1, <2>2 DEF IInv, PermissionsAreConsented
<1>14. StorePathIsLate'
  <2>1. ASSUME NEW u \in Clients, asks[u] # None, asks[u].path = "store"
        PROVE  asks[u].call \notin pend' /\ pc'[asks[u].call] \notin {"idle", "asking"}
    <3>1. asks[u].call \in Calls
      BY <1>1, <2>1 DEF TypeOK, Requests
    <3>2. asks[u].call \notin pend /\ asks[u].call # c
      BY <2>1 DEF IInv, StorePathIsLate
    <3> QED
      BY <1>4, <2>1, <3>1, <3>2 DEF Fresh, IInv, StorePathIsLate
  <2> QED
    BY <2>1 DEF StorePathIsLate
<1> QED
  BY <1>5, <1>6, <1>7, <1>8, <1>9, <1>10, <1>11, <1>12, <1>13, <1>14 DEF IInv

-----------------------------------------------------------------------------
(* Steps of the ledger *)

LedgerStep == [Ledger!Next]_(Ledger!vars)

\* The stages that ApprovalLedger can see all settle alike, or none moves.
LEMMA LedgerSettles ==
    ASSUME NEW C \in SUBSET Native, NEW s \in {"allow", "deny", "cancelled"},
           \A c \in C : StageOf(c) = "open",
           \A c \in Native : /\ StageOf(c)' = IF c \in C THEN s ELSE StageOf(c)
                             /\ runs'[c] = runs[c]
    PROVE  LedgerStep
<1> DEFINE stage == [c \in Native |-> StageOf(c)]
           ran == [c \in Native |-> runs[c]]
<1>1. ran' = ran
  OBVIOUS
<1>2. stage' = [c \in Native |-> IF c \in C THEN s ELSE stage[c]]
  OBVIOUS
<1>3. \A c \in C : stage[c] = "open"
  OBVIOUS
<1>4. CASE C = {}
  BY <1>1, <1>2, <1>4 DEF LedgerStep, Ledger!vars
<1>5. CASE C # {}
  <2>1. Ledger!Settle(C, s)
    BY <1>1, <1>2, <1>3, <1>5 DEF Ledger!Settle
  <2> QED
    BY <2>1 DEF LedgerStep, Ledger!Next
<1> QED
  BY <1>4, <1>5

LEMMA LedgerAsks ==
    ASSUME NEW c \in Native, NEW s \in {"open", "allow", "deny"}, StageOf(c) = "none",
           \A x \in Native : /\ StageOf(x)' = IF x = c THEN s ELSE StageOf(x)
                             /\ runs'[x] = runs[x]
    PROVE  LedgerStep
<1> DEFINE stage == [x \in Native |-> StageOf(x)]
           ran == [x \in Native |-> runs[x]]
<1>1. ran' = ran
  OBVIOUS
<1>2. stage' = [stage EXCEPT ![c] = s] /\ stage[c] = "none"
  OBVIOUS
<1>3. Ledger!Ask(c)
  BY <1>1, <1>2 DEF Ledger!Ask
<1> QED
  BY <1>3 DEF LedgerStep, Ledger!Next

LEMMA LedgerSpends ==
    ASSUME NEW a \in Native, NEW c \in Native, StageOf(a) = "allow", runs[a] = {},
           \A x \in Native : /\ StageOf(x)' = IF x = a THEN "spent" ELSE StageOf(x)
                             /\ runs'[x] = IF x = a THEN {c} ELSE runs[x]
    PROVE  LedgerStep
<1> DEFINE stage == [x \in Native |-> StageOf(x)]
           ran == [x \in Native |-> runs[x]]
<1>1. ran' = [ran EXCEPT ![a] = {c}] /\ ran[a] = {}
  OBVIOUS
<1>2. stage' = [stage EXCEPT ![a] = "spent"] /\ stage[a] = "allow"
  OBVIOUS
<1>3. Ledger!Spend(a, c)
  BY <1>1, <1>2 DEF Ledger!Spend
<1> QED
  BY <1>3 DEF LedgerStep, Ledger!Next

\* The stage of the calls whose record does not move.
LEMMA StageKept ==
    ASSUME NEW c \in Calls, rec'[c] = rec[c]
    PROVE  StageOf(c)' = StageOf(c)
BY DEF StageOf

\* A step that decides nothing at most withdraws open approvals.
LEMMA UndecisiveLedger ==
    ASSUME IInv, Undecisive
    PROVE  LedgerStep
<1> DEFINE C == {c \in Native : rec'[c] # rec[c]}
<1>1. \A c \in C : c \in Calls /\ Withdrawn(c)
  BY DEF Native, Undecisive, Kept
<1>2. ASSUME NEW c \in C
      PROVE  /\ StageOf(c) = "open"
             /\ StageOf(c)' = "cancelled"
  <2> DEFINE r == [decision |-> Undecided, cancelled |-> FALSE, execution |-> None]
             w == [decision |-> Undecided, cancelled |-> TRUE, execution |-> None]
  <2>1. rec[c] = r /\ rec[c] # None
    BY <1>1 DEF Withdrawn, IInv, RegistryAgrees
  <2>2. r.execution = None /\ ~r.cancelled /\ r.decision = "open"
    BY DEF Undecided
  <2>3. rec'[c] = w
    BY <1>1, <2>1 DEF Withdrawn
  <2>4. w \in Records /\ w.execution = None /\ w.cancelled
    BY DEF Records
  <2>5. rec'[c] # None
    BY <2>3, <2>4, NoneAssumption
  <2>6. StageOf(c) = "open"
    BY <2>1, <2>2 DEF StageOf, Allow
  <2>7. StageOf(c)' = "cancelled"
    BY <2>3, <2>4, <2>5 DEF StageOf
  <2> QED
    BY <2>6, <2>7
<1>3. \A c \in Native \ C : StageOf(c)' = StageOf(c)
  BY StageKept DEF Native
<1>4. \A c \in Native : runs'[c] = runs[c]
  BY DEF Undecisive, ThreadGoesOn, Native
<1> QED
  BY <1>2, <1>3, <1>4, LedgerSettles

-----------------------------------------------------------------------------
(* Every step *)

LEMMA UndecisiveBoth ==
    ASSUME IInv, TypeOK', Undecisive
    PROVE  IInv' /\ LedgerStep
BY UndecisiveStep, UndecisiveLedger

LEMMA LaunchBoth ==
    ASSUME IInv, NEW c \in Native, NEW a \in Native, Launch(c, a), Claimable(a, c),
           rec[a].decision # "deny", pc[c] \notin {"requested", "waiting"},
           UNCHANGED <<world, late, registry, mail, asks, consent, out>>
    PROVE  IInv' /\ LedgerStep
<1> DEFINE r == [rec[a] EXCEPT !.execution = c]
<1>1. /\ IInv' /\ StageOf(a) = "allow" /\ runs[a] = {}
      /\ rec' = [rec EXCEPT ![a] = r]
      /\ runs' = [runs EXCEPT ![a] = {c}]
  BY LaunchFacts
<1>2. TypeOK /\ a \in Calls /\ c \in Calls
  BY DEF IInv, Native
<1>3. rec[a] \in Records /\ rec[a] # None /\ rec[a].decision \in Allow
  BY <1>2 DEF Claimable, TypeOK
<1>4. r \in Records /\ r.execution = c /\ r # None /\ c # None
  BY <1>2, <1>3, NoneAssumption DEF Records
<1>5. \A x \in Native : /\ x \in Calls
                        /\ rec'[x] = IF x = a THEN r ELSE rec[x]
                        /\ runs'[x] = IF x = a THEN {c} ELSE runs[x]
  BY <1>1, <1>2 DEF TypeOK, Native
<1>6. StageOf(a)' = "spent"
  BY <1>4, <1>5 DEF StageOf
<1>7. \A x \in Native : x # a => StageOf(x)' = StageOf(x)
  BY <1>5, StageKept
<1> QED
  BY <1>1, <1>5, <1>6, <1>7, LedgerSpends

LEMMA EnterStep ==
    ASSUME IInv, NEW c \in Calls, Enter(c)
    PROVE  IInv' /\ LedgerStep
<1>1. /\ c \in Native /\ pc[c] = "idle"
      /\ UNCHANGED <<world, late, registry, mail, asks, consent>>
  BY DEF Enter
<1>2. CASE (End(c, "dropped") \/ End(c, "denied")) /\ UNCHANGED <<rec, runs>>
  BY <1>1, <1>2, DropStep, UndecisiveBoth
<1>3. CASE pc' = [pc EXCEPT ![c] = "asking"] /\ UNCHANGED <<out, rec, runs>>
  <2>1. Drops({}) /\ c \notin pend'
    BY <1>1, <1>3, DropFacts DEF registry, IInv, RegistryAgrees
  <2>2. TypeOK'
    BY <1>1, <1>3 DEF IInv, TypeOK, PCs, world, registry
  <2>3. \A x \in Calls : pc'[x] = IF x = c THEN "asking" ELSE pc[x]
    BY <1>3 DEF IInv, TypeOK
  <2>4. ASSUME NEW x \in Calls
        PROVE  ThreadGoesOn(x)
    BY <1>1, <1>3, <2>1, <2>3 DEF ThreadGoesOn, IInv, RegistryAgrees, registry
  <2>5. Undecisive
    BY <1>1, <2>1, <2>4 DEF Undecisive, Drops
  <2> QED
    BY <2>2, <2>5, UndecisiveBoth
<1>4. CASE \E a \in PriorApprovals(c) : rec[a].decision # "deny" /\ Launch(c, a) /\ out' = out
  <2>1. PICK a \in PriorApprovals(c) : rec[a].decision # "deny" /\ Launch(c, a) /\ out' = out
    BY <1>4
  <2>2. a \in Native /\ Claimable(a, c)
    BY DEF PriorApprovals
  <2>3. UNCHANGED <<world, late, registry, mail, asks, consent, out>>
    BY <1>1, <2>1
  <2> QED
    BY <1>1, <2>1, <2>2, <2>3, LaunchBoth
<1> QED
  BY <1>2, <1>3, <1>4 DEF Enter, Latest

LEMMA ClaimStep ==
    ASSUME IInv, NEW c \in Calls, Claim(c)
    PROVE  IInv' /\ LedgerStep
<1>1. /\ c \in Native /\ pc[c] = "allowed"
      /\ UNCHANGED <<world, late, registry, mail, asks, consent>>
  BY DEF Claim
<1>2. CASE Claimable(c, c) /\ Launch(c, c) /\ out' = out
  <2>1. rec[c].decision # "deny"
    BY <1>1, Kinds DEF IInv, AllowedIsDurable
  <2>2. UNCHANGED <<world, late, registry, mail, asks, consent, out>>
    BY <1>1, <1>2
  <2> QED
    BY <1>1, <1>2, <2>1, <2>2, LaunchBoth
<1>3. CASE End(c, "dropped") /\ UNCHANGED <<rec, runs>>
  BY <1>1, <1>3, DropStep, UndecisiveBoth
<1> QED
  BY <1>2, <1>3 DEF Claim

\* The durable request of a native call: the ledger sees it ask.
LEMMA RegisterLedger ==
    ASSUME IInv, NEW c \in Native, rec[c] = None, NEW d \in {Undecided, "turn"},
           rec' = [rec EXCEPT ![c] =
               [decision |-> d, cancelled |-> FALSE, execution |-> None]],
           runs' = runs
    PROVE  LedgerStep
<1> DEFINE r == [decision |-> d, cancelled |-> FALSE, execution |-> None]
<1>1. r # None /\ r.decision = d /\ ~r.cancelled /\ r.execution = None
  BY NewRecord, Kinds
<1>2. \A x \in Native : x \in Calls /\ rec'[x] = IF x = c THEN r ELSE rec[x]
  BY DEF IInv, TypeOK, Native
<1>3. StageOf(c) = "none"
  BY DEF StageOf
<1>4. StageOf(c)' = IF d = "turn" THEN "allow" ELSE "open"
  BY <1>1, <1>2 DEF StageOf, Allow, Undecided
<1>5. \A x \in Native : x # c => StageOf(x)' = StageOf(x)
  BY <1>2, StageKept
<1> QED
  BY <1>3, <1>4, <1>5, LedgerAsks

LEMMA RequestPersistedStep ==
    ASSUME IInv, NEW c \in Calls, RequestPersisted(c)
    PROVE  IInv' /\ LedgerStep
<1> DEFINE kept == {f \in grants : f.turn = TurnOf[c]}
           f == Fingerprint(c)
<1>1. /\ c \in Native /\ c \notin External /\ pc[c] = "asking"
      /\ lapsed' = Stale \ {c} /\ grants' = kept
      /\ UNCHANGED <<world, late, denied, mail, asks, consent, runs>>
  BY DEF RequestPersisted, Native
<1>2. rec[c] = None /\ c \notin pend
  BY <1>1 DEF IInv, NoTrace, RegistryAgrees
<1>3. CASE /\ f \in kept /\ Register(c, "turn")
           /\ pc' = [pc EXCEPT ![c] = "allowed"]
           /\ pend' = Fresh /\ UNCHANGED out
  <2>1. rec' = [rec EXCEPT ![c] =
                  [decision |-> "turn", cancelled |-> FALSE, execution |-> None]]
    BY <1>3 DEF Register
  <2>2. Consented(c)
    BY <1>3 DEF IInv, PermissionsAreConsented, Consented
  <2>3. c \notin pend'
    BY <1>2, <1>3 DEF Fresh
  <2>4. IInv'
    BY <1>1, <1>3, <2>1, <2>2, <2>3, AskStep
  <2> QED
    BY <1>1, <1>2, <2>1, <2>4, RegisterLedger
<1>4. CASE (End(c, "denied") \/ End(c, "dropped")) /\ pend' = Fresh /\ UNCHANGED rec
  <2>1. pend' = pend \ late /\ c \notin pend'
    BY <1>2, <1>4 DEF Fresh
  <2>2. Drops(late)
    BY <1>1, <1>4, <2>1 DEF Drops, Kept, IInv, LapsedIsOvertaken, Stale, TypeOK
  <2>3. /\ "denied" \in Outcomes /\ "dropped" \in Outcomes
        /\ "expired" \notin {"denied", "dropped"}
    BY DEF Outcomes
  <2>4. TypeOK' /\ Undecisive
    BY <1>1, <1>4, <2>1, <2>2, <2>3, EndStep
  <2> QED
    BY <2>4, UndecisiveBoth
<1>5. CASE /\ Register(c, Undecided) /\ pend' = Fresh \cup {c}
           /\ pc' = [pc EXCEPT ![c] = "requested"] /\ UNCHANGED out
  <2>1. rec' = [rec EXCEPT ![c] =
                  [decision |-> Undecided, cancelled |-> FALSE, execution |-> None]]
    BY <1>5 DEF Register
  <2>2. IInv'
    BY <1>1, <1>5, <2>1, Kinds, AskStep
  <2> QED
    BY <1>1, <1>2, <2>1, <2>2, RegisterLedger
<1> QED
  BY <1>3, <1>4, <1>5 DEF RequestPersisted

LEMMA RequestExternalStep ==
    ASSUME IInv, NEW c \in Calls, RequestExternal(c)
    PROVE  IInv' /\ LedgerStep
<1>1. /\ c \in External /\ c \notin Native /\ pc[c] = "idle"
      /\ UNCHANGED <<world, late, rec, denied, mail, asks, consent, runs>>
  BY DEF RequestExternal, Native
<1>2. CASE /\ pend' = Fresh \cup {c} /\ lapsed' = Stale \ {c}
           /\ grants' = {f \in grants : f.turn = TurnOf[c]}
           /\ pc' = [pc EXCEPT ![c] = "waiting"] /\ UNCHANGED out
  <2>1. IInv'
    BY <1>1, <1>2, Kinds, AskStep
  <2>2. \A x \in Native : StageOf(x)' = StageOf(x) /\ runs'[x] = runs[x]
    BY <1>1, StageKept DEF Native
  <2>3. LedgerStep
    <3> DEFINE C == {}
    <3>1. C \in SUBSET Native /\ \A x \in C : StageOf(x) = "open"
      OBVIOUS
    <3>2. \A x \in Native : /\ StageOf(x)' = IF x \in C THEN "allow" ELSE StageOf(x)
                            /\ runs'[x] = runs[x]
      BY <2>2
    <3> HIDE DEF C
    <3> QED
      BY <3>1, <3>2, LedgerSettles
  <2> QED
    BY <2>1, <2>3
<1>3. CASE End(c, "dropped") /\ UNCHANGED <<pend, lapsed, grants>>
  BY <1>1, <1>3, DropStep, UndecisiveBoth DEF registry
<1> QED
  BY <1>2, <1>3 DEF RequestExternal

\* One decision settles the pending approvals of C.
LEMMA DecideStep ==
    ASSUME IInv, NEW C \in SUBSET Calls, NEW d \in Decisions, C \cap late = {},
           \A x \in C \cap Native : rec[x] =
               [decision |-> Undecided, cancelled |-> FALSE, execution |-> None],
           \A x \in C : pc[x] \notin {"idle", "asking"},
           rec' = Decided(C \cap Native, d),
           pend' \subseteq pend \ C, lapsed' \subseteq Stale, lapsed' \cap pend' = {},
           mail' \in [Calls -> Decisions \cup {None}],
           \A x \in Calls : mail'[x] = mail[x] \/ (x \in C /\ mail'[x] = d),
           denied' \subseteq Fingerprints, grants' \subseteq Fingerprints,
           consent \subseteq consent', consent' \subseteq [call : Calls, decision : Decisions],
           d \in Allow => \A x \in C : Consented(x)',
           \A f \in grants' \ grants : \E a \in Calls :
               [call |-> a, decision |-> "turn"] \in consent' /\ Fingerprint(a) = f,
           \A u \in Clients : asks'[u] \in {asks[u], None},
           asks' \in [Clients -> Requests \cup {None}],
           UNCHANGED <<world, late, pc, out, runs>>
    PROVE  IInv' /\ LedgerStep
<1> DEFINE r == [decision |-> Undecided, cancelled |-> FALSE, execution |-> None]
           w == [r EXCEPT !.decision = d]
<1>1. TypeOK
  BY DEF IInv
<1>2. /\ r # None /\ r.decision = Undecided /\ ~r.cancelled /\ r.execution = None
      /\ w \in Records /\ w # None /\ w.decision = d /\ ~w.cancelled /\ w.execution = None
  <2>1. r # None /\ r.decision = Undecided /\ ~r.cancelled /\ r.execution = None
    BY NewRecord, Kinds
  <2>2. w \in Records
    BY DEF Records
  <2>3. w # None /\ w.decision = d /\ ~w.cancelled /\ w.execution = None
    BY <2>2, NoneAssumption
  <2> QED
    BY <2>1, <2>2, <2>3
<1>3. \A x \in Calls : rec'[x] = IF x \in C /\ x \in Native THEN w ELSE rec[x]
  <2>1. \A x \in C \cap Native : [rec[x] EXCEPT !.decision = d] = w
    OBVIOUS
  <2>2. \A x \in Calls : rec'[x] = IF x \in C \cap Native
                                  THEN [rec[x] EXCEPT !.decision = d] ELSE rec[x]
    BY DEF Decided
  <2> QED
    BY <2>1, <2>2
<1>4. \A x \in Native : x \in Calls
  BY DEF Native
<1>5. \A x \in C \cap Native : rec[x] = r /\ rec'[x] = w /\ x \in Calls
  BY <1>3
<1>6. TypeOK'
  <2>1. rec' = [x \in Calls |-> rec'[x]]
    BY DEF Decided
  <2>2. rec' \in [Calls -> Records \cup {None}]
    BY <1>1, <1>2, <1>3, <2>1 DEF TypeOK
  <2>3. pend' \subseteq Calls /\ lapsed' \subseteq Calls
    BY <1>1 DEF TypeOK, Stale
  <2> QED
    BY <1>1, <2>2, <2>3 DEF TypeOK, world
<1>7. NoTrace' /\ ExternalUnrecorded'
  <2>1. NoTrace'
    BY <1>3 DEF IInv, NoTrace
  <2>2. \A x \in External : x \in Calls /\ x \notin Native
    BY CallAssumption DEF Native
  <2> QED
    BY <1>3, <2>1, <2>2 DEF IInv, ExternalUnrecorded
<1>8. RegistryAgrees'
  BY <1>1, <1>3 DEF IInv, RegistryAgrees, TypeOK
<1>9. DurableFirst'
  <2>1. ASSUME NEW x \in Native, mail'[x] # None
        PROVE  rec'[x] # None /\ rec'[x].decision = mail'[x]
    <3>1. CASE x \in C
      <4>1. mail[x] = None
        BY <1>1, <1>2, <1>4, <1>5, <3>1, Kinds DEF IInv, DurableFirst, TypeOK
      <4> QED
        BY <1>2, <1>4, <1>5, <2>1, <3>1, <4>1
    <3>2. CASE x \notin C
      BY <1>3, <1>4, <2>1, <3>2 DEF IInv, DurableFirst
    <3> QED
      BY <3>1, <3>2
  <2> QED
    BY <2>1 DEF DurableFirst
<1>10. \A x \in Calls : x \in late => rec'[x] = rec[x]
  BY <1>3
<1>11. LapsedIsOvertaken' /\ ExpiredIsOvertaken'
  BY <1>4, <1>10, StaleFacts DEF IInv, LapsedIsOvertaken, ExpiredIsOvertaken, Overtaken
<1>12. AllowedIsDurable'
  <2>1. \A x \in C \cap Native : pc[x] # "allowed"
    BY <1>2, <1>5, Kinds DEF IInv, AllowedIsDurable
  <2> QED
    BY <1>3, <1>4, <2>1 DEF IInv, AllowedIsDurable
<1>13. RunIsExecution' /\ ExecutionMatches'
  <2>1. \A x \in Native :
           /\ (rec'[x] # None /\ rec'[x].execution # None) =
                 (rec[x] # None /\ rec[x].execution # None)
           /\ rec[x] # None /\ rec[x].execution # None => rec'[x] = rec[x]
    BY <1>2, <1>3, <1>4, <1>5
  <2>2. RunIsExecution /\ ExecutionMatches
    BY DEF IInv
  <2> QED
    BY <2>1, <2>2 DEF RunIsExecution, ExecutionMatches
<1>14. PermissionsAreConsented'
  <2>1. \A x : Consented(x) => Consented(x)'
    BY DEF Consented
  <2>2. \A x \in Native : rec'[x] # None /\ rec'[x].decision \in Allow => Consented(x)'
    BY <1>2, <1>3, <1>4, <2>1 DEF IInv, PermissionsAreConsented
  <2>3. \A x \in External : mail'[x] \in Allow \/ runs'[x] # {} => Consented(x)'
    BY <2>1, CallAssumption DEF IInv, PermissionsAreConsented
  <2>4. \A g \in grants' : \E a \in Calls :
           [call |-> a, decision |-> "turn"] \in consent' /\ Fingerprint(a) = g
    BY DEF IInv, PermissionsAreConsented
  <2> QED
    BY <2>2, <2>3, <2>4 DEF PermissionsAreConsented
<1>15. StorePathIsLate'
  BY DEF IInv, StorePathIsLate
<1>16. LedgerStep
  <2> DEFINE s == IF d \in Allow THEN "allow" ELSE "deny"
  <2>1. \A x \in C \cap Native : StageOf(x) = "open"
    BY <1>2, <1>5 DEF StageOf, Allow, Undecided
  <2>2. ASSUME NEW x \in C \cap Native
        PROVE  StageOf(x)' = s
    <3>1. rec'[x] = w /\ d \in Allow \cup {"deny"}
      BY <1>5 DEF Decisions
    <3> HIDE DEF w
    <3> QED
      BY <1>2, <3>1 DEF StageOf
  <2>3. \A x \in Native \ C : StageOf(x)' = StageOf(x)
    BY <1>3, <1>4, StageKept
  <2> QED
    BY <2>1, <2>2, <2>3, LedgerSettles
<1> QED
  BY <1>6, <1>7, <1>8, <1>9, <1>11, <1>12, <1>13, <1>14, <1>15, <1>16 DEF IInv

\* A client gives up, or its decision is refused: the registry only forgets
\* what is too old.
LEMMA RefusedStep ==
    ASSUME IInv, NEW u \in Clients, NEW C, Drops(C), asks' = [asks EXCEPT ![u] = None],
           UNCHANGED <<world, late, mail, pc, out, consent, runs>>
    PROVE  IInv' /\ LedgerStep
<1>1. TypeOK'
  BY DropsType DEF IInv, TypeOK, world
<1>2. ASSUME NEW x \in Calls
      PROVE  ThreadGoesOn(x)
  BY DEF ThreadGoesOn, IInv, TypeOK, RegistryAgrees, Drops
<1>3. \A v \in Clients : asks'[v] \in {asks[v], None}
  BY DEF IInv, TypeOK
<1>4. Undecisive
  BY <1>2, <1>3 DEF Undecisive, Drops
<1> QED
  BY <1>1, <1>4, UndecisiveBoth

LEMMA ResolveStep ==
    ASSUME IInv, NEW u \in Clients, Resolve(u)
    PROVE  IInv' /\ LedgerStep
<1> DEFINE c == asks[u].call
           d == asks[u].decision
           C == Together(c, d)
<1>1. /\ asks[u] # None /\ lapsed' = Stale
      /\ asks' = [asks EXCEPT ![u] = None]
      /\ UNCHANGED <<world, late, pc, out, runs>>
  BY DEF Resolve
<1>2. TypeOK
  BY DEF IInv
<1>3. asks[u] \in Requests /\ c \in Calls /\ d \in Decisions
  BY <1>1, <1>2 DEF TypeOK, Requests
<1>4. CASE pend' = Fresh /\ UNCHANGED <<rec, mail, denied, grants, consent>>
  <2>1. Drops(late)
    BY <1>1, <1>4, DropFacts DEF ExpireStale
  <2> QED
    BY <1>1, <1>4, <2>1, RefusedStep
<1>5. CASE /\ c \in Fresh
           /\ rec' = Decided(C \cap Native, d)
           /\ pend' = Fresh \ C
           /\ mail' = [a \in Calls |-> IF a \in C THEN d ELSE mail[a]]
           /\ denied' = denied \cup (IF d = "deny" THEN {Fingerprint(c)} ELSE {})
           /\ grants' = grants \cup (IF d = "turn" THEN {Fingerprint(c)} ELSE {})
           /\ consent' = consent \cup {[call |-> c, decision |-> d]}
  <2>1. C \subseteq pend /\ C \subseteq Calls /\ C \cap late = {}
    BY <1>2 DEF Together, Fresh, TypeOK
  <2>2. \A x \in C \cap Native : rec[x] =
            [decision |-> Undecided, cancelled |-> FALSE, execution |-> None]
    BY <2>1 DEF IInv, RegistryAgrees
  <2>3. \A x \in C : pc[x] \notin {"idle", "asking"}
    BY <2>1 DEF IInv, RegistryAgrees
  <2>4. pend' \subseteq pend \ C /\ lapsed' \cap pend' = {}
    BY <1>1, <1>5 DEF Fresh, Stale, IInv, LapsedIsOvertaken
  <2>5. /\ mail' \in [Calls -> Decisions \cup {None}]
        /\ \A x \in Calls : mail'[x] = mail[x] \/ (x \in C /\ mail'[x] = d)
    BY <1>2, <1>3, <1>5 DEF TypeOK
  <2>6. /\ denied' \subseteq Fingerprints /\ grants' \subseteq Fingerprints
        /\ consent \subseteq consent' /\ consent' \subseteq [call : Calls, decision : Decisions]
    BY <1>2, <1>3, <1>5 DEF TypeOK, Fingerprints
  <2>7. d \in Allow => \A x \in C : Consented(x)'
    <3>1. [call |-> c, decision |-> d] \in consent'
      BY <1>5
    <3> SUFFICES ASSUME d \in Allow, NEW x \in C PROVE Consented(x)'
      OBVIOUS
    <3>2. x = c \/ (d = "turn" /\ Fingerprint(x) = Fingerprint(c))
      BY DEF Together
    <3> QED
      BY <1>3, <3>1, <3>2 DEF Consented
  <2>8. \A f \in grants' \ grants : \E a \in Calls :
            [call |-> a, decision |-> "turn"] \in consent' /\ Fingerprint(a) = f
    BY <1>3, <1>5
  <2>9. /\ \A v \in Clients : asks'[v] \in {asks[v], None}
        /\ asks' \in [Clients -> Requests \cup {None}]
    BY <1>1, <1>2 DEF TypeOK
  <2> HIDE DEF C, c, d
  <2> QED
    BY <1>1, <1>3, <1>5, <2>1, <2>2, <2>3, <2>4, <2>5, <2>6, <2>7, <2>8, <2>9, DecideStep
<1> QED
  BY <1>4, <1>5 DEF Resolve

LEMMA ResolveStoredStep ==
    ASSUME IInv, NEW u \in Clients, ResolveStored(u)
    PROVE  IInv' /\ LedgerStep
<1> DEFINE c == asks[u].call
           d == asks[u].decision
<1>1. /\ asks[u] # None /\ asks[u].path = "store"
      /\ asks' = [asks EXCEPT ![u] = None]
      /\ UNCHANGED <<world, late, registry, mail, pc, out, runs>>
  BY DEF ResolveStored
<1>2. TypeOK /\ lapsed \cap pend = {} /\ lapsed \subseteq Stale
  BY DEF IInv, LapsedIsOvertaken, Stale
<1>3. asks[u] \in Requests /\ c \in Calls /\ d \in Decisions
  BY <1>1, <1>2 DEF TypeOK, Requests
<1>4. CASE UNCHANGED <<rec, consent>>
  <2>1. Drops({})
    BY <1>1, <1>4, DropFacts
  <2> QED
    BY <1>1, <1>4, <2>1, RefusedStep
<1>5. CASE /\ c \in PendingInStore
           /\ rec' = Decided({c}, d)
           /\ consent' = consent \cup {[call |-> c, decision |-> d]}
  <2>1. c \in Native /\ c \notin late /\ rec[c] # None /\ rec[c].decision = Undecided /\ ~rec[c].cancelled
    BY <1>5 DEF PendingInStore, IsPending
  <2>2. rec[c] = [decision |-> Undecided, cancelled |-> FALSE, execution |-> None]
    BY <1>2, <1>3, <2>1, RecordFacts, Kinds DEF Records
  <2>3. c \notin pend /\ pc[c] \notin {"idle", "asking"}
    BY <1>1 DEF IInv, StorePathIsLate
  <2>4. {c} \cap Native = {c}
    BY <2>1
  <2>5. /\ denied' = denied /\ grants' = grants /\ pend' = pend /\ lapsed' = lapsed
        /\ consent \subseteq consent' /\ consent' \subseteq [call : Calls, decision : Decisions]
        /\ denied \subseteq Fingerprints /\ grants \subseteq Fingerprints
        /\ mail' \in [Calls -> Decisions \cup {None}]
    BY <1>1, <1>2, <1>3, <1>5 DEF TypeOK, registry
  <2>6. d \in Allow => \A x \in {c} : Consented(x)'
    <3>1. [call |-> c, decision |-> d] \in consent'
      BY <1>5
    <3> HIDE DEF c, d
    <3> QED
      BY <3>1 DEF Consented
  <2>7. /\ \A v \in Clients : asks'[v] \in {asks[v], None}
        /\ asks' \in [Clients -> Requests \cup {None}]
    BY <1>1, <1>2 DEF TypeOK
  <2> DEFINE C == {c}
  <2>8. /\ C \in SUBSET Calls /\ C \cap late = {}
        /\ \A x \in C : x = c /\ x \in {c}
        /\ pend' \subseteq pend \ C /\ rec' = Decided(C \cap Native, d)
    BY <1>3, <1>5, <2>1, <2>3, <2>4, <2>5
  <2> HIDE DEF C, c, d
  <2>9. /\ \A x \in C \cap Native : rec[x] =
             [decision |-> Undecided, cancelled |-> FALSE, execution |-> None]
        /\ \A x \in C : pc[x] \notin {"idle", "asking"}
        /\ d \in Allow => \A x \in C : Consented(x)'
    BY <2>2, <2>3, <2>6, <2>8
  <2>10. /\ lapsed' \subseteq Stale /\ lapsed' \cap pend' = {}
         /\ grants' \ grants = {} /\ grants' \subseteq Fingerprints /\ denied' \subseteq Fingerprints
         /\ \A x \in Calls : mail'[x] = mail[x]
    BY <1>1, <1>2, <2>5
  <2> QED
    BY <1>1, <1>3, <2>5, <2>7, <2>8, <2>9, <2>10, DecideStep
<1> QED
  BY <1>4, <1>5 DEF ResolveStored

-----------------------------------------------------------------------------
(* The theorems *)

LEMMA InitIInv == Init => IInv
<1> SUFFICES ASSUME Init PROVE IInv
  OBVIOUS
<1>1. TypeOK
  BY ChainAssumption DEF Init, TypeOK, PCs
<1>2. \A u \in Clients : asks[u] = None
  BY DEF Init
<1>3. NoTrace /\ ExternalUnrecorded /\ StorePathIsLate
  BY <1>2, CallAssumption DEF Init, NoTrace, ExternalUnrecorded, StorePathIsLate
<1>4. RegistryAgrees /\ DurableFirst /\ LapsedIsOvertaken /\ ExpiredIsOvertaken
  BY NoneAssumption DEF Init, RegistryAgrees, DurableFirst, LapsedIsOvertaken, ExpiredIsOvertaken,
     Native, Outcomes
<1>5. AllowedIsDurable /\ RunIsExecution /\ ExecutionMatches
  BY CallAssumption DEF Init, AllowedIsDurable, RunIsExecution, ExecutionMatches, Native
<1>6. PermissionsAreConsented
  BY NoneAssumption, Kinds, CallAssumption DEF Init, PermissionsAreConsented, Native
<1> QED
  BY <1>1, <1>3, <1>4, <1>5, <1>6 DEF IInv

LEMMA NextStep ==
    ASSUME IInv, [Next]_vars
    PROVE  IInv' /\ LedgerStep
<1>1. CASE UNCHANGED vars
  <2>1. TypeOK' /\ Undecisive
    <3>1. Drops({})
      BY <1>1, DropFacts DEF vars, registry
    <3> QED
      BY <1>1, <3>1, WorldStep DEF vars, world, IInv, TypeOK
  <2> QED
    BY <2>1, UndecisiveBoth
<1>2. ASSUME NEW c \in Calls,
             \/ Enter(c) \/ RequestPersisted(c) \/ Claim(c) \/ RequestExternal(c)
      PROVE  IInv' /\ LedgerStep
  BY <1>2, EnterStep, RequestPersistedStep, ClaimStep, RequestExternalStep
<1>3. ASSUME NEW c \in Calls,
             \/ Announce(c) \/ Receive(c) \/ Poll(c) \/ Finish(c) \/ Settle(c)
             \/ ReceiveExternal(c) \/ PollExternal(c)
      PROVE  IInv' /\ LedgerStep
  BY <1>3, AnnounceStep, ReceiveStep, PollStep, FinishStep, SettleStep,
     ReceiveExternalStep, PollExternalStep, UndecisiveBoth
<1>4. ASSUME NEW c \in Calls, NEW u \in Clients, NEW d \in Choices, LookUp(u, c, d)
      PROVE  IInv' /\ LedgerStep
  BY <1>4, LookUpStep, UndecisiveBoth
<1>5. ASSUME NEW u \in Clients, Resolve(u) \/ ResolveStored(u)
      PROVE  IInv' /\ LedgerStep
  BY <1>5, ResolveStep, ResolveStoredStep
<1>6. CASE \/ \E t \in Turns : \/ Accept(t) \/ BeginInput(t) \/ StartAgent(t)
                               \/ EndTurn(t) \/ CloseInput(t)
           \/ \E k \in Tasks : StopTask(k) \/ CancelExternal(k)
           \/ \E c \in Calls : Age(c)
           \/ CloseSession
  BY <1>6, WorldSteps, UndecisiveBoth
<1>7. CASE Restart
  BY <1>7, RestartStep, UndecisiveBoth
<1> QED
  BY <1>1, <1>2, <1>3, <1>4, <1>5, <1>6, <1>7 DEF Next

LEMMA Invariant == Spec => []IInv
<1>1. IInv /\ [Next]_vars => IInv'
  BY NextStep
<1> QED
  BY InitIInv, <1>1, PTL DEF Spec

\* Every variable keeps the values the code can give it.
THEOREM TypeCorrect == Spec => []TypeOK
<1>1. IInv => TypeOK
  BY DEF IInv
<1> QED
  BY Invariant, <1>1, PTL

\* claim_tool_approval lets one call run on an approval, whatever restarts,
\* Turns that continue others and concurrent decisions come in between.
THEOREM RunsOnce == Spec => []OneRunPerApproval
<1>1. IInv => OneRunPerApproval
  BY DEF IInv, RunIsExecution, OneRunPerApproval, Native
<1> QED
  BY Invariant, <1>1, PTL

\* The registry, the waiter's channel and the store never disagree on what was
\* decided or can still be.
THEOREM Agreement == Spec => []DecisionsAgree
<1>1. IInv => DecisionsAgree
  BY DEF IInv, DecisionsAgree, ExpiredIsOvertaken, Overtaken, ExpiredIsUndecided
<1> QED
  BY Invariant, <1>1, PTL

\* No tool runs on an approval that no user gave.
THEOREM Consent == Spec => []RunsAreConsented
<1>1. ASSUME IInv, NEW a \in Calls, NEW c \in runs[a]
      PROVE  Consented(a) /\ WhatOf[c] = WhatOf[a] /\ (c # a => TaskOf[a] \in Sources[TaskOf[c]])
  <2>1. CASE a \in External
    BY <1>1, <2>1 DEF IInv, RunIsExecution, PermissionsAreConsented
  <2>2. CASE a \in Native
    <3>1. rec[a] # None /\ rec[a].execution # None /\ rec[a].execution = c
      BY <1>1, <2>2 DEF IInv, RunIsExecution
    <3>2. rec[a].decision \in Allow
      BY <1>1, <3>1, RecordFacts DEF IInv
    <3> QED
      BY <1>1, <2>2, <3>1, <3>2 DEF IInv, ExecutionMatches, PermissionsAreConsented
  <2> QED
    BY <2>1, <2>2 DEF Native
<1>2. IInv => RunsAreConsented
  BY <1>1 DEF RunsAreConsented
<1> QED
  BY Invariant, <1>2, PTL

\* The durable approvals implement ApprovalLedger: opened once, settled once,
\* and an allowed one spent by at most one run.
THEOREM Refinement == Spec => ImplementsLedger
<1>1. Init => Ledger!Init
  BY DEF Init, Ledger!Init, StageOf, Native
<1>2. IInv /\ [Next]_vars => [Ledger!Next]_(Ledger!vars)
  BY NextStep DEF LedgerStep
<1> QED
  BY Invariant, <1>1, <1>2, PTL DEF Spec, ImplementsLedger, Ledger!Spec

=============================================================================
