------------------------- MODULE SessionTurnProofs -------------------------
(***************************************************************************)
(* Proofs about SessionTurn, for every finite set of inputs and every      *)
(* number of retries, stops, faults and crashes.                           *)
(*                                                                         *)
(* The four copies of a Turn agree at the points where the lock is free;   *)
(* IInv says what holds in between, while a stop waits with the lock held  *)
(* and while executors run without it.                                     *)
(***************************************************************************)
EXTENDS SessionTurn, TLAPS, FiniteSetTheorems, WellFoundedInduction

Accepted == {r \in Requests : at[r] > 0}

\* Acceptance numbers the inputs 1, 2, ...
Numbered ==
    /\ \A r \in Requests : at[r] = 0 <=> inbox[r].state = "none"
    /\ \A r \in Requests : at[r] <= Cardinality(Accepted)
    /\ \A r, q \in Requests : at[r] = at[q] /\ at[r] > 0 => r = q

\* The life of one input; names of Turns appear only once the Turn exists.
InputLife(r) ==
    /\ inbox[r].state \in {"none", "pending"} =>
         canon[r] = "none" /\ inbox[r].tries < MaxTries
    /\ inbox[r].state = "none" => inbox[r].target = None /\ ~inbox[r].settled
    /\ inbox[r].turn # None <=> inbox[r].state \in {"attached", "consumed"}
    /\ inbox[r].turn # None => canon[inbox[r].turn] # "none"
    /\ inbox[r].target # None => canon[inbox[r].target] # "none"
    /\ canon[r] = "none" => exec[r] = "none" /\ result[r] = "none"
    /\ exec[r] = "settling" => result[r] # "none"

InputLives == \A r \in Requests : InputLife(r)

OneReplacement == \A r, q \in Replacements : r = q

\* The executor of a session owns its slot, until the session is deleted.
ExecutorOwns ==
    \A t \in Requests : session = "active" /\ Tracked(t) => slot = t

\* Settled: the executor of the replaced Turn has stopped.
SettledIsQuiet ==
    \A r \in Requests :
        inbox[r].settled => inbox[r].target # None /\ ~Tracked(inbox[r].target)

\* What a stop and a queue task know while they hold the lock.
StopKnows ==
    held = "stop" =>
        /\ ~Live(current)
        /\ stop.by \in {"user", "remove", "drain"} =>
             /\ stop.turn # None /\ stop.turn = current
             /\ slot \in {None, stop.turn}
        /\ stop.by \in {"remove", "drain"} =>
             /\ stop.item \in Replacements /\ Unsettled(stop.item)
             /\ inbox[stop.item].target = stop.turn
        /\ stop.by = "admit" =>
             /\ slot = None
             /\ stop.item \in Pending /\ ~Unsettled(stop.item)
        /\ stop.by \in {"drain", "admit"} =>
             /\ Replacements \subseteq {stop.item}
             /\ \A q \in Pending \ {stop.item} :
                   inbox[stop.item].target # None \/ at[q] > at[stop.item]

DeletedIsFree == session = "deleted" => held = None

\* A Turn whose executor ended without settling it has met a fault.
ExecutorSettles ==
    /\ held = None /\ Live(current) /\ exec[current] \in {"closing", "done"} => faults > 0

\* An input in a context or in a steer input belongs to that Turn ...
HeardAreOwn ==
    /\ \A t \in Requests : \A r \in context[t] : inbox[r].turn = t
    /\ \A r \in fifo : input # None /\ inbox[r].turn = input

\* ... and while the executor is at work nothing that belongs to it is elsewhere.
AllAreHeard ==
    \A t, r \in Requests :
        session = "active" /\ Tracked(t) /\ inbox[r].turn = t =>
            \/ inbox[r].state = "consumed"
            \/ r \in context[t]
            \/ input = t /\ r \in fifo

CompleteIsClosed ==
    \A t \in Requests :
        result[t] = "completed" =>
            /\ input # t
            /\ \A r \in Requests : inbox[r].turn = t => inbox[r].state = "consumed"

InboxInv == Numbered /\ InputLives /\ OneReplacement
LockInv  == StopKnows /\ SlotFollowsCanon /\ DeletedIsFree /\ DeletedStaysEmpty
ExecInv  == ExecutorOwns /\ OneExecutor /\ SettledIsQuiet
SteerInv == HeardAreOwn /\ AllAreHeard /\ CompleteIsClosed /\ NoSteerLost

IInv == TypeOK /\ InboxInv /\ LockInv /\ ExecInv /\ SteerInv /\ ExecutorSettles

-----------------------------------------------------------------------------
(* The inbox and the counters *)

LEMMA LeastNatural ==
    ASSUME NEW S, S \subseteq Nat, S # {}
    PROVE  \E m \in S : \A n \in S : m <= n
<1> DEFINE R == {ss \in Nat \X Nat : ss[1] < ss[2]}
<1>1. IsWellFoundedOn(R, Nat)
  BY NatLessThanWellFounded DEF OpToRel
<1>2. \A m, n \in Nat : n < m => <<n, m>> \in R
  OBVIOUS
<1> HIDE DEF R
<1>3. PICK m \in S : \A n \in S : <<n, m>> \notin R
  BY <1>1, WFMin
<1>4. \A n \in S : ~ (n < m)
  BY <1>2, <1>3
<1> QED
  BY <1>3, <1>4

LEMMA RequestNames ==
    /\ None \notin Requests /\ "stop" \notin Requests /\ None # "stop"
BY SessionTurnAssumption

LEMMA CountTypes ==
    /\ TypeOK /\ Wake => wakes' \in 0 .. MaxWakes
    /\ TypeOK /\ wakes > 0 /\ Awake => wakes' \in 0 .. MaxWakes
    /\ TypeOK /\ CanFail /\ Fault => faults' \in 0 .. MaxFaults /\ faults' > 0
    /\ TypeOK => faults \in Nat
BY SessionTurnAssumption DEF TypeOK, Wake, Awake, CanFail, Fault

\* The inbox after a step that wrote the input r and no other.
Wrote(r, state, turn, target, settled) ==
    /\ inbox' \in [Requests -> Inputs]
    /\ \A q \in Requests : q # r => inbox'[q] = inbox[q]
    /\ inbox'[r].state = state /\ inbox'[r].turn = turn
    /\ inbox'[r].target = target /\ inbox'[r].settled = settled

LEMMA AttachWrites ==
    ASSUME TypeOK, NEW r \in Requests, NEW t \in Requests, Attach(r, t)
    PROVE  /\ Wrote(r, "attached", t, inbox[r].target, inbox[r].settled)
           /\ inbox'[r].tries = inbox[r].tries
<1>1. inbox[r] \in Inputs
  BY DEF TypeOK
<1> DEFINE i == [inbox[r] EXCEPT !.state = "attached", !.turn = t]
<1>2. i \in Inputs /\ i.state = "attached" /\ i.turn = t /\ i.target = inbox[r].target
      /\ i.settled = inbox[r].settled /\ i.tries = inbox[r].tries
  BY <1>1 DEF Inputs
<1>3. inbox' = [inbox EXCEPT ![r] = i]
  BY DEF Attach, TypeOK
<1> HIDE DEF i
<1> QED
  BY <1>2, <1>3 DEF TypeOK, Wrote

LEMMA EnqueueWrites ==
    ASSUME TypeOK, NEW r \in Requests, NEW t \in Requests \cup {None}, Enqueue(r, t)
    PROVE  /\ Wrote(r, "pending", inbox[r].turn, t, inbox[r].settled)
           /\ inbox'[r].tries = inbox[r].tries
<1>1. inbox[r] \in Inputs
  BY DEF TypeOK
<1> DEFINE i == [inbox[r] EXCEPT !.state = "pending", !.target = t]
<1>2. i \in Inputs /\ i.state = "pending" /\ i.turn = inbox[r].turn /\ i.target = t
      /\ i.settled = inbox[r].settled /\ i.tries = inbox[r].tries
  BY <1>1 DEF Inputs
<1>3. inbox' = [inbox EXCEPT ![r] = i]
  BY DEF Enqueue, TypeOK
<1> HIDE DEF i
<1> QED
  BY <1>2, <1>3 DEF TypeOK, Wrote

LEMMA CancelWrites ==
    ASSUME TypeOK, NEW r \in Requests, inbox' = [inbox EXCEPT ![r].state = "cancelled"]
    PROVE  Wrote(r, "cancelled", inbox[r].turn, inbox[r].target, inbox[r].settled)
<1>1. inbox[r] \in Inputs
  BY DEF TypeOK
<1> DEFINE i == [inbox[r] EXCEPT !.state = "cancelled"]
<1>2. i \in Inputs /\ i.state = "cancelled" /\ i.turn = inbox[r].turn /\ i.target = inbox[r].target
      /\ i.settled = inbox[r].settled
  BY <1>1 DEF Inputs
<1>3. inbox' = [inbox EXCEPT ![r] = i]
  BY DEF TypeOK
<1> HIDE DEF i
<1> QED
  BY <1>2, <1>3 DEF TypeOK, Wrote

LEMMA SettleWrites ==
    ASSUME TypeOK, NEW r \in Requests
    PROVE  /\ inbox' = [inbox EXCEPT ![r].settled = TRUE] =>
                /\ Wrote(r, inbox[r].state, inbox[r].turn, inbox[r].target, TRUE)
                /\ inbox'[r].tries = inbox[r].tries
           /\ inbox' = [inbox EXCEPT ![r].settled = TRUE, ![r].state = "cancelled"] =>
                Wrote(r, "cancelled", inbox[r].turn, inbox[r].target, TRUE)
<1>1. inbox[r] \in Inputs
  BY DEF TypeOK
<1> DEFINE i == [inbox[r] EXCEPT !.settled = TRUE]
           j == [inbox[r] EXCEPT !.settled = TRUE, !.state = "cancelled"]
<1>2. i \in Inputs /\ i.state = inbox[r].state /\ i.turn = inbox[r].turn
      /\ i.target = inbox[r].target /\ i.settled = TRUE /\ i.tries = inbox[r].tries
  BY <1>1 DEF Inputs
<1>3. j \in Inputs /\ j.state = "cancelled" /\ j.turn = inbox[r].turn
      /\ j.target = inbox[r].target /\ j.settled = TRUE
  BY <1>1 DEF Inputs
<1>4. inbox' = [inbox EXCEPT ![r].settled = TRUE] => inbox' = [inbox EXCEPT ![r] = i]
  BY DEF TypeOK
<1>5. inbox' = [inbox EXCEPT ![r].settled = TRUE, ![r].state = "cancelled"] =>
        inbox' = [inbox EXCEPT ![r] = j]
  BY DEF TypeOK
<1> HIDE DEF i, j
<1>6. inbox' = [inbox EXCEPT ![r] = i] =>
        /\ Wrote(r, inbox[r].state, inbox[r].turn, inbox[r].target, TRUE)
        /\ inbox'[r].tries = inbox[r].tries
  BY <1>2 DEF TypeOK, Wrote
<1>7. inbox' = [inbox EXCEPT ![r] = j] =>
        Wrote(r, "cancelled", inbox[r].turn, inbox[r].target, TRUE)
  BY <1>3 DEF TypeOK, Wrote
<1> QED
  BY <1>4, <1>5, <1>6, <1>7

LEMMA CountTryWrites ==
    ASSUME TypeOK, NEW r \in Requests, inbox[r].state = "pending", inbox[r].tries < MaxTries,
           CountTry(r)
    PROVE  \E s \in {"pending", "cancelled"} :
              /\ Wrote(r, s, inbox[r].turn, inbox[r].target, inbox[r].settled)
              /\ s = "pending" => inbox'[r].tries < MaxTries
<1>1. inbox[r] \in Inputs /\ inbox[r].tries \in Nat /\ MaxTries \in Nat
  BY SessionTurnAssumption DEF TypeOK, Inputs
<1> DEFINE n == inbox[r].tries + 1
           s == IF n < MaxTries THEN "pending" ELSE "cancelled"
           i == [inbox[r] EXCEPT !.tries = n, !.state = s]
<1>2. n \in 0 .. MaxTries /\ s \in {"pending", "cancelled"} /\ (s = "pending" => n < MaxTries)
  BY <1>1
<1>3. inbox' = [inbox EXCEPT ![r] = i]
  BY <1>1 DEF CountTry, TypeOK
<1> HIDE DEF n, s
<1>4. i \in Inputs /\ i.state = s /\ i.turn = inbox[r].turn /\ i.target = inbox[r].target
      /\ i.settled = inbox[r].settled /\ i.tries = n
  BY <1>1, <1>2 DEF Inputs
<1> HIDE DEF i
<1>5. Wrote(r, s, inbox[r].turn, inbox[r].target, inbox[r].settled) /\ inbox'[r].tries = n
  BY <1>3, <1>4 DEF TypeOK, Wrote
<1> QED
  BY <1>2, <1>5

LEMMA StepWrites ==
    ASSUME TypeOK, NEW t \in Requests, Step(t)
    PROVE  /\ inbox' \in [Requests -> Inputs]
           /\ \A r \in Requests :
                /\ inbox'[r].state = IF r \in context[t] THEN "consumed" ELSE inbox[r].state
                /\ inbox'[r].turn = inbox[r].turn /\ inbox'[r].target = inbox[r].target
                /\ inbox'[r].settled = inbox[r].settled /\ inbox'[r].tries = inbox[r].tries
<1>1. ASSUME NEW i \in Inputs
      PROVE  LET j == [i EXCEPT !.state = "consumed"]
             IN  /\ j \in Inputs /\ j.state = "consumed" /\ j.turn = i.turn
                 /\ j.target = i.target /\ j.settled = i.settled /\ j.tries = i.tries
  BY DEF Inputs
<1>2. \A r \in Requests : inbox[r] \in Inputs
  BY DEF TypeOK
<1>3. inbox' = [r \in Requests |-> IF r \in context[t] THEN [inbox[r] EXCEPT !.state = "consumed"]
                                                       ELSE inbox[r]]
  BY DEF Step
<1>4. ASSUME NEW r \in Requests
      PROVE  /\ inbox'[r] \in Inputs
             /\ inbox'[r].state = IF r \in context[t] THEN "consumed" ELSE inbox[r].state
             /\ inbox'[r].turn = inbox[r].turn /\ inbox'[r].target = inbox[r].target
             /\ inbox'[r].settled = inbox[r].settled /\ inbox'[r].tries = inbox[r].tries
  <2>1. CASE r \in context[t]
    BY <1>1, <1>2, <1>3, <2>1
  <2>2. CASE r \notin context[t]
    BY <1>2, <1>3, <2>2
  <2> QED
    BY <2>1, <2>2
<1> QED
  BY <1>3, <1>4

LEMMA DeleteWrites ==
    ASSUME TypeOK, Delete
    PROVE  /\ inbox' \in [Requests -> Inputs]
           /\ \A r \in Requests :
                /\ inbox'[r].state =
                     IF inbox[r].state = "pending" THEN "cancelled" ELSE inbox[r].state
                /\ inbox'[r].turn = inbox[r].turn /\ inbox'[r].target = inbox[r].target
                /\ inbox'[r].settled = inbox[r].settled /\ inbox'[r].tries = inbox[r].tries
<1>1. ASSUME NEW i \in Inputs
      PROVE  LET j == [i EXCEPT !.state = "cancelled"]
             IN  /\ j \in Inputs /\ j.state = "cancelled" /\ j.turn = i.turn
                 /\ j.target = i.target /\ j.settled = i.settled /\ j.tries = i.tries
  BY DEF Inputs
<1>2. \A r \in Requests : inbox[r] \in Inputs /\ (r \in Pending <=> inbox[r].state = "pending")
  BY DEF TypeOK, Pending
<1>3. inbox' = [r \in Requests |-> IF r \in Pending THEN [inbox[r] EXCEPT !.state = "cancelled"]
                                                    ELSE inbox[r]]
  BY DEF Delete
<1>4. ASSUME NEW r \in Requests
      PROVE  /\ inbox'[r] \in Inputs
             /\ inbox'[r].state =
                     IF inbox[r].state = "pending" THEN "cancelled" ELSE inbox[r].state
             /\ inbox'[r].turn = inbox[r].turn /\ inbox'[r].target = inbox[r].target
             /\ inbox'[r].settled = inbox[r].settled /\ inbox'[r].tries = inbox[r].tries
  <2>1. CASE r \in Pending
    <3>1. inbox'[r] = [inbox[r] EXCEPT !.state = "cancelled"]
      BY <1>3, <2>1
    <3> QED
      BY <1>1, <1>2, <2>1, <3>1
  <2>2. CASE r \notin Pending
    BY <1>2, <1>3, <2>2
  <2> QED
    BY <2>1, <2>2
<1> QED
  BY <1>3, <1>4

\* Acceptance gives the next number.
LEMMA NumberWrites ==
    ASSUME TypeOK, Numbered, NEW r \in Requests, at[r] = 0, at' = [at EXCEPT ![r] = NextAt]
    PROVE  /\ at' \in [Requests -> 0 .. Cardinality(Requests)]
           /\ \A q \in Requests : q # r => at'[q] = at[q] /\ at[q] < at'[r]
           /\ at'[r] > 0
           /\ at'[r] = Cardinality(Accepted')
           /\ Cardinality(Accepted) <= Cardinality(Accepted')
<1>1. /\ IsFiniteSet(Requests) /\ Cardinality(Requests) \in Nat
      /\ IsFiniteSet(Accepted) /\ Cardinality(Accepted) \in Nat
  BY SessionTurnAssumption, FS_Subset, FS_CardinalityType DEF Accepted
<1>2. Cardinality(Accepted \cup {r}) = Cardinality(Accepted) + 1
  <2>1. r \notin Accepted
    BY DEF Accepted
  <2> QED
    BY <1>1, <2>1, FS_AddElement
<1>3. Cardinality(Accepted \cup {r}) <= Cardinality(Requests)
  BY <1>1, FS_Subset DEF Accepted
<1>4. NextAt = Cardinality(Accepted) + 1
  BY <1>1 DEF NextAt, Accepted
<1>5. \A q \in Requests : at'[q] = IF q = r THEN Cardinality(Accepted) + 1 ELSE at[q]
  BY <1>4 DEF TypeOK
<1>6. Accepted' = Accepted \cup {r}
  BY <1>1, <1>5 DEF Accepted
<1>7. \A q \in Requests : at[q] \in 0 .. Cardinality(Requests) /\ at[q] <= Cardinality(Accepted)
  BY DEF TypeOK, Numbered
<1>8. at' \in [Requests -> 0 .. Cardinality(Requests)]
  BY <1>1, <1>2, <1>3, <1>4 DEF TypeOK
<1> QED
  BY <1>1, <1>2, <1>5, <1>6, <1>7, <1>8

LEMMA NumberedStays ==
    ASSUME TypeOK, Numbered, UNCHANGED at,
           \A r \in Requests : inbox'[r].state = "none" <=> inbox[r].state = "none"
    PROVE  Numbered'
BY DEF Numbered, Accepted

LEMMA NumberedGrows ==
    ASSUME TypeOK, Numbered, NEW r \in Requests, Unknown(r), at' = [at EXCEPT ![r] = NextAt],
           inbox'[r].state # "none",
           \A q \in Requests : q # r => inbox'[q] = inbox[q]
    PROVE  /\ Numbered'
           /\ at' \in [Requests -> 0 .. Cardinality(Requests)]
           /\ \A q \in Requests : q # r => at'[q] = at[q] /\ at[q] < at'[r]
           /\ at'[r] > 0
<1>1. at[r] = 0
  BY DEF Unknown, Numbered
<1>2. /\ at' \in [Requests -> 0 .. Cardinality(Requests)]
      /\ \A q \in Requests : q # r => at'[q] = at[q] /\ at[q] < at'[r]
      /\ at'[r] > 0
      /\ at'[r] = Cardinality(Accepted')
      /\ Cardinality(Accepted) <= Cardinality(Accepted')
  BY <1>1, NumberWrites
<1>3. \A q \in Requests : at'[q] \in Nat /\ at[q] \in Nat
  BY <1>2, SessionTurnAssumption, FS_CardinalityType DEF TypeOK
<1>4. /\ IsFiniteSet(Accepted) /\ Cardinality(Accepted) \in Nat
      /\ IsFiniteSet(Accepted') /\ Cardinality(Accepted') \in Nat
  BY SessionTurnAssumption, FS_Subset, FS_CardinalityType DEF Accepted
<1>5. \A q \in Requests : at'[q] <= Cardinality(Accepted')
  BY <1>2, <1>3, <1>4 DEF Numbered
<1>6. \A q \in Requests : at'[q] = 0 <=> inbox'[q].state = "none"
  BY <1>2, <1>3 DEF Numbered
<1>7. \A q, p \in Requests : at'[q] = at'[p] /\ at'[q] > 0 => q = p
  BY <1>2, <1>3 DEF Numbered
<1> QED
  BY <1>2, <1>5, <1>6, <1>7 DEF Numbered

\* The queue starts with a replacement, or with the oldest input.
LEMMA HeadIsFirst ==
    ASSUME TypeOK, Numbered, OneReplacement, Pending # {}
    PROVE  /\ Head \in Pending
           /\ Replacements \subseteq {Head}
           /\ \A q \in Pending \ {Head} : inbox[Head].target # None \/ at[q] > at[Head]
<1> DEFINE first == IF Replacements # {} THEN Replacements ELSE Pending
           S == {at[q] : q \in first}
<1>1. first \subseteq Pending /\ first # {} /\ Pending \subseteq Requests
  BY DEF Pending, Replacements
<1>2. \A q \in Requests : at[q] \in Nat
  BY SessionTurnAssumption, FS_CardinalityType DEF TypeOK
<1>3. S \subseteq Nat /\ S # {}
  BY <1>1, <1>2
<1>4. PICK m \in S : \A n \in S : m <= n
  BY <1>3, LeastNatural
<1>5. \E r \in first : \A q \in first : at[r] <= at[q]
  BY <1>4
<1>6. Head = CHOOSE r \in first : \A q \in first : at[r] <= at[q]
  BY DEF Head
<1> HIDE DEF S
<1>7. Head \in first /\ \A q \in first : at[Head] <= at[q]
  <2> HIDE DEF first
  <2> QED
    BY <1>5, <1>6
<1>8. Head \in Pending /\ Replacements \subseteq {Head}
  BY <1>1, <1>7 DEF OneReplacement
<1>9. ASSUME NEW q \in Pending, q # Head, inbox[Head].target = None PROVE at[q] > at[Head]
  <2>1. first = Pending
    BY <1>7, <1>8, <1>9 DEF Replacements
  <2>2. at[Head] <= at[q] /\ at[q] \in Nat /\ at[Head] \in Nat /\ q \in Requests /\ Head \in Requests
    BY <1>1, <1>2, <1>7, <1>9, <2>1
  <2>3. at[q] > 0
    BY <2>2, <1>9 DEF Numbered, Pending
  <2> QED
    BY <1>9, <2>2, <2>3 DEF Numbered
<1> QED
  BY <1>8, <1>9

-----------------------------------------------------------------------------
(* Executors *)

\* What any step of the executor of Turn t may change.
ExecMoves(t) ==
    /\ exec' \in [Requests -> ExecPCs] /\ exec[t] # "none" /\ exec'[t] # "none"
    /\ Tracked(t)' => Tracked(t)
    /\ \A u \in Requests : u # t => exec'[u] = exec[u]

ResultMoves(t) ==
    /\ result' \in [Requests -> {"none"} \cup Ended]
    /\ exec'[t] = "settling" => result'[t] # "none"
    /\ \A u \in Requests : u # t => result'[u] = result[u]

CanonMoves(t) ==
    /\ canon' \in [Requests -> Statuses]
    /\ \A u \in Requests : u # t => canon'[u] = canon[u]
    /\ \/ UNCHANGED <<canon, slot>>
       \/ UNCHANGED slot /\ Writable(t) /\ canon'[t] = "running"
       \/ /\ held = None /\ Writable(t) /\ ~Tracked(t) /\ canon'[t] \in Ended
          /\ slot' = IF slot = t THEN None ELSE slot

InputsMove(t) ==
    /\ inbox' \in [Requests -> Inputs]
    /\ \A r \in Requests :
          /\ inbox'[r].state \in {inbox[r].state, "consumed"}
          /\ inbox'[r].state # inbox[r].state => r \in context[t]
          /\ inbox'[r].turn = inbox[r].turn /\ inbox'[r].target = inbox[r].target
          /\ inbox'[r].settled = inbox[r].settled /\ inbox'[r].tries = inbox[r].tries

ExecutorMoves(t) ==
    /\ UNCHANGED <<session, current, at, held, stop>>
    /\ ExecMoves(t) /\ ResultMoves(t) /\ CanonMoves(t) /\ InputsMove(t)

LEMMA NothingMoves ==
    ASSUME TypeOK, NEW t \in Requests
    PROVE  /\ UNCHANGED inbox => InputsMove(t)
           /\ UNCHANGED <<canon, slot>> => CanonMoves(t)
           /\ UNCHANGED result /\ exec'[t] # "settling" => ResultMoves(t)
<1>1. ASSUME UNCHANGED inbox PROVE InputsMove(t)
  <2>1. inbox' \in [Requests -> Inputs]
    BY <1>1 DEF TypeOK
  <2>2. \A r \in Requests : inbox'[r] = inbox[r]
    BY <1>1
  <2> QED
    BY <2>1, <2>2 DEF InputsMove
<1>2. UNCHANGED <<canon, slot>> => CanonMoves(t)
  BY DEF CanonMoves, TypeOK
<1>3. UNCHANGED result /\ exec'[t] # "settling" => ResultMoves(t)
  BY DEF ResultMoves, TypeOK
<1> QED
  BY <1>1, <1>2, <1>3

LEMMA ToTypes ==
    ASSUME TypeOK, NEW t \in Requests, NEW pc \in ExecPCs, To(t, pc)
    PROVE  /\ exec' \in [Requests -> ExecPCs] /\ exec'[t] = pc
           /\ \A u \in Requests : u # t => exec'[u] = exec[u]
           /\ /\ exec[t] # "none" /\ pc # "none"
              /\ Tracked(t) \/ pc \notin {"spawned", "prepared", "started", "working"}
              => ExecMoves(t)
<1>1. /\ exec' \in [Requests -> ExecPCs] /\ exec'[t] = pc
      /\ \A u \in Requests : u # t => exec'[u] = exec[u]
  BY DEF TypeOK, To
<1> QED
  BY <1>1 DEF ExecMoves, Tracked

LEMMA CanonTypes ==
    ASSUME TypeOK, NEW t \in Requests, NEW s \in Statuses, canon' = [canon EXCEPT ![t] = s]
    PROVE  /\ canon' \in [Requests -> Statuses] /\ canon'[t] = s
           /\ \A u \in Requests : u # t => canon'[u] = canon[u]
BY DEF TypeOK

LEMMA ResultTypes ==
    ASSUME TypeOK, NEW t \in Requests, NEW s \in {"none"} \cup Ended,
           result' = [result EXCEPT ![t] = s]
    PROVE  /\ result' \in [Requests -> {"none"} \cup Ended] /\ result'[t] = s
           /\ \A u \in Requests : u # t => result'[u] = result[u]
BY DEF TypeOK

LEMMA InputTypes ==
    ASSUME TypeOK, NEW t \in Requests \cup {None}, CloseInput(t)
    PROVE  input' \in Requests \cup {None} /\ fifo' \subseteq Requests
BY DEF TypeOK, CloseInput

\* Where an executor goes, and that nothing else of its state changes.
LEMMA Marks ==
    ASSUME TypeOK, NEW t \in Requests, Prepare(t) \/ MarkRunning(t)
    PROVE  ExecutorMoves(t) /\ TypeOK'
<1>1. \E pc \in {"prepared", "started", "done"} : To(t, pc)
  BY DEF Prepare, MarkRunning
<1>2. PICK pc \in {"prepared", "started", "done"} : To(t, pc)
  BY <1>1
<1>3. pc \in ExecPCs /\ pc # "none" /\ pc # "settling"
  BY DEF ExecPCs
<1>4. /\ UNCHANGED <<disk, held, slot, input, fifo, context, result, stop, wakes, counted>>
      /\ exec[t] # "none" /\ Tracked(t)
  BY DEF Prepare, MarkRunning, Tracked
<1>5. exec' \in [Requests -> ExecPCs] /\ exec'[t] = pc /\ ExecMoves(t)
  BY <1>2, <1>3, <1>4, ToTypes
<1>6. UNCHANGED <<session, canon, current, inbox, at, held, slot, input, fifo, context, result,
                  stop, wakes, stops, faults, crashes>>
  BY <1>4 DEF disk, counted
<1>7. TypeOK'
  BY <1>5, <1>6 DEF TypeOK
<1> QED
  BY <1>3, <1>5, <1>6, <1>7, NothingMoves DEF ExecutorMoves

LEMMA Starts ==
    ASSUME TypeOK, NEW t \in Requests, StartRunning(t)
    PROVE  ExecutorMoves(t) /\ TypeOK'
<1>1. /\ UNCHANGED <<session, current, inbox, at, held, slot, input, fifo, context, result,
                     stop, wakes, stops, crashes>>
      /\ exec[t] # "none" /\ Tracked(t)
  BY DEF StartRunning, Tracked
<1>2. faults' \in 0 .. MaxFaults
  BY CountTypes DEF StartRunning, TypeOK
<1>3. \/ To(t, "working") /\ Writable(t) /\ canon' = [canon EXCEPT ![t] = "running"]
      \/ To(t, "failing") /\ UNCHANGED canon
  BY DEF StartRunning
<1>4. /\ "running" \in Statuses /\ "working" \in ExecPCs /\ "failing" \in ExecPCs
  BY DEF ExecPCs, Statuses
<1>5. CASE To(t, "failing") /\ UNCHANGED canon
  <2>1. exec' \in [Requests -> ExecPCs] /\ exec'[t] = "failing" /\ ExecMoves(t)
    BY <1>1, <1>4, <1>5, ToTypes
  <2>2. TypeOK'
    BY <1>1, <1>2, <1>5, <2>1 DEF TypeOK
  <2> QED
    BY <1>1, <1>5, <2>1, <2>2, NothingMoves DEF ExecutorMoves
<1>6. CASE To(t, "working") /\ Writable(t) /\ canon' = [canon EXCEPT ![t] = "running"]
  <2>1. exec' \in [Requests -> ExecPCs] /\ exec'[t] = "working" /\ ExecMoves(t)
    BY <1>1, <1>4, <1>6, ToTypes
  <2>2. /\ canon' \in [Requests -> Statuses] /\ canon'[t] = "running"
        /\ \A u \in Requests : u # t => canon'[u] = canon[u]
    BY <1>4, <1>6, CanonTypes
  <2>3. CanonMoves(t)
    BY <1>1, <1>6, <2>2 DEF CanonMoves
  <2>4. TypeOK'
    BY <1>1, <1>2, <2>1, <2>2 DEF TypeOK
  <2> QED
    BY <1>1, <2>1, <2>3, <2>4, NothingMoves DEF ExecutorMoves
<1> QED
  BY <1>3, <1>5, <1>6

\* The settlement of a Turn that was not settled before it: all or nothing.
LEMMA SettleMoves ==
    ASSUME TypeOK, NEW t \in Requests, NEW s \in Ended, SettleTurn(t, s)
    PROVE  /\ canon' \in [Requests -> Statuses] /\ faults' \in 0 .. MaxFaults
           /\ slot' \in Requests \cup {None}
           /\ \A u \in Requests : u # t => canon'[u] = canon[u]
           /\ \/ UNCHANGED <<canon, slot>> /\ (Writable(t) => faults' > 0)
              \/ Writable(t) /\ canon'[t] = s /\ slot' = IF slot = t THEN None ELSE slot
           /\ faults' = faults \/ faults' > 0
<1>1. CASE /\ canon' = IF Writable(t) THEN [canon EXCEPT ![t] = s] ELSE canon
           /\ IF Writable(t) THEN Release(t) ELSE UNCHANGED slot
           /\ UNCHANGED faults
  <2>1. CASE Writable(t)
    <3>1. s \in Statuses /\ canon' = [canon EXCEPT ![t] = s] /\ Release(t)
      BY <1>1, <2>1 DEF Statuses
    <3>2. /\ canon' \in [Requests -> Statuses] /\ canon'[t] = s
          /\ \A u \in Requests : u # t => canon'[u] = canon[u]
      BY <3>1, CanonTypes
    <3> QED
      BY <1>1, <2>1, <3>1, <3>2 DEF TypeOK, Release
  <2>2. CASE ~Writable(t)
    BY <1>1, <2>2 DEF TypeOK
  <2> QED
    BY <2>1, <2>2
<1>2. CASE Writable(t) /\ CanFail /\ Fault /\ UNCHANGED <<canon, slot>>
  BY <1>2, CountTypes DEF TypeOK
<1> QED
  BY <1>1, <1>2 DEF SettleTurn

LEMMA Settlements ==
    ASSUME TypeOK, InputLives, NEW t \in Requests, FailBefore(t) \/ Settle(t)
    PROVE  ExecutorMoves(t) /\ TypeOK'
<1>1. /\ UNCHANGED <<session, current, inbox, at, held, context, result, stop, stops, crashes>>
      /\ held = None /\ exec[t] # "none" /\ ~Tracked(t)
  BY DEF FailBefore, Settle, Tracked
<1>2. CASE FailBefore(t)
  <2>1. /\ SettleTurn(t, "failed") /\ To(t, "closing") /\ UNCHANGED <<input, fifo, wakes>>
        /\ "failed" \in Ended /\ "closing" \in ExecPCs
    BY <1>2 DEF FailBefore, Ended, ExecPCs
  <2>2. exec' \in [Requests -> ExecPCs] /\ exec'[t] = "closing" /\ ExecMoves(t)
    BY <1>1, <2>1, ToTypes
  <2>3. /\ canon' \in [Requests -> Statuses] /\ faults' \in 0 .. MaxFaults
        /\ slot' \in Requests \cup {None}
        /\ \A u \in Requests : u # t => canon'[u] = canon[u]
        /\ \/ UNCHANGED <<canon, slot>>
           \/ Writable(t) /\ canon'[t] \in Ended /\ slot' = IF slot = t THEN None ELSE slot
    BY <2>1, SettleMoves
  <2>4. CanonMoves(t)
    BY <1>1, <2>3 DEF CanonMoves
  <2>5. TypeOK'
    BY <1>1, <2>1, <2>2, <2>3 DEF TypeOK
  <2> QED
    BY <1>1, <2>2, <2>4, <2>5, NothingMoves DEF ExecutorMoves
<1>3. CASE Settle(t)
  <2>1. /\ SettleTurn(t, result[t]) /\ To(t, "done") /\ Wake /\ CloseInput(t)
        /\ result[t] \in Ended /\ "done" \in ExecPCs
    BY <1>3 DEF Settle, InputLives, InputLife, TypeOK, ExecPCs
  <2>2. exec' \in [Requests -> ExecPCs] /\ exec'[t] = "done" /\ ExecMoves(t)
    BY <1>1, <2>1, ToTypes
  <2>3. /\ canon' \in [Requests -> Statuses] /\ faults' \in 0 .. MaxFaults
        /\ slot' \in Requests \cup {None}
        /\ \A u \in Requests : u # t => canon'[u] = canon[u]
        /\ \/ UNCHANGED <<canon, slot>>
           \/ Writable(t) /\ canon'[t] \in Ended /\ slot' = IF slot = t THEN None ELSE slot
    BY <2>1, SettleMoves
  <2>4. CanonMoves(t)
    BY <1>1, <2>3 DEF CanonMoves
  <2>5. /\ input' \in Requests \cup {None} /\ fifo' \subseteq Requests
        /\ wakes' \in 0 .. MaxWakes
    BY <2>1, InputTypes, CountTypes
  <2>6. TypeOK'
    BY <1>1, <2>2, <2>3, <2>5 DEF TypeOK
  <2> QED
    BY <1>1, <2>2, <2>4, <2>6, NothingMoves DEF ExecutorMoves
<1> QED
  BY <1>2, <1>3

LEMMA Closes ==
    ASSUME TypeOK, NEW t \in Requests, CloseAfterFailure(t)
    PROVE  ExecutorMoves(t) /\ TypeOK'
<1>1. /\ UNCHANGED <<session, canon, current, inbox, at, held, slot, context, result, stop,
                     stops, faults, crashes>>
      /\ exec[t] # "none" /\ "done" \in ExecPCs
      /\ To(t, "done") /\ Wake /\ CloseInput(t)
  BY DEF CloseAfterFailure, ExecPCs, disk, counted
<1>2. exec' \in [Requests -> ExecPCs] /\ exec'[t] = "done" /\ ExecMoves(t)
  BY <1>1, ToTypes
<1>3. /\ input' \in Requests \cup {None} /\ fifo' \subseteq Requests
      /\ wakes' \in 0 .. MaxWakes
  BY <1>1, InputTypes, CountTypes
<1>4. TypeOK'
  BY <1>1, <1>2, <1>3 DEF TypeOK
<1> QED
  BY <1>1, <1>2, <1>4, NothingMoves DEF ExecutorMoves

LEMMA Steps ==
    ASSUME TypeOK, NEW t \in Requests, Step(t)
    PROVE  ExecutorMoves(t) /\ TypeOK'
<1>1. /\ UNCHANGED <<session, canon, current, at, held, slot, input, fifo, exec, context,
                     result, stop, wakes, stops, faults, crashes>>
      /\ exec[t] = "working"
  BY DEF Step, memory, counted
<1>2. /\ inbox' \in [Requests -> Inputs]
      /\ \A r \in Requests :
           /\ inbox'[r].state = IF r \in context[t] THEN "consumed" ELSE inbox[r].state
           /\ inbox'[r].turn = inbox[r].turn /\ inbox'[r].target = inbox[r].target
           /\ inbox'[r].settled = inbox[r].settled /\ inbox'[r].tries = inbox[r].tries
  BY StepWrites
<1>3. InputsMove(t)
  BY <1>2 DEF InputsMove
<1>4. exec' \in [Requests -> ExecPCs] /\ exec'[t] = "working" /\ ExecMoves(t)
  BY <1>1 DEF TypeOK, ExecMoves, Tracked
<1>5. TypeOK'
  BY <1>1, <1>2 DEF TypeOK
<1> QED
  BY <1>1, <1>3, <1>4, <1>5, NothingMoves DEF ExecutorMoves

LEMMA Boundaries ==
    ASSUME TypeOK, NEW t \in Requests, Boundary(t)
    PROVE  ExecutorMoves(t) /\ TypeOK'
<1>1. /\ UNCHANGED <<session, canon, current, inbox, at, held, slot, stop, wakes, stops, faults,
                     crashes>>
      /\ exec[t] = "working"
  BY DEF Boundary, disk, counted
<1>2. CASE TakenSteers(t) # {}
  <2>1. /\ context' = [context EXCEPT ![t] = @ \cup TakenSteers(t)] /\ fifo' = {}
        /\ UNCHANGED <<input, exec, result>> /\ TakenSteers(t) \subseteq Requests
    BY <1>2 DEF Boundary, TakenSteers, TypeOK
  <2>2. context' \in [Requests -> SUBSET Requests]
    BY <2>1 DEF TypeOK
  <2>3. exec' \in [Requests -> ExecPCs] /\ exec'[t] = "working" /\ ExecMoves(t)
    BY <1>1, <2>1 DEF TypeOK, ExecMoves, Tracked
  <2>4. TypeOK'
    BY <1>1, <2>1, <2>2 DEF TypeOK
  <2> QED
    BY <1>1, <2>1, <2>3, <2>4, NothingMoves DEF ExecutorMoves
<1>3. CASE TakenSteers(t) = {}
  <2>1. /\ CloseInput(t) /\ To(t, "settling") /\ UNCHANGED context
        /\ result' = [result EXCEPT ![t] = "completed"]
        /\ "completed" \in Ended /\ "settling" \in ExecPCs
    BY <1>3 DEF Boundary, Ended, ExecPCs
  <2>2. exec' \in [Requests -> ExecPCs] /\ exec'[t] = "settling" /\ ExecMoves(t)
    BY <1>1, <2>1, ToTypes
  <2>3. /\ result' \in [Requests -> {"none"} \cup Ended] /\ result'[t] = "completed"
        /\ \A u \in Requests : u # t => result'[u] = result[u]
    BY <2>1, ResultTypes
  <2>4. input' \in Requests \cup {None} /\ fifo' \subseteq Requests
    BY <2>1, InputTypes
  <2>5. ResultMoves(t)
    BY <2>3 DEF ResultMoves
  <2>6. TypeOK'
    BY <1>1, <2>1, <2>2, <2>3, <2>4 DEF TypeOK
  <2> QED
    BY <1>1, <2>2, <2>5, <2>6, NothingMoves DEF ExecutorMoves
<1> QED
  BY <1>2, <1>3

LEMMA Breaks ==
    ASSUME TypeOK, NEW t \in Requests, Break(t)
    PROVE  ExecutorMoves(t) /\ TypeOK'
<1>1. /\ UNCHANGED <<session, canon, current, inbox, at, held, slot, input, fifo, context, stop,
                     wakes, stops, faults, crashes>>
      /\ exec[t] = "working" /\ To(t, "settling") /\ "settling" \in ExecPCs
  BY DEF Break, ExecPCs, disk, counted
<1>2. PICK s \in {"failed", "cancelled"} : result' = [result EXCEPT ![t] = s]
  BY DEF Break
<1>3. exec' \in [Requests -> ExecPCs] /\ exec'[t] = "settling" /\ ExecMoves(t)
  BY <1>1, ToTypes
<1>4. s \in Ended /\ s # "none"
  BY DEF Ended
<1>5. /\ result' \in [Requests -> {"none"} \cup Ended] /\ result'[t] = s
      /\ \A u \in Requests : u # t => result'[u] = result[u]
  BY <1>2, <1>4, ResultTypes
<1>6. ResultMoves(t)
  BY <1>4, <1>5 DEF ResultMoves
<1>7. TypeOK'
  BY <1>1, <1>3, <1>5 DEF TypeOK
<1> QED
  BY <1>1, <1>3, <1>6, <1>7, NothingMoves DEF ExecutorMoves

ExecutorOf(t) == \/ Prepare(t) \/ MarkRunning(t) \/ StartRunning(t) \/ FailBefore(t)
                 \/ CloseAfterFailure(t) \/ Step(t) \/ Boundary(t) \/ Break(t) \/ Settle(t)

LEMMA ExecutorEffects ==
    ASSUME TypeOK, InputLives, NEW t \in Requests, ExecutorOf(t)
    PROVE  ExecutorMoves(t) /\ TypeOK'
BY Marks, Starts, Settlements, Closes, Steps, Boundaries, Breaks DEF ExecutorOf

-----------------------------------------------------------------------------
(* Admissions and stops *)

LEMMA AdmitEffects ==
    ASSUME TypeOK, NEW r \in Requests, Admit(r)
    PROVE  /\ slot = None /\ Replacements \subseteq {r} /\ slot' = r /\ current' = r
           /\ canon' \in [Requests -> Statuses] /\ canon'[r] = "accepted"
           /\ \A u \in Requests : u # r => canon'[u] = canon[u]
           /\ Wrote(r, "attached", r, inbox[r].target, inbox[r].settled)
           /\ inbox'[r].tries = inbox[r].tries
           /\ exec' \in [Requests -> ExecPCs] /\ context' \in [Requests -> SUBSET Requests]
           /\ input' \in Requests \cup {None} /\ fifo' \subseteq Requests
           /\ \A u \in Requests : u # r => exec'[u] = exec[u] /\ context'[u] = context[u]
           /\ \/ /\ input = None /\ input' = r /\ fifo' = {} /\ held' = None
                 /\ exec'[r] = "spawned" /\ context'[r] = {r}
              \/ held' = r /\ UNCHANGED <<input, fifo, exec, context>>
<1>1. "accepted" \in Statuses /\ "spawned" \in ExecPCs
  BY DEF Statuses, ExecPCs
<1>2. /\ canon' \in [Requests -> Statuses] /\ canon'[r] = "accepted"
      /\ \A u \in Requests : u # r => canon'[u] = canon[u]
  BY <1>1, CanonTypes DEF Admit
<1>3. /\ Wrote(r, "attached", r, inbox[r].target, inbox[r].settled)
      /\ inbox'[r].tries = inbox[r].tries
  BY AttachWrites DEF Admit
<1>4. /\ slot = None /\ Replacements \subseteq {r} /\ slot' = r /\ current' = r
  BY DEF Admit
<1>5. CASE input = None
  <2>1. /\ input' = r /\ fifo' = {} /\ held' = None
        /\ exec' = [exec EXCEPT ![r] = "spawned"]
        /\ context' = [context EXCEPT ![r] = {r}]
    BY <1>5 DEF Admit
  <2>2. /\ exec' \in [Requests -> ExecPCs] /\ exec'[r] = "spawned"
        /\ \A u \in Requests : u # r => exec'[u] = exec[u]
    BY <1>1, <2>1 DEF TypeOK
  <2>3. /\ context' \in [Requests -> SUBSET Requests] /\ context'[r] = {r}
        /\ \A u \in Requests : u # r => context'[u] = context[u]
    BY <2>1 DEF TypeOK
  <2> QED
    BY <1>2, <1>3, <1>4, <1>5, <2>1, <2>2, <2>3
<1>6. CASE input # None
  <2>1. held' = r /\ UNCHANGED <<input, fifo, exec, context>>
    BY <1>6 DEF Admit
  <2>2. /\ exec' \in [Requests -> ExecPCs] /\ context' \in [Requests -> SUBSET Requests]
        /\ input' \in Requests \cup {None} /\ fifo' \subseteq Requests
    BY <2>1 DEF TypeOK
  <2> QED
    BY <1>2, <1>3, <1>4, <2>1, <2>2
<1> QED
  BY <1>5, <1>6

LEMMA BeginStopEffects ==
    ASSUME TypeOK, NEW by \in {"user", "drain", "remove"}, NEW t \in Requests,
           NEW r \in Requests \cup {None}, BeginStop(by, t, r)
    PROVE  /\ canon' \in [Requests -> Statuses] /\ ~Live(t)'
           /\ \A u \in Requests : canon'[u] = canon[u] \/ u = t
           /\ \A u \in Requests : canon'[u] = canon[u] \/ canon'[u] = "cancelled"
           /\ \A u \in Requests : canon'[u] = "none" <=> canon[u] = "none"
           /\ stop' \in StopTasks /\ stop'.by = by /\ stop'.turn = t /\ stop'.item = r
           /\ held' = "stop"
<1>1. stop' = [by |-> by, turn |-> t, item |-> r] /\ held' = "stop"
  BY DEF BeginStop
<1>2. stop' \in StopTasks /\ stop'.by = by /\ stop'.turn = t /\ stop'.item = r
  BY <1>1 DEF StopTasks
<1>3. CASE Live(t)
  <2>1. canon' = [canon EXCEPT ![t] = "cancelled"] /\ "cancelled" \in Statuses
    BY <1>3 DEF BeginStop, Statuses, Ended
  <2>2. /\ canon' \in [Requests -> Statuses] /\ canon'[t] = "cancelled"
        /\ \A u \in Requests : u # t => canon'[u] = canon[u]
    BY <2>1, CanonTypes
  <2>3. ~Live(t)' /\ canon[t] # "none"
    BY <1>3, <2>2 DEF Live
  <2> QED
    BY <1>1, <1>2, <2>2, <2>3
<1>4. CASE ~Live(t)
  <2>1. canon' = canon
    BY <1>4 DEF BeginStop
  <2>2. ~Live(t)' /\ canon' \in [Requests -> Statuses]
    BY <1>4, <2>1 DEF Live, TypeOK
  <2> QED
    BY <1>1, <1>2, <2>1, <2>2
<1> QED
  BY <1>3, <1>4

LEMMA NoStopType == NoStop \in StopTasks /\ NoStop.by = "none"
BY DEF NoStop, StopTasks

\* Submit, SubmitReplacement and SubmitSteer accept an input.
LEMMA SubmitTypes ==
    ASSUME TypeOK, Numbered, NEW r \in Requests,
           Submit(r) \/ SubmitReplacement(r) \/ SubmitSteer(r)
    PROVE  TypeOK' /\ Numbered'
<1> USE DEF counted
<1>1. Unknown(r) /\ held = None /\ at' = [at EXCEPT ![r] = NextAt]
  BY DEF Submit, SubmitReplacement, SubmitSteer, Free
<1>2. ASSUME inbox' \in [Requests -> Inputs], inbox'[r].state # "none",
             \A q \in Requests : q # r => inbox'[q] = inbox[q]
      PROVE  Numbered' /\ at' \in [Requests -> 0 .. Cardinality(Requests)]
  BY <1>1, <1>2, NumberedGrows
<1>3. UNCHANGED <<session, result, stop, stops, faults, crashes>> /\ stop.by = "none"
  BY <1>1, RequestNames DEF Submit, SubmitReplacement, SubmitSteer, TypeOK
<1>4. CASE Submit(r)
  <2>1. CASE /\ Enqueue(r, None)
             /\ IF Pending # {} /\ ~Live(current) THEN Wake ELSE UNCHANGED wakes
             /\ UNCHANGED <<held, canon, current, slot, input, fifo, exec, context>>
    <3>1. Wrote(r, "pending", inbox[r].turn, None, inbox[r].settled)
      BY <2>1, EnqueueWrites
    <3>2. Numbered' /\ at' \in [Requests -> 0 .. Cardinality(Requests)]
      BY <1>2, <3>1 DEF Wrote
    <3>3. wakes' \in 0 .. MaxWakes
      BY <2>1, CountTypes DEF TypeOK
    <3> QED
      BY <1>3, <2>1, <3>1, <3>2, <3>3 DEF TypeOK, Wrote
  <2>2. CASE Admit(r) /\ UNCHANGED wakes
    <3>1. Wrote(r, "attached", r, inbox[r].target, inbox[r].settled)
      BY <2>2, AdmitEffects
    <3>2. Numbered' /\ at' \in [Requests -> 0 .. Cardinality(Requests)]
      BY <1>2, <3>1 DEF Wrote
    <3>3. /\ canon' \in [Requests -> Statuses] /\ current' = r /\ slot' = r
          /\ exec' \in [Requests -> ExecPCs] /\ context' \in [Requests -> SUBSET Requests]
          /\ input' \in Requests \cup {None} /\ fifo' \subseteq Requests
          /\ held' \in {None, r}
      BY <2>2, AdmitEffects
    <3>4. held' \in Requests \cup {None} /\ held' # "stop"
      BY <3>3, RequestNames
    <3> QED
      BY <1>3, <2>2, <3>1, <3>2, <3>3, <3>4 DEF TypeOK, Wrote
  <2> QED
    BY <1>4, <2>1, <2>2 DEF Submit
<1>5. CASE SubmitReplacement(r)
  <2>1. /\ current \in Requests \cup {None} /\ Enqueue(r, current) /\ Wake
        /\ UNCHANGED <<canon, current, held, slot, input, fifo, exec, context>>
    BY <1>5 DEF SubmitReplacement, TypeOK
  <2>2. Wrote(r, "pending", inbox[r].turn, current, inbox[r].settled)
    BY <2>1, EnqueueWrites
  <2>3. Numbered' /\ at' \in [Requests -> 0 .. Cardinality(Requests)]
    BY <1>2, <2>2 DEF Wrote
  <2>4. wakes' \in 0 .. MaxWakes
    BY <2>1, CountTypes
  <2> QED
    BY <1>3, <2>1, <2>2, <2>3, <2>4 DEF TypeOK, Wrote
<1>6. CASE SubmitSteer(r)
  <2>1. PICK t \in Requests : Steer(r, t)
    BY <1>6 DEF SubmitSteer
  <2>2. UNCHANGED <<canon, current, held, slot, input, exec, context, wakes>>
    BY <1>6 DEF SubmitSteer
  <2>3. Wrote(r, "attached", t, inbox[r].target, inbox[r].settled)
    BY <2>1, AttachWrites DEF Steer
  <2>4. Numbered' /\ at' \in [Requests -> 0 .. Cardinality(Requests)]
    BY <1>2, <2>3 DEF Wrote
  <2>5. fifo' \subseteq Requests
    BY <2>1 DEF Steer, TypeOK
  <2> QED
    BY <1>3, <2>2, <2>3, <2>4, <2>5 DEF TypeOK, Wrote
<1> QED
  BY <1>4, <1>5, <1>6

LEMMA ItemTypes ==
    ASSUME TypeOK, Numbered, NEW r \in Requests, Guide(r) \/ RetryItem(r) \/ RemoveItem(r)
    PROVE  TypeOK' /\ Numbered'
<1> USE DEF counted, disk
<1>1. ASSUME NEW s, NEW t, NEW g, NEW d, Wrote(r, s, t, g, d), r \in Pending, s # "none",
             UNCHANGED at
      PROVE  Numbered'
  <2>1. \A q \in Requests : inbox'[q].state = "none" <=> inbox[q].state = "none"
    BY <1>1 DEF Wrote, Pending
  <2> QED
    BY <1>1, <2>1, NumberedStays
<1>2. CASE Guide(r)
  <2>1. PICK t \in Requests : Steer(r, t)
    BY <1>2 DEF Guide
  <2>2. /\ UNCHANGED <<session, canon, current, at, held, slot, input, exec, context, result,
                       stop, wakes, stops, faults, crashes>>
        /\ r \in Pending
    BY <1>2 DEF Guide
  <2>3. Wrote(r, "attached", t, inbox[r].target, inbox[r].settled)
    BY <2>1, AttachWrites DEF Steer
  <2>4. fifo' \subseteq Requests
    BY <2>1 DEF Steer, TypeOK
  <2>5. TypeOK'
    BY <2>2, <2>3, <2>4 DEF TypeOK, Wrote
  <2> QED
    BY <1>1, <2>2, <2>3, <2>5
<1>3. CASE RetryItem(r)
  <2>1. /\ UNCHANGED <<session, canon, current, inbox, at, held, slot, input, fifo, exec,
                       context, result, stop, stops, faults, crashes>>
        /\ wakes' \in 0 .. MaxWakes
    BY <1>3, CountTypes DEF RetryItem
  <2>2. TypeOK'
    BY <2>1 DEF TypeOK
  <2> QED
    BY <2>1, <2>2, NumberedStays
<1>4. CASE RemoveItem(r)
  <2>1. /\ UNCHANGED <<session, current, at, slot, input, fifo, exec, context, result,
                       stops, faults, crashes>>
        /\ r \in Pending
    BY <1>4 DEF RemoveItem
  <2>2. CASE Unsettled(r)
    <3>1. current \in Requests /\ BeginStop("remove", current, r) /\ UNCHANGED <<inbox, wakes>>
      BY <1>4, <2>2 DEF RemoveItem, Unsettled, TypeOK
    <3>2. canon' \in [Requests -> Statuses] /\ stop' \in StopTasks /\ stop'.by = "remove"
          /\ held' = "stop"
      BY <3>1, BeginStopEffects
    <3>3. TypeOK'
      BY <2>1, <3>1, <3>2 DEF TypeOK
    <3> QED
      BY <2>1, <3>1, <3>3, NumberedStays
  <2>3. CASE ~Unsettled(r)
    <3>1. /\ inbox' = [inbox EXCEPT ![r].state = "cancelled"] /\ Wake
          /\ UNCHANGED <<canon, stop, held>>
      BY <1>4, <2>3 DEF RemoveItem
    <3>2. Wrote(r, "cancelled", inbox[r].turn, inbox[r].target, inbox[r].settled)
      BY <3>1, CancelWrites
    <3>3. wakes' \in 0 .. MaxWakes
      BY <3>1, CountTypes
    <3>4. TypeOK'
      BY <2>1, <3>1, <3>2, <3>3 DEF TypeOK, Wrote
    <3> QED
      BY <1>1, <2>1, <3>2, <3>4
  <2> QED
    BY <2>2, <2>3
<1> QED
  BY <1>2, <1>3, <1>4

LEMMA UserStopTypes ==
    ASSUME TypeOK, Numbered, StopByUser
    PROVE  TypeOK' /\ Numbered'
<1>1. /\ UNCHANGED <<session, current, inbox, at, slot, input, fifo, exec, context, result,
                     faults, crashes>>
      /\ stops' \in 0 .. MaxStops
  BY SessionTurnAssumption DEF StopByUser, TypeOK
<1>2. CASE Live(current)
  <2>1. /\ current \in Requests /\ None \in Requests \cup {None}
        /\ BeginStop("user", current, None) /\ UNCHANGED wakes
    BY <1>2 DEF StopByUser, Live, TypeOK
  <2>2. canon' \in [Requests -> Statuses] /\ stop' \in StopTasks /\ stop'.by = "user"
        /\ held' = "stop"
    BY <2>1, BeginStopEffects
  <2>3. TypeOK'
    BY <1>1, <2>1, <2>2 DEF TypeOK
  <2> QED
    BY <1>1, <2>3, NumberedStays
<1>3. CASE ~Live(current)
  <2>1. wakes' \in 0 .. MaxWakes /\ UNCHANGED <<canon, stop, held>>
    BY <1>3, CountTypes DEF StopByUser
  <2>2. TypeOK'
    BY <1>1, <2>1 DEF TypeOK
  <2> QED
    BY <1>1, <2>2, NumberedStays
<1> QED
  BY <1>2, <1>3

LEMMA QueueTypes ==
    ASSUME TypeOK, Numbered, OneReplacement, RunQueue
    PROVE  TypeOK' /\ Numbered'
<1>1. /\ UNCHANGED <<session, current, inbox, at, slot, input, fifo, exec, context, result,
                     stops, crashes>>
      /\ wakes' \in 0 .. MaxWakes /\ faults' \in 0 .. MaxFaults
  BY CountTypes DEF RunQueue, TypeOK
<1>2. Pending # {} => Head \in Requests
  BY HeadIsFirst DEF Pending
<1>3. /\ canon' \in [Requests -> Statuses] /\ held' \in Requests \cup {None, "stop"}
      /\ stop' \in StopTasks /\ (held' = "stop" <=> stop'.by # "none")
  <2>1. CASE UNCHANGED <<canon, held, stop>>
    BY <2>1 DEF TypeOK
  <2>2. CASE /\ Pending # {} /\ Unsettled(Head) /\ current = inbox[Head].target
             /\ BeginStop("drain", current, Head)
    <3>1. current \in Requests
      BY <2>2 DEF Unsettled, TypeOK
    <3> QED
      BY <1>2, <2>2, <3>1, BeginStopEffects
  <2>3. CASE /\ Pending # {} /\ UNCHANGED canon /\ held' = "stop"
             /\ stop' = [by |-> "admit", turn |-> None, item |-> Head]
    BY <1>2, <2>3 DEF StopTasks, TypeOK
  <2> QED
    BY <2>1, <2>2, <2>3 DEF RunQueue
<1>4. TypeOK'
  BY <1>1, <1>3 DEF TypeOK
<1> QED
  BY <1>1, <1>4, NumberedStays

LEMMA AdmitHeadTypes ==
    ASSUME TypeOK, Numbered, InputLives, StopKnows, AdmitHead
    PROVE  TypeOK' /\ Numbered'
<1> DEFINE r == stop.item
<1>1. /\ UNCHANGED <<session, at, result, stops, crashes>> /\ stop' = NoStop
      /\ r \in Requests /\ inbox[r].state = "pending" /\ inbox[r].tries < MaxTries
      /\ Dispatch(r)
  BY DEF AdmitHead, StopKnows, InputLives, InputLife, Pending
<1> HIDE DEF r
<1>2. ASSUME NEW s, NEW t, NEW g, NEW d, Wrote(r, s, t, g, d), s # "none"
      PROVE  Numbered'
  <2>1. \A q \in Requests : inbox'[q].state = "none" <=> inbox[q].state = "none"
    BY <1>1, <1>2 DEF Wrote
  <2> QED
    BY <1>1, <2>1, NumberedStays
<1>3. CASE Admit(r) /\ UNCHANGED <<wakes, faults>>
  <2>1. /\ canon' \in [Requests -> Statuses] /\ current' = r /\ slot' = r
        /\ exec' \in [Requests -> ExecPCs] /\ context' \in [Requests -> SUBSET Requests]
        /\ input' \in Requests \cup {None} /\ fifo' \subseteq Requests
        /\ held' \in {None, r}
        /\ Wrote(r, "attached", r, inbox[r].target, inbox[r].settled)
    BY <1>1, <1>3, AdmitEffects
  <2>2. held' \in Requests \cup {None} /\ held' # "stop"
    BY <1>1, <2>1, RequestNames
  <2>3. TypeOK'
    BY <1>1, <1>3, <2>1, <2>2, NoStopType DEF TypeOK, Wrote
  <2> QED
    BY <1>2, <2>1, <2>3
<1>4. CASE /\ CanFail /\ Fault /\ CountTry(r) /\ Wake /\ held' = None
           /\ UNCHANGED <<canon, current, slot, input, fifo, exec, context>>
  <2>1. PICK s \in {"pending", "cancelled"} :
           Wrote(r, s, inbox[r].turn, inbox[r].target, inbox[r].settled)
    BY <1>1, <1>4, CountTryWrites
  <2>2. wakes' \in 0 .. MaxWakes /\ faults' \in 0 .. MaxFaults
    BY <1>4, CountTypes
  <2>3. held' \in Requests \cup {None} /\ held' # "stop"
    BY <1>4, RequestNames
  <2>4. TypeOK'
    BY <1>1, <1>4, <2>1, <2>2, <2>3, NoStopType DEF TypeOK, Wrote
  <2> QED
    BY <1>2, <2>1, <2>4
<1> QED
  BY <1>1, <1>3, <1>4 DEF Dispatch

\* A stop ends with its resources released, or gives up and leaves them.
LEMMA FinishStopEffects ==
    ASSUME TypeOK, StopKnows, FinishStop
    PROVE  /\ held = "stop" /\ stop.turn \in Requests /\ ~Tracked(stop.turn)
           /\ stop.turn = current /\ slot \in {None, stop.turn} /\ ~Live(current)
           /\ UNCHANGED <<session, canon, current, at, exec, context, result, stops, crashes>>
           /\ inbox' \in [Requests -> Inputs] /\ stop' \in StopTasks
           /\ input' \in Requests \cup {None} /\ fifo' \subseteq Requests
           /\ wakes' \in 0 .. MaxWakes /\ faults' \in 0 .. MaxFaults
           /\ \/ /\ slot' = None /\ CloseInput(stop.turn)
                 /\ faults' = faults
                 /\ \/ /\ held' = None /\ stop' = NoStop
                       /\ UNCHANGED inbox
                    \/ /\ held' = None /\ stop' = NoStop
                       /\ stop.item \in Pending
                       /\ Wrote(stop.item, "cancelled", inbox[stop.item].turn,
                                inbox[stop.item].target, TRUE)
                       /\ inbox[stop.item].target = stop.turn
                    \/ /\ stop.by = "drain" /\ held' = "stop"
                       /\ stop'.by = "admit" /\ stop'.item = stop.item
                       /\ stop.item \in Pending
                       /\ Wrote(stop.item, inbox[stop.item].state, inbox[stop.item].turn,
                                inbox[stop.item].target, TRUE)
                       /\ inbox'[stop.item].tries = inbox[stop.item].tries
                       /\ inbox[stop.item].target = stop.turn
              \/ /\ stop.by \in {"remove", "drain"}
                 /\ held' = None /\ stop' = NoStop /\ faults' > 0
                 /\ UNCHANGED <<inbox, slot, input, fifo>>
<1>1. /\ held = "stop" /\ stop.by \in {"user", "remove", "drain"}
      /\ UNCHANGED <<session, canon, current, at, exec, context, result, stops, crashes>>
      /\ ~Tracked(stop.turn)
  BY DEF FinishStop, TypeOK, StopTasks, Quiet
<1>2. /\ stop.turn \in Requests /\ stop.turn = current /\ slot \in {None, stop.turn}
      /\ ~Live(current)
  BY <1>1 DEF StopKnows, TypeOK
<1>3. stop.by \in {"remove", "drain"} =>
         stop.item \in Requests /\ stop.item \in Pending /\ inbox[stop.item].target = stop.turn
  BY <1>1 DEF StopKnows, Replacements, Pending
<1>4. ASSUME CloseInput(stop.turn), Release(stop.turn)
      PROVE  input' \in Requests \cup {None} /\ fifo' \subseteq Requests /\ slot' = None
  <2>1. slot' = None
    BY <1>2, <1>4 DEF Release
  <2> QED
    BY <1>2, <1>4, <2>1, InputTypes
<1>5. CASE /\ stop.by = "user" /\ CloseInput(stop.turn) /\ Release(stop.turn)
           /\ stop' = NoStop /\ held' = None /\ Wake /\ UNCHANGED <<inbox, faults>>
  <2>1. wakes' \in 0 .. MaxWakes
    BY <1>5, CountTypes
  <2>2. inbox' \in [Requests -> Inputs] /\ faults' \in 0 .. MaxFaults /\ stop' \in StopTasks
    BY <1>5, NoStopType DEF TypeOK
  <2> QED
    BY <1>1, <1>2, <1>4, <1>5, <2>1, <2>2
<1>6. CASE /\ stop.by = "remove" /\ CloseInput(stop.turn) /\ Release(stop.turn)
           /\ inbox' = [inbox EXCEPT ![stop.item].settled = TRUE,
                                     ![stop.item].state = "cancelled"]
           /\ stop' = NoStop /\ held' = None /\ Wake /\ UNCHANGED faults
  <2>1. wakes' \in 0 .. MaxWakes
    BY <1>6, CountTypes
  <2>2. Wrote(stop.item, "cancelled", inbox[stop.item].turn, inbox[stop.item].target, TRUE)
    BY <1>3, <1>6, SettleWrites
  <2>3. inbox' \in [Requests -> Inputs] /\ faults' \in 0 .. MaxFaults /\ stop' \in StopTasks
    BY <1>6, <2>2, NoStopType DEF TypeOK, Wrote
  <2> QED
    BY <1>1, <1>2, <1>3, <1>4, <1>6, <2>1, <2>2, <2>3
<1>7. CASE /\ stop.by = "drain" /\ CloseInput(stop.turn) /\ Release(stop.turn)
           /\ inbox' = [inbox EXCEPT ![stop.item].settled = TRUE]
           /\ stop' = [by |-> "admit", turn |-> None, item |-> stop.item]
           /\ UNCHANGED <<held, wakes, faults>>
  <2>1. stop' \in StopTasks /\ stop'.by = "admit" /\ stop'.item = stop.item
    BY <1>3, <1>7 DEF StopTasks
  <2>2. /\ Wrote(stop.item, inbox[stop.item].state, inbox[stop.item].turn,
                 inbox[stop.item].target, TRUE)
        /\ inbox'[stop.item].tries = inbox[stop.item].tries
    BY <1>3, <1>7, SettleWrites
  <2>3. inbox' \in [Requests -> Inputs] /\ faults' \in 0 .. MaxFaults /\ wakes' \in 0 .. MaxWakes
    BY <1>7, <2>2 DEF TypeOK, Wrote
  <2> QED
    BY <1>1, <1>2, <1>3, <1>4, <1>7, <2>1, <2>2, <2>3
<1>8. CASE /\ stop.by # "user" /\ CanFail /\ Fault /\ stop' = NoStop /\ held' = None
           /\ UNCHANGED <<inbox, slot, input, fifo, wakes>>
  <2>1. faults' \in 0 .. MaxFaults /\ faults' > 0
    BY <1>8, CountTypes
  <2>2. /\ inbox' \in [Requests -> Inputs] /\ stop' \in StopTasks /\ wakes' \in 0 .. MaxWakes
        /\ input' \in Requests \cup {None} /\ fifo' \subseteq Requests
    BY <1>8, NoStopType DEF TypeOK
  <2> QED
    BY <1>1, <1>2, <1>8, <2>1, <2>2
<1> QED
  BY <1>5, <1>6, <1>7, <1>8 DEF FinishStop

LEMMA FinishStopTypes ==
    ASSUME TypeOK, Numbered, StopKnows, FinishStop
    PROVE  TypeOK' /\ Numbered'
<1>1. /\ held = "stop" /\ UNCHANGED <<session, canon, current, at, exec, context, result, stops, crashes>>
      /\ inbox' \in [Requests -> Inputs] /\ stop' \in StopTasks
      /\ input' \in Requests \cup {None} /\ fifo' \subseteq Requests
      /\ wakes' \in 0 .. MaxWakes /\ faults' \in 0 .. MaxFaults
      /\ slot \in {None, stop.turn} /\ stop.turn \in Requests
      /\ slot' \in {None, slot}
  BY FinishStopEffects
<1>2. (held' = None /\ stop' = NoStop) \/ (held' = "stop" /\ stop'.by = "admit")
  BY FinishStopEffects
<1>3. (held' = "stop" <=> stop'.by # "none") /\ held' \in Requests \cup {None, "stop"}
  BY <1>2, RequestNames, NoStopType
<1>4. TypeOK'
  BY <1>1, <1>3 DEF TypeOK
<1>5. \A q \in Requests : inbox'[q].state = "none" <=> inbox[q].state = "none"
  <2>1. CASE UNCHANGED inbox
    BY <2>1
  <2>2. CASE /\ stop.item \in Pending
             /\ \E s \in {"cancelled", inbox[stop.item].state} :
                  Wrote(stop.item, s, inbox[stop.item].turn, inbox[stop.item].target, TRUE)
    BY <2>2 DEF Wrote, Pending
  <2> QED
    BY <2>1, <2>2, FinishStopEffects
<1> QED
  BY <1>1, <1>4, <1>5, NumberedStays

LEMMA DeleteEffects ==
    ASSUME TypeOK, Delete
    PROVE  /\ held = None /\ session' = "deleted" /\ current' = None /\ slot' = None
           /\ input' = None /\ fifo' = {}
           /\ UNCHANGED <<at, held, exec, context, result, stop, wakes, stops, faults, crashes>>
           /\ canon' \in [Requests -> Statuses]
           /\ \A u \in Requests : canon'[u] = canon[u] \/ canon'[u] = "cancelled"
           /\ \A u \in Requests : canon'[u] = "none" <=> canon[u] = "none"
<1>1. /\ held = None /\ session' = "deleted" /\ current' = None /\ slot' = None
      /\ input' = None /\ fifo' = {}
      /\ UNCHANGED <<at, held, exec, context, result, stop, wakes, stops, faults, crashes>>
      /\ canon' = IF Live(current) THEN [canon EXCEPT ![current] = "cancelled"] ELSE canon
  BY DEF Delete, Free, counted
<1>2. CASE Live(current)
  <2>1. /\ current \in Requests /\ canon[current] # "none" /\ "cancelled" \in Statuses
        /\ canon' = [canon EXCEPT ![current] = "cancelled"]
    BY <1>1, <1>2 DEF Live, TypeOK, Statuses, Ended
  <2> QED
    BY <1>1, <2>1, CanonTypes
<1>3. CASE ~Live(current)
  BY <1>1, <1>3 DEF TypeOK
<1> QED
  BY <1>2, <1>3

LEMMA RestartEffects ==
    ASSUME TypeOK, Restart
    PROVE  /\ session = "active" /\ held' = None /\ stop' = NoStop /\ slot' = None /\ input' = None
           /\ fifo' = {}
           /\ UNCHANGED <<session, current, inbox, at, stops, faults>>
           /\ crashes' \in 0 .. MaxCrashes /\ wakes' \in 0 .. MaxWakes
           /\ exec' \in [Requests -> ExecPCs] /\ context' \in [Requests -> SUBSET Requests]
           /\ result' \in [Requests -> {"none"} \cup Ended]
           /\ \A t \in Requests :
                 /\ exec'[t] \in {"none", "done"} /\ context'[t] = {} /\ result'[t] = "none"
                 /\ exec[t] = "none" => exec'[t] = "none"
           /\ canon' \in [Requests -> Statuses] /\ ~Live(current)'
           /\ \A u \in Requests : canon'[u] = canon[u] \/ canon'[u] = "cancelled"
           /\ \A u \in Requests : canon'[u] = "none" <=> canon[u] = "none"
<1>1. /\ session = "active" /\ held' = None /\ stop' = NoStop /\ slot' = None /\ input' = None
      /\ fifo' = {}
      /\ UNCHANGED <<session, current, inbox, at, stops, faults>>
      /\ canon' = IF Live(current) THEN [canon EXCEPT ![current] = "cancelled"] ELSE canon
  BY DEF Restart
<1>2. crashes' \in 0 .. MaxCrashes /\ wakes' \in 0 .. MaxWakes
  BY SessionTurnAssumption DEF Restart, TypeOK
<1>3. \A t \in Requests :
         /\ exec'[t] \in {"none", "done"} /\ context'[t] = {} /\ result'[t] = "none"
         /\ exec[t] = "none" => exec'[t] = "none"
  BY DEF Restart
<1>4. "none" \in ExecPCs /\ "done" \in ExecPCs
  BY DEF ExecPCs
<1>5. /\ exec' \in [Requests -> ExecPCs] /\ context' \in [Requests -> SUBSET Requests]
      /\ result' \in [Requests -> {"none"} \cup Ended]
  BY <1>4 DEF Restart
<1>6. /\ canon' \in [Requests -> Statuses] /\ ~Live(current)'
      /\ \A u \in Requests : canon'[u] = canon[u] \/ canon'[u] = "cancelled"
      /\ \A u \in Requests : canon'[u] = "none" <=> canon[u] = "none"
  <2>1. CASE Live(current)
    <3>1. /\ current \in Requests /\ canon[current] # "none" /\ "cancelled" \in Statuses
          /\ canon' = [canon EXCEPT ![current] = "cancelled"]
      BY <1>1, <2>1 DEF Live, TypeOK, Statuses, Ended
    <3>2. /\ canon' \in [Requests -> Statuses] /\ canon'[current] = "cancelled"
          /\ \A u \in Requests : u # current => canon'[u] = canon[u]
      BY <3>1, CanonTypes
    <3>3. ~Live(current)'
      BY <1>1, <3>2 DEF Live
    <3> QED
      BY <3>1, <3>2, <3>3
  <2>2. CASE ~Live(current)
    BY <1>1, <2>2 DEF TypeOK, Live
  <2> QED
    BY <2>1, <2>2
<1> QED
  BY <1>1, <1>2, <1>3, <1>5, <1>6

LEMMA EndTypes ==
    ASSUME TypeOK, Numbered, Delete \/ Restart
    PROVE  TypeOK' /\ Numbered'
<1>1. CASE Delete
  <2>1. /\ inbox' \in [Requests -> Inputs]
        /\ \A r \in Requests : inbox'[r].state =
              IF inbox[r].state = "pending" THEN "cancelled" ELSE inbox[r].state
    BY <1>1, DeleteWrites
  <2>2. TypeOK'
    BY <1>1, <2>1, DeleteEffects DEF TypeOK
  <2>3. \A r \in Requests : inbox'[r].state = "none" <=> inbox[r].state = "none"
    BY <2>1
  <2> QED
    BY <1>1, <2>2, <2>3, DeleteEffects, NumberedStays
<1>2. CASE Restart
  <2>1. (held' = "stop" <=> stop'.by # "none") /\ stop' \in StopTasks
        /\ held' \in Requests \cup {None, "stop"}
    BY <1>2, RestartEffects, NoStopType, RequestNames
  <2>2. /\ canon' \in [Requests -> Statuses]
        /\ exec' \in [Requests -> ExecPCs] /\ context' \in [Requests -> SUBSET Requests]
        /\ result' \in [Requests -> {"none"} \cup Ended]
        /\ crashes' \in 0 .. MaxCrashes /\ wakes' \in 0 .. MaxWakes
        /\ slot' = None /\ input' = None /\ fifo' = {}
        /\ UNCHANGED <<session, current, inbox, at, stops, faults>>
    BY <1>2, RestartEffects
  <2>3. TypeOK'
    BY <2>1, <2>2 DEF TypeOK
  <2> QED
    BY <1>2, <2>2, <2>3, NumberedStays
<1> QED
  BY <1>1, <1>2

-----------------------------------------------------------------------------
(* The life of the inputs *)

LEMMA ExecutorKeepsNames ==
    ASSUME TypeOK, InputLives, NEW t \in Requests, ExecutorMoves(t)
    PROVE  /\ \A u \in Requests : canon'[u] = "none" <=> canon[u] = "none"
           /\ \A u \in Requests : Live(u)' => Live(u)
           /\ canon[t] # "none"
<1>1. \A u \in Requests : u # t => canon'[u] = canon[u]
  BY DEF ExecutorMoves, CanonMoves
<1>2. canon[t] # "none"
  BY DEF ExecutorMoves, ExecMoves, InputLives, InputLife
<1>3. canon'[t] # "none" /\ (Live(t)' => Live(t))
  BY <1>2 DEF ExecutorMoves, CanonMoves, Writable, Live, Ended
<1> QED
  BY <1>1, <1>2, <1>3 DEF Live

LEMMA ExecutorKeepsPending ==
    ASSUME TypeOK, InputLives, HeardAreOwn, NEW t \in Requests, ExecutorMoves(t)
    PROVE  /\ \A r \in Requests :
                /\ inbox'[r].state # inbox[r].state =>
                     inbox[r].state \in {"attached", "consumed"} /\ inbox'[r].state = "consumed"
                /\ inbox'[r].turn = inbox[r].turn /\ inbox'[r].target = inbox[r].target
                /\ inbox'[r].settled = inbox[r].settled /\ inbox'[r].tries = inbox[r].tries
           /\ Pending' = Pending /\ Replacements' = Replacements
<1>1. \A r \in Requests :
         /\ inbox'[r].state \in {inbox[r].state, "consumed"}
         /\ inbox'[r].state # inbox[r].state => r \in context[t]
         /\ inbox'[r].turn = inbox[r].turn /\ inbox'[r].target = inbox[r].target
         /\ inbox'[r].settled = inbox[r].settled /\ inbox'[r].tries = inbox[r].tries
  BY DEF ExecutorMoves, InputsMove
<1>2. \A r \in Requests : r \in context[t] => inbox[r].state \in {"attached", "consumed"}
  BY RequestNames DEF HeardAreOwn, InputLives, InputLife
<1>3. Pending' = Pending
  BY <1>1, <1>2 DEF Pending
<1>4. Replacements' = Replacements
  BY <1>1, <1>3 DEF Replacements, Pending
<1> QED
  BY <1>1, <1>2, <1>3, <1>4

LEMMA ExecutorInbox ==
    ASSUME TypeOK, InputLives, Numbered, OneReplacement, HeardAreOwn, NEW t \in Requests,
           ExecutorMoves(t)
    PROVE  InboxInv'
<1>1. /\ \A u \in Requests : canon'[u] = "none" <=> canon[u] = "none"
      /\ canon[t] # "none"
  BY ExecutorKeepsNames
<1>2. /\ \A r \in Requests :
           /\ inbox'[r].state # inbox[r].state =>
                inbox[r].state \in {"attached", "consumed"} /\ inbox'[r].state = "consumed"
           /\ inbox'[r].turn = inbox[r].turn /\ inbox'[r].target = inbox[r].target
           /\ inbox'[r].settled = inbox[r].settled /\ inbox'[r].tries = inbox[r].tries
      /\ Replacements' = Replacements
  BY ExecutorKeepsPending
<1>3. /\ \A u \in Requests : u # t => exec'[u] = exec[u] /\ result'[u] = result[u]
      /\ exec'[t] = "settling" => result'[t] # "none"
      /\ UNCHANGED at
  BY DEF ExecutorMoves, ExecMoves, ResultMoves
<1>4. \A r \in Requests : inbox[r].turn \in Requests \cup {None}
                          /\ inbox[r].target \in Requests \cup {None}
  BY DEF TypeOK, Inputs
<1>5. ASSUME NEW r \in Requests PROVE InputLife(r)'
  <2>1. InputLife(r)
    BY DEF InputLives
  <2>2. /\ inbox'[r].state \in {"none", "pending"} => canon'[r] = "none" /\ inbox'[r].tries < MaxTries
        /\ inbox'[r].state = "none" => inbox'[r].target = None /\ ~inbox'[r].settled
        /\ inbox'[r].turn # None <=> inbox'[r].state \in {"attached", "consumed"}
    BY <1>1, <1>2, <2>1 DEF InputLife
  <2>3. /\ inbox'[r].turn # None => canon'[inbox'[r].turn] # "none"
        /\ inbox'[r].target # None => canon'[inbox'[r].target] # "none"
    BY <1>1, <1>2, <1>4, <2>1 DEF InputLife
  <2>4. /\ canon'[r] = "none" => exec'[r] = "none" /\ result'[r] = "none"
        /\ exec'[r] = "settling" => result'[r] # "none"
    BY <1>1, <1>3, <2>1 DEF InputLife
  <2> QED
    BY <2>2, <2>3, <2>4 DEF InputLife
<1>6. \A r \in Requests : inbox'[r].state = "none" <=> inbox[r].state = "none"
  BY <1>2
<1> QED
  BY <1>2, <1>3, <1>5, <1>6, NumberedStays DEF InboxInv, InputLives, OneReplacement

\* One input is written and no Turn or executor begins.
LEMMA WroteLives ==
    ASSUME TypeOK, InputLives, NEW r \in Requests,
           NEW s, NEW t \in Requests \cup {None}, NEW g \in Requests \cup {None}, NEW d,
           Wrote(r, s, t, g, d), UNCHANGED <<exec, result>>,
           \A u \in Requests : canon'[u] = "none" <=> canon[u] = "none",
           s \in {"none", "pending"} => canon[r] = "none" /\ inbox'[r].tries < MaxTries,
           s # "none",
           t # None <=> s \in {"attached", "consumed"},
           t # None => canon[t] # "none",
           g # None => canon[g] # "none"
    PROVE  InputLives'
<1>1. \A q \in Requests : inbox[q].turn \in Requests \cup {None}
                          /\ inbox[q].target \in Requests \cup {None}
  BY DEF TypeOK, Inputs
<1>2. ASSUME NEW q \in Requests PROVE InputLife(q)'
  <2>1. InputLife(q)
    BY DEF InputLives
  <2>2. CASE q # r
    <3>1. inbox'[q] = inbox[q]
      BY <2>2 DEF Wrote
    <3> QED
      BY <1>1, <2>1, <3>1 DEF InputLife
  <2>3. CASE q = r
    <3>1. /\ inbox'[r].state = s /\ inbox'[r].turn = t /\ inbox'[r].target = g
      BY DEF Wrote
    <3>2. InputLife(r)
      BY <2>1, <2>3
    <3>3. InputLife(r)'
      BY <3>1, <3>2 DEF InputLife
    <3> QED
      BY <2>3, <3>3
  <2> QED
    BY <2>2, <2>3
<1> QED
  BY <1>2 DEF InputLives

\* An admission begins the Turn of its input.
LEMMA AdmitLives ==
    ASSUME TypeOK, InputLives, NEW r \in Requests, Admit(r), UNCHANGED result,
           inbox[r].state \in {"none", "pending"}
    PROVE  InputLives'
<1>1. /\ canon'[r] = "accepted" /\ \A u \in Requests : u # r => canon'[u] = canon[u]
      /\ Wrote(r, "attached", r, inbox[r].target, inbox[r].settled)
      /\ \A u \in Requests : u # r => exec'[u] = exec[u]
      /\ exec'[r] = "spawned" \/ UNCHANGED exec
  BY AdmitEffects
<1>2. \A q \in Requests : inbox[q].turn \in Requests \cup {None}
                          /\ inbox[q].target \in Requests \cup {None}
  BY DEF TypeOK, Inputs
<1>3. canon[r] = "none" /\ exec[r] = "none" /\ result[r] = "none"
  BY DEF InputLives, InputLife
<1>4. \A u \in Requests : canon[u] # "none" => canon'[u] # "none"
  BY <1>1
<1>5. ASSUME NEW q \in Requests PROVE InputLife(q)'
  <2>1. InputLife(q)
    BY DEF InputLives
  <2>2. CASE q # r
    <3>1. inbox'[q] = inbox[q] /\ exec'[q] = exec[q] /\ canon'[q] = canon[q] /\ result'[q] = result[q]
      BY <1>1, <2>2 DEF Wrote
    <3> QED
      BY <1>2, <1>4, <2>1, <3>1 DEF InputLife
  <2>3. CASE q = r
    <3>1. /\ inbox'[r].state = "attached" /\ inbox'[r].turn = r /\ inbox'[r].target = inbox[r].target
          /\ exec'[r] \in {"none", "spawned"} /\ canon'[r] # "none" /\ r # None
      BY <1>1, <1>3, RequestNames DEF Wrote
    <3>2. inbox[r].target # None => canon'[inbox[r].target] # "none"
      BY <1>2, <1>4, <2>1, <2>3 DEF InputLife
    <3>3. InputLife(r)'
      BY <3>1, <3>2 DEF InputLife
    <3> QED
      BY <2>3, <3>3
  <2> QED
    BY <2>2, <2>3
<1> QED
  BY <1>5 DEF InputLives

LEMMA FewerReplacements ==
    ASSUME OneReplacement, NEW r \in Requests, NEW s, NEW t, NEW g, NEW d, Wrote(r, s, t, g, d),
           s = "pending" /\ g # None => r \in Replacements
    PROVE  OneReplacement'
<1>1. Replacements' \subseteq Replacements
  BY DEF Wrote, Replacements, Pending
<1> QED
  BY <1>1 DEF OneReplacement

LEMMA SubmitInbox ==
    ASSUME TypeOK, InboxInv, NEW r \in Requests,
           Submit(r) \/ SubmitReplacement(r) \/ SubmitSteer(r)
    PROVE  InputLives' /\ OneReplacement'
<1> USE DEF InboxInv
<1>1. /\ inbox[r].state = "none" /\ inbox[r].turn = None /\ inbox[r].target = None
      /\ canon[r] = "none" /\ inbox[r].tries < MaxTries
      /\ inbox[r].turn \in Requests \cup {None}
  BY DEF Submit, SubmitReplacement, SubmitSteer, Unknown, InputLives, InputLife
<1>2. CASE Submit(r)
  <2>1. CASE Enqueue(r, None) /\ UNCHANGED <<canon, exec, result>>
    <3>1. /\ Wrote(r, "pending", inbox[r].turn, None, inbox[r].settled)
          /\ inbox'[r].tries = inbox[r].tries
      BY <2>1, EnqueueWrites
    <3>2. InputLives'
      BY <1>1, <2>1, <3>1, WroteLives
    <3> QED
      BY <1>1, <3>1, <3>2, FewerReplacements
  <2>2. CASE Admit(r) /\ UNCHANGED result
    <3>1. Wrote(r, "attached", r, inbox[r].target, inbox[r].settled)
      BY <2>2, AdmitEffects
    <3> QED
      BY <1>1, <2>2, <3>1, AdmitLives, FewerReplacements
  <2> QED
    BY <1>2, <2>1, <2>2 DEF Submit
<1>3. CASE SubmitReplacement(r)
  <2>1. /\ current \in Requests /\ canon[current] # "none" /\ Enqueue(r, current)
        /\ Replacements = {} /\ UNCHANGED <<canon, exec, result>>
    BY <1>3 DEF SubmitReplacement, Live, TypeOK
  <2>2. /\ Wrote(r, "pending", inbox[r].turn, current, inbox[r].settled)
        /\ inbox'[r].tries = inbox[r].tries
    BY <2>1, EnqueueWrites
  <2>3. InputLives'
    BY <1>1, <2>1, <2>2, WroteLives
  <2>4. Replacements' \subseteq {r}
    BY <2>1, <2>2 DEF Wrote, Replacements, Pending
  <2> QED
    BY <2>3, <2>4 DEF OneReplacement
<1>4. CASE SubmitSteer(r)
  <2>1. PICK t \in Requests : Steer(r, t)
    BY <1>4 DEF SubmitSteer
  <2>2. /\ UNCHANGED <<canon, exec, result>> /\ canon[t] # "none" /\ t # None /\ Attach(r, t)
    BY <1>4, <2>1, RequestNames DEF SubmitSteer, Steer, Writable, Live
  <2>3. Wrote(r, "attached", t, inbox[r].target, inbox[r].settled)
    BY <2>2, AttachWrites
  <2>4. InputLives'
    BY <1>1, <2>2, <2>3, WroteLives
  <2> QED
    BY <2>3, <2>4, FewerReplacements
<1> QED
  BY <1>2, <1>3, <1>4

LEMMA ItemInbox ==
    ASSUME TypeOK, InboxInv, NEW r \in Requests, Guide(r) \/ RetryItem(r) \/ RemoveItem(r)
    PROVE  InputLives' /\ OneReplacement'
<1> USE DEF InboxInv
<1>1. /\ inbox[r].state = "pending" /\ inbox[r].turn = None
      /\ canon[r] = "none" /\ inbox[r].tries < MaxTries
      /\ inbox[r].turn \in Requests \cup {None} /\ inbox[r].target \in Requests \cup {None}
      /\ inbox[r].target # None => canon[inbox[r].target] # "none"
  BY DEF Guide, RetryItem, RemoveItem, Pending, Replacements, InputLives, InputLife, TypeOK, Inputs
<1>2. CASE Guide(r)
  <2>1. PICK t \in Requests : Steer(r, t)
    BY <1>2 DEF Guide
  <2>2. /\ UNCHANGED <<canon, exec, result>> /\ canon[t] # "none" /\ t # None /\ Attach(r, t)
    BY <1>2, <2>1, RequestNames DEF Guide, Steer, Writable, Live
  <2>3. Wrote(r, "attached", t, inbox[r].target, inbox[r].settled)
    BY <2>2, AttachWrites
  <2>4. InputLives'
    BY <1>1, <2>2, <2>3, WroteLives
  <2> QED
    BY <2>3, <2>4, FewerReplacements
<1>3. CASE UNCHANGED <<inbox, exec, result>> /\ \A u \in Requests : canon'[u] = "none" <=> canon[u] = "none"
  <2>1. Wrote(r, inbox[r].state, inbox[r].turn, inbox[r].target, inbox[r].settled)
    BY <1>3 DEF Wrote, TypeOK
  <2>2. inbox'[r].tries = inbox[r].tries
    BY <1>3
  <2>3. InputLives'
    BY <1>1, <1>3, <2>1, <2>2, WroteLives
  <2>4. OneReplacement'
    BY <1>3 DEF OneReplacement, Replacements, Pending
  <2> QED
    BY <2>3, <2>4
<1>4. CASE RemoveItem(r) /\ Unsettled(r)
  <2>1. /\ current \in Requests /\ BeginStop("remove", current, r) /\ UNCHANGED <<inbox, exec, result>>
    BY <1>4 DEF RemoveItem, Unsettled, TypeOK
  <2>2. \A u \in Requests : canon'[u] = "none" <=> canon[u] = "none"
    BY <2>1, BeginStopEffects
  <2> QED
    BY <1>3, <2>1, <2>2
<1>5. CASE RemoveItem(r) /\ ~Unsettled(r)
  <2>1. /\ inbox' = [inbox EXCEPT ![r].state = "cancelled"] /\ UNCHANGED <<canon, exec, result>>
    BY <1>5 DEF RemoveItem
  <2>2. Wrote(r, "cancelled", inbox[r].turn, inbox[r].target, inbox[r].settled)
    BY <2>1, CancelWrites
  <2>3. InputLives'
    BY <1>1, <2>1, <2>2, WroteLives
  <2> QED
    BY <2>2, <2>3, FewerReplacements
<1>6. CASE RetryItem(r)
  <2>1. UNCHANGED <<inbox, exec, result, canon>>
    BY <1>6 DEF RetryItem, disk
  <2> QED
    BY <1>3, <2>1
<1> QED
  BY <1>2, <1>4, <1>5, <1>6

\* The queue task and the stops.
LEMMA NamesInbox ==
    ASSUME TypeOK, InboxInv, UNCHANGED <<inbox, result>>,
           \A u \in Requests : canon'[u] = "none" <=> canon[u] = "none",
           UNCHANGED exec
    PROVE  InputLives' /\ OneReplacement'
<1> USE DEF InboxInv
<1>1. \A q \in Requests : inbox[q].turn \in Requests \cup {None}
                          /\ inbox[q].target \in Requests \cup {None}
  BY DEF TypeOK, Inputs
<1>2. ASSUME NEW q \in Requests PROVE InputLife(q)'
  BY <1>1 DEF InputLives, InputLife
<1> QED
  BY <1>2 DEF InputLives, OneReplacement, Replacements, Pending

LEMMA StopInbox ==
    ASSUME TypeOK, InboxInv, StopByUser \/ RunQueue
    PROVE  InputLives' /\ OneReplacement'
<1>1. UNCHANGED <<inbox, result, exec>>
  BY DEF StopByUser, RunQueue
<1>2. \A u \in Requests : canon'[u] = "none" <=> canon[u] = "none"
  <2>1. CASE UNCHANGED canon
    BY <2>1
  <2>2. CASE Live(current) /\ BeginStop("user", current, None)
    <3>1. current \in Requests
      BY <2>2 DEF Live, TypeOK
    <3> QED
      BY <2>2, <3>1, BeginStopEffects
  <2>3. CASE /\ Pending # {} /\ Unsettled(Head) /\ current = inbox[Head].target
             /\ BeginStop("drain", current, Head)
    <3>1. Head \in Requests
      BY <2>3, HeadIsFirst DEF Pending, InboxInv
    <3>2. current \in Requests
      BY <2>3, <3>1 DEF Unsettled, TypeOK
    <3> QED
      BY <2>3, <3>1, <3>2, BeginStopEffects
  <2> QED
    BY <2>1, <2>2, <2>3 DEF StopByUser, RunQueue
<1> QED
  BY <1>1, <1>2, NamesInbox

LEMMA AdmitHeadInbox ==
    ASSUME TypeOK, InboxInv, StopKnows, AdmitHead
    PROVE  InputLives' /\ OneReplacement'
<1> USE DEF InboxInv
<1> DEFINE r == stop.item
<1>1. /\ UNCHANGED result /\ r \in Requests /\ inbox[r].state = "pending" /\ Dispatch(r)
      /\ inbox[r].tries < MaxTries /\ canon[r] = "none" /\ inbox[r].turn = None
      /\ inbox[r].turn \in Requests \cup {None} /\ inbox[r].target \in Requests \cup {None}
      /\ inbox[r].target # None => canon[inbox[r].target] # "none"
  BY DEF AdmitHead, StopKnows, Pending, InputLives, InputLife, TypeOK, Inputs
<1> HIDE DEF r
<1>2. CASE Admit(r)
  <2>1. Wrote(r, "attached", r, inbox[r].target, inbox[r].settled)
    BY <1>1, <1>2, AdmitEffects
  <2> QED
    BY <1>1, <1>2, <2>1, AdmitLives, FewerReplacements
<1>3. CASE CountTry(r) /\ UNCHANGED <<canon, exec>>
  <2>1. PICK s \in {"pending", "cancelled"} :
           /\ Wrote(r, s, inbox[r].turn, inbox[r].target, inbox[r].settled)
           /\ s = "pending" => inbox'[r].tries < MaxTries
    BY <1>1, <1>3, CountTryWrites
  <2>2. InputLives'
    BY <1>1, <1>3, <2>1, WroteLives
  <2>3. s = "pending" /\ inbox[r].target # None => r \in Replacements
    BY <1>1 DEF Replacements, Pending
  <2> QED
    BY <1>1, <2>1, <2>2, <2>3, FewerReplacements
<1> QED
  BY <1>1, <1>2, <1>3 DEF Dispatch

LEMMA FinishStopInbox ==
    ASSUME TypeOK, InboxInv, StopKnows, FinishStop
    PROVE  InputLives' /\ OneReplacement'
<1>1. UNCHANGED <<canon, exec, result>>
  BY DEF FinishStop
<1>2. CASE UNCHANGED inbox
  BY <1>1, <1>2, NamesInbox
<1>3. CASE /\ stop.item \in Pending /\ inbox[stop.item].target = stop.turn
           /\ \/ Wrote(stop.item, "cancelled", inbox[stop.item].turn, inbox[stop.item].target, TRUE)
              \/ /\ Wrote(stop.item, inbox[stop.item].state, inbox[stop.item].turn,
                          inbox[stop.item].target, TRUE)
                 /\ inbox'[stop.item].tries = inbox[stop.item].tries
  <2> DEFINE r == stop.item
  <2>1. /\ r \in Requests /\ inbox[r].state = "pending" /\ inbox[r].tries < MaxTries
        /\ canon[r] = "none" /\ inbox[r].turn = None
        /\ inbox[r].turn \in Requests \cup {None} /\ inbox[r].target \in Requests \cup {None}
        /\ inbox[r].target # None => canon[inbox[r].target] # "none"
    BY <1>3 DEF Pending, InboxInv, InputLives, InputLife, TypeOK, Inputs
  <2>2. PICK s \in {"pending", "cancelled"} :
           /\ Wrote(r, s, inbox[r].turn, inbox[r].target, TRUE)
           /\ s = "pending" => inbox'[r].tries < MaxTries
    BY <1>3, <2>1
  <2> HIDE DEF r
  <2>3. InputLives'
    BY <1>1, <2>1, <2>2, WroteLives DEF InboxInv
  <2>4. s = "pending" /\ inbox[r].target # None => r \in Replacements
    BY <2>1 DEF Replacements, Pending
  <2> QED
    BY <2>1, <2>2, <2>3, <2>4, FewerReplacements DEF InboxInv
<1> QED
  BY <1>2, <1>3, FinishStopEffects

LEMMA EndInbox ==
    ASSUME TypeOK, InboxInv, Delete \/ Restart
    PROVE  InputLives' /\ OneReplacement'
<1>1. \A q \in Requests : inbox[q].turn \in Requests \cup {None}
                          /\ inbox[q].target \in Requests \cup {None}
  BY DEF TypeOK, Inputs
<1>2. CASE Delete
  <2>1. \A r \in Requests :
           /\ inbox'[r].state = IF inbox[r].state = "pending" THEN "cancelled" ELSE inbox[r].state
           /\ inbox'[r].turn = inbox[r].turn /\ inbox'[r].target = inbox[r].target
           /\ inbox'[r].settled = inbox[r].settled /\ inbox'[r].tries = inbox[r].tries
    BY <1>2, DeleteWrites
  <2>2. /\ UNCHANGED <<exec, result>>
        /\ \A u \in Requests : canon'[u] = "none" <=> canon[u] = "none"
    BY <1>2, DeleteEffects
  <2>3. ASSUME NEW r \in Requests PROVE InputLife(r)'
    <3>1. InputLife(r)
      BY DEF InboxInv, InputLives
    <3> QED
      BY <1>1, <2>1, <2>2, <3>1 DEF InputLife
  <2>4. Replacements' \subseteq Replacements
    BY <2>1 DEF Replacements, Pending
  <2> QED
    BY <2>3, <2>4 DEF InboxInv, InputLives, OneReplacement
<1>3. CASE Restart
  <2>1. /\ UNCHANGED inbox
        /\ \A t \in Requests : /\ exec'[t] \in {"none", "done"} /\ result'[t] = "none"
                               /\ exec[t] = "none" => exec'[t] = "none"
        /\ \A u \in Requests : canon'[u] = "none" <=> canon[u] = "none"
    BY <1>3, RestartEffects
  <2>2. ASSUME NEW r \in Requests PROVE InputLife(r)'
    <3>1. InputLife(r)
      BY DEF InboxInv, InputLives
    <3> QED
      BY <1>1, <2>1, <3>1 DEF InputLife
  <2> QED
    BY <2>1, <2>2 DEF InboxInv, InputLives, OneReplacement, Replacements, Pending
<1> QED
  BY <1>2, <1>3

-----------------------------------------------------------------------------
(* Executors do not overlap *)

LEMMA NoneIsTracked ==
    ASSUME ExecutorOwns, session = "active", slot = None
    PROVE  \A t \in Requests : ~Tracked(t)
BY RequestNames DEF ExecutorOwns

LEMMA ExecutorKeepsExec ==
    ASSUME TypeOK, InputLives, HeardAreOwn, ExecInv, NEW t \in Requests, ExecutorMoves(t)
    PROVE  ExecInv'
<1>1. \A u \in Requests : Tracked(u)' => Tracked(u)
  BY DEF ExecutorMoves, ExecMoves, Tracked
<1>2. \A r \in Requests : inbox'[r].settled = inbox[r].settled /\ inbox'[r].target = inbox[r].target
  BY ExecutorKeepsPending
<1>3. \A r \in Requests : inbox[r].target \in Requests \cup {None}
  BY DEF TypeOK, Inputs
<1>4. ExecutorOwns'
  <2>1. session' = session /\ (slot' = slot \/ (slot = t /\ ~Tracked(t)))
    BY DEF ExecutorMoves, CanonMoves
  <2> QED
    BY <1>1, <2>1 DEF ExecInv, ExecutorOwns
<1>5. OneExecutor'
  BY <1>1 DEF ExecInv, OneExecutor
<1>6. SettledIsQuiet'
  BY <1>1, <1>2, <1>3 DEF ExecInv, SettledIsQuiet
<1> QED
  BY <1>4, <1>5, <1>6 DEF ExecInv

LEMMA ExecStays ==
    ASSUME ExecInv, UNCHANGED <<session, slot, exec>>,
           \A r \in Requests :
              inbox'[r].settled => inbox[r].settled /\ inbox'[r].target = inbox[r].target
    PROVE  ExecInv'
<1>1. \A u : Tracked(u)' <=> Tracked(u)
  BY DEF Tracked
<1> QED
  BY <1>1 DEF ExecInv, ExecutorOwns, OneExecutor, SettledIsQuiet

LEMMA WroteExec ==
    ASSUME ExecInv, UNCHANGED <<session, slot, exec>>,
           NEW r \in Requests, NEW s, NEW t, NEW g, Wrote(r, s, t, g, inbox[r].settled),
           g = inbox[r].target \/ ~inbox[r].settled
    PROVE  ExecInv'
<1>1. \A q \in Requests :
         inbox'[q].settled => inbox[q].settled /\ inbox'[q].target = inbox[q].target
  BY DEF Wrote
<1> QED
  BY <1>1, ExecStays

LEMMA AdmitExec ==
    ASSUME TypeOK, InputLives, ExecInv, NEW r \in Requests, Admit(r), UNCHANGED session,
           session = "active", inbox[r].state \in {"none", "pending"}
    PROVE  ExecInv'
<1>1. /\ slot = None /\ slot' = r
      /\ Wrote(r, "attached", r, inbox[r].target, inbox[r].settled)
      /\ \A u \in Requests : u # r => exec'[u] = exec[u]
  BY AdmitEffects
<1>2. \A u \in Requests : ~Tracked(u)
  BY <1>1, NoneIsTracked DEF ExecInv
<1>3. \A u \in Requests : Tracked(u)' => u = r
  BY <1>1, <1>2 DEF Tracked
<1>4. ASSUME NEW q \in Requests, inbox'[q].settled
      PROVE  inbox'[q].target # None /\ ~Tracked(inbox[q].target)'
  <2>1. /\ inbox'[q].target = inbox[q].target /\ inbox[q].settled
        /\ inbox[q].target \in Requests \cup {None}
    BY <1>1, <1>4 DEF Wrote, TypeOK, Inputs
  <2>2. inbox[q].target # None /\ canon[inbox[q].target] # "none"
    BY <2>1 DEF ExecInv, SettledIsQuiet, InputLives, InputLife
  <2>3. inbox[q].target # r
    BY <2>2 DEF InputLives, InputLife
  <2> QED
    BY <1>3, <2>1, <2>2, <2>3 DEF Tracked
<1>5. ExecutorOwns'
  BY <1>1, <1>3 DEF ExecutorOwns
<1>6. OneExecutor'
  BY <1>3 DEF OneExecutor
<1> QED
  BY <1>4, <1>5, <1>6 DEF ExecInv, SettledIsQuiet

LEMMA SubmitExec ==
    ASSUME TypeOK, InboxInv, ExecInv, NEW r \in Requests,
           Submit(r) \/ SubmitReplacement(r) \/ SubmitSteer(r)
    PROVE  ExecInv'
<1>1. /\ inbox[r].state = "none" /\ ~inbox[r].settled /\ session = "active" /\ UNCHANGED session
      /\ InputLives
  BY DEF Submit, SubmitReplacement, SubmitSteer, Unknown, Free, InboxInv, InputLives, InputLife
<1>2. CASE Submit(r)
  <2>1. CASE Enqueue(r, None) /\ UNCHANGED <<slot, exec>>
    <3>1. Wrote(r, "pending", inbox[r].turn, None, inbox[r].settled)
      BY <2>1, EnqueueWrites
    <3> QED
      BY <1>1, <2>1, <3>1, WroteExec
  <2>2. CASE Admit(r)
    BY <1>1, <2>2, AdmitExec
  <2> QED
    BY <1>2, <2>1, <2>2 DEF Submit
<1>3. CASE SubmitReplacement(r)
  <2>1. /\ current \in Requests \cup {None} /\ Enqueue(r, current) /\ UNCHANGED <<slot, exec>>
    BY <1>3 DEF SubmitReplacement, TypeOK
  <2>2. Wrote(r, "pending", inbox[r].turn, current, inbox[r].settled)
    BY <2>1, EnqueueWrites
  <2> QED
    BY <1>1, <2>1, <2>2, WroteExec
<1>4. CASE SubmitSteer(r)
  <2>1. PICK t \in Requests : Steer(r, t)
    BY <1>4 DEF SubmitSteer
  <2>2. UNCHANGED <<slot, exec>>
    BY <1>4 DEF SubmitSteer
  <2>3. Wrote(r, "attached", t, inbox[r].target, inbox[r].settled)
    BY <2>1, AttachWrites DEF Steer
  <2> QED
    BY <1>1, <2>2, <2>3, WroteExec
<1> QED
  BY <1>2, <1>3, <1>4

LEMMA ItemExec ==
    ASSUME TypeOK, InboxInv, ExecInv, NEW r \in Requests,
           Guide(r) \/ RetryItem(r) \/ RemoveItem(r)
    PROVE  ExecInv'
<1>1. UNCHANGED <<session, slot, exec>>
  BY DEF Guide, RetryItem, RemoveItem, disk
<1>2. CASE Guide(r)
  <2>1. PICK t \in Requests : Steer(r, t)
    BY <1>2 DEF Guide
  <2>2. Wrote(r, "attached", t, inbox[r].target, inbox[r].settled)
    BY <2>1, AttachWrites DEF Steer
  <2> QED
    BY <1>1, <2>2, WroteExec
<1>3. CASE UNCHANGED inbox
  BY <1>1, <1>3, ExecStays
<1>4. CASE RetryItem(r)
  BY <1>3, <1>4 DEF RetryItem, disk
<1>5. CASE RemoveItem(r)
  <2>1. CASE inbox' = [inbox EXCEPT ![r].state = "cancelled"]
    <3>1. Wrote(r, "cancelled", inbox[r].turn, inbox[r].target, inbox[r].settled)
      BY <2>1, CancelWrites
    <3> QED
      BY <1>1, <3>1, WroteExec
  <2> QED
    BY <1>3, <1>5, <2>1 DEF RemoveItem
<1> QED
  BY <1>2, <1>4, <1>5

LEMMA StopExec ==
    ASSUME TypeOK, InboxInv, ExecInv, StopKnows, DeletedIsFree,
           StopByUser \/ RunQueue \/ AdmitHead \/ FinishStop
    PROVE  ExecInv'
<1>1. CASE StopByUser \/ RunQueue
  <2>1. UNCHANGED <<session, slot, exec, inbox>>
    BY <1>1 DEF StopByUser, RunQueue
  <2> QED
    BY <2>1, ExecStays
<1>2. CASE AdmitHead
  <2> DEFINE r == stop.item
  <2>1. /\ UNCHANGED session /\ r \in Requests /\ inbox[r].state = "pending" /\ Dispatch(r)
        /\ inbox[r].tries < MaxTries /\ session = "active" /\ InputLives
    BY <1>2, RequestNames DEF AdmitHead, StopKnows, DeletedIsFree, Pending, InboxInv, InputLives,
       InputLife, TypeOK
  <2> HIDE DEF r
  <2>2. CASE Admit(r)
    BY <2>1, <2>2, AdmitExec
  <2>3. CASE CountTry(r) /\ UNCHANGED <<slot, exec>>
    <3>1. PICK s \in {"pending", "cancelled"} :
             Wrote(r, s, inbox[r].turn, inbox[r].target, inbox[r].settled)
      BY <2>1, <2>3, CountTryWrites
    <3> QED
      BY <2>1, <2>3, <3>1, WroteExec
  <2> QED
    BY <2>1, <2>2, <2>3 DEF Dispatch
<1>3. CASE FinishStop
  <2>1. /\ held = "stop" /\ stop.turn \in Requests /\ ~Tracked(stop.turn)
        /\ slot \in {None, stop.turn} /\ UNCHANGED <<session, exec>>
    BY <1>3, FinishStopEffects
  <2>2. session = "active"
    BY <2>1, RequestNames DEF DeletedIsFree, TypeOK
  <2>3. \A t \in Requests : ~Tracked(t)
    BY <2>1, <2>2, RequestNames DEF ExecInv, ExecutorOwns
  <2>4. \A t \in Requests : ~Tracked(t)'
    BY <2>1, <2>3 DEF Tracked
  <2>5. \A r \in Requests :
           /\ inbox[r].target \in Requests \cup {None}
           /\ inbox'[r].settled => inbox'[r].target \in Requests
    <3>1. \A r \in Requests : inbox[r].target \in Requests \cup {None}
      BY DEF TypeOK, Inputs
    <3>2. \A r \in Requests : inbox[r].settled => inbox[r].target # None
      BY DEF ExecInv, SettledIsQuiet
    <3>3. CASE UNCHANGED inbox
      BY <3>1, <3>2, <3>3
    <3>4. CASE /\ stop.item \in Pending /\ inbox[stop.item].target = stop.turn
               /\ \E s \in {"cancelled", inbox[stop.item].state} :
                    Wrote(stop.item, s, inbox[stop.item].turn, inbox[stop.item].target, TRUE)
      BY <2>1, <3>1, <3>2, <3>4 DEF Wrote
    <3> QED
      BY <1>3, <3>3, <3>4, FinishStopEffects
  <2> QED
    BY <2>4, <2>5, RequestNames DEF ExecInv, ExecutorOwns, OneExecutor, SettledIsQuiet
<1> QED
  BY <1>1, <1>2, <1>3

LEMMA EndExec ==
    ASSUME TypeOK, ExecInv, Delete \/ Restart
    PROVE  ExecInv'
<1>1. \A q \in Requests : inbox[q].target \in Requests \cup {None}
  BY DEF TypeOK, Inputs
<1>2. CASE Delete
  <2>1. \A r \in Requests : inbox'[r].target = inbox[r].target /\ inbox'[r].settled = inbox[r].settled
    BY <1>2, DeleteWrites
  <2>2. session' = "deleted" /\ UNCHANGED exec
    BY <1>2, DeleteEffects
  <2>3. \A u : Tracked(u)' <=> Tracked(u)
    BY <2>2 DEF Tracked
  <2> QED
    BY <2>1, <2>2, <2>3 DEF ExecInv, ExecutorOwns, OneExecutor, SettledIsQuiet
<1>3. CASE Restart
  <2>1. UNCHANGED inbox /\ \A t \in Requests : exec'[t] \in {"none", "done"}
    BY <1>3, RestartEffects
  <2>2. \A u \in Requests : ~Tracked(u)'
    BY <2>1 DEF Tracked
  <2> QED
    BY <1>1, <2>1, <2>2 DEF ExecInv, ExecutorOwns, OneExecutor, SettledIsQuiet
<1> QED
  BY <1>2, <1>3

-----------------------------------------------------------------------------
(* The lock, the slot and the canonical Turn *)

LEMMA ExecutorInput ==
    ASSUME NEW t \in Requests, ExecutorOf(t)
    PROVE  input' \in {input, None}
BY DEF ExecutorOf, Prepare, MarkRunning, StartRunning, FailBefore, CloseAfterFailure, Step,
       Boundary, Break, Settle, CloseInput, memory

LEMMA ExecutorKeepsLock ==
    ASSUME TypeOK, InputLives, HeardAreOwn, LockInv, NEW t \in Requests, ExecutorMoves(t),
           input' \in {input, None}
    PROVE  LockInv'
<1>1. UNCHANGED <<session, current, at, held, stop>>
  BY DEF ExecutorMoves
<1>2. /\ \A r \in Requests :
           /\ inbox'[r].state # inbox[r].state =>
                inbox[r].state \in {"attached", "consumed"} /\ inbox'[r].state = "consumed"
           /\ inbox'[r].target = inbox[r].target /\ inbox'[r].settled = inbox[r].settled
      /\ Pending' = Pending /\ Replacements' = Replacements
  BY ExecutorKeepsPending
<1>3. \A r \in Requests : Unsettled(r)' <=> Unsettled(r)
  BY <1>2 DEF Unsettled
<1>4. Pending \subseteq Requests /\ Replacements \subseteq Requests
  BY DEF Pending, Replacements
<1>5. CASE UNCHANGED <<canon, slot>>
  <2>1. \A u : Live(u)' <=> Live(u)
    BY <1>5 DEF Live
  <2>2. StopKnows'
    <3>1. ASSUME held = "stop", stop.by \in {"remove", "drain", "admit"}
          PROVE  stop.item \in Requests /\ stop.item \in Pending
      BY <3>1, <1>4 DEF LockInv, StopKnows, Replacements
    <3>2. stop.by = "admit" => ~(stop.by \in {"remove", "drain"})
      OBVIOUS
    <3>3. ASSUME held' = "stop"
          PROVE  /\ ~Live(current)'
                 /\ stop'.by \in {"user", "remove", "drain"} =>
                      stop'.turn # None /\ stop'.turn = current' /\ slot' \in {None, stop'.turn}
                 /\ stop'.by \in {"remove", "drain"} =>
                      /\ stop'.item \in Replacements' /\ Unsettled(stop.item)'
                      /\ inbox'[stop'.item].target = stop'.turn
                 /\ stop'.by = "admit" =>
                      slot' = None /\ stop'.item \in Pending' /\ ~Unsettled(stop.item)'
                 /\ stop'.by \in {"drain", "admit"} =>
                      /\ Replacements' \subseteq {stop'.item}
                      /\ \A q \in Pending' \ {stop'.item} :
                            inbox'[stop'.item].target # None \/ at'[q] > at'[stop'.item]
      <4>1. held = "stop"
        BY <1>1, <3>3
      <4>2. ~Live(current)'
        BY <1>1, <2>1, <4>1 DEF LockInv, StopKnows, Live
      <4>3. stop'.by \in {"user", "remove", "drain"} =>
              stop'.turn # None /\ stop'.turn = current' /\ slot' \in {None, stop'.turn}
        BY <1>1, <1>5, <4>1 DEF LockInv, StopKnows
      <4>4. stop'.by \in {"remove", "drain"} =>
              /\ stop'.item \in Replacements' /\ Unsettled(stop.item)'
              /\ inbox'[stop'.item].target = stop'.turn
        BY <1>1, <1>2, <1>3, <3>1, <4>1 DEF LockInv, StopKnows
      <4>5. stop'.by = "admit" => slot' = None /\ stop'.item \in Pending' /\ ~Unsettled(stop.item)'
        BY <1>1, <1>2, <1>3, <1>5, <3>1, <4>1 DEF LockInv, StopKnows
      <4>6. stop'.by \in {"drain", "admit"} =>
              /\ Replacements' \subseteq {stop'.item}
              /\ \A q \in Pending' \ {stop'.item} :
                    inbox'[stop'.item].target # None \/ at'[q] > at'[stop'.item]
        BY <1>1, <1>2, <3>1, <4>1 DEF LockInv, StopKnows
      <4> QED
        BY <4>2, <4>3, <4>4, <4>5, <4>6
    <3> QED
      BY <3>3, <1>1 DEF StopKnows, Unsettled
  <2>3. SlotFollowsCanon'
    BY <1>1, <1>2, <1>3, <1>4, <1>5, <2>1 DEF LockInv, SlotFollowsCanon, Live
  <2>4. DeletedIsFree' /\ DeletedStaysEmpty'
    BY <1>1, <1>2, <1>5 DEF LockInv, DeletedIsFree, DeletedStaysEmpty
  <2> QED
    BY <2>2, <2>3, <2>4 DEF LockInv
<1>6. CASE Writable(t) /\ ~UNCHANGED <<canon, slot>>
  <2>1. session = "active" /\ current = t /\ Live(current) /\ held # "stop"
    BY <1>6 DEF Writable, LockInv, StopKnows
  <2>2. StopKnows'
    BY <1>1, <2>1 DEF StopKnows
  <2>3. SlotFollowsCanon'
    <3>1. SUFFICES ASSUME held = None PROVE SlotFollowsCanon'
      BY <1>1 DEF SlotFollowsCanon
    <3>2. slot = t
      BY <2>1, <3>1 DEF LockInv, SlotFollowsCanon
    <3>3. CASE slot' = slot /\ canon'[t] = "running"
      BY <1>1, <2>1, <3>2, <3>3 DEF SlotFollowsCanon, Live
    <3>4. CASE slot' = None /\ canon'[t] \in Ended
      BY <1>1, <2>1, <3>4 DEF SlotFollowsCanon, Live, Ended
    <3> QED
      BY <1>6, <3>2, <3>3, <3>4 DEF ExecutorMoves, CanonMoves
  <2>4. DeletedIsFree' /\ DeletedStaysEmpty'
    BY <1>1, <2>1 DEF DeletedIsFree, DeletedStaysEmpty
  <2> QED
    BY <2>2, <2>3, <2>4 DEF LockInv
<1> QED
  BY <1>5, <1>6 DEF ExecutorMoves, CanonMoves

\* A session that is in use, with the lock free: only the slot is at stake.
LEMMA ActiveLock ==
    ASSUME session' = "active", held' # "stop", SlotFollowsCanon'
    PROVE  LockInv'
BY DEF LockInv, StopKnows, DeletedIsFree, DeletedStaysEmpty

LEMMA SlotStays ==
    ASSUME TypeOK, SlotFollowsCanon, held = None, UNCHANGED <<canon, current, slot>>,
           \A q \in Requests : inbox[q].state = "pending" /\ Unsettled(q) =>
              /\ inbox'[q].state = "pending" /\ inbox'[q].target = inbox[q].target
              /\ ~inbox'[q].settled
    PROVE  SlotFollowsCanon'
<1>1. \A u : Live(u)' <=> Live(u)
  BY DEF Live
<1>2. \A q \in Replacements : Unsettled(q) =>
         q \in Replacements' /\ Unsettled(q)' /\ inbox'[q].target = inbox[q].target
  BY DEF Replacements, Pending, Unsettled
<1> QED
  BY <1>1, <1>2 DEF SlotFollowsCanon, Live

\* The slot is the live Turn's: nothing said about the inbox can break that.
LEMMA LiveSlot ==
    ASSUME UNCHANGED <<canon, current, slot>>, Live(current), slot = current
    PROVE  SlotFollowsCanon'
BY DEF SlotFollowsCanon, Live

LEMMA NoSlot ==
    ASSUME ~Live(current)', slot' = None
    PROVE  SlotFollowsCanon'
BY DEF SlotFollowsCanon

LEMMA AdmitLock ==
    ASSUME TypeOK, NEW r \in Requests, Admit(r), session' = "active"
    PROVE  LockInv'
<1>1. /\ slot' = r /\ current' = r /\ canon'[r] = "accepted" /\ held' \in {None, r}
      /\ r # "stop" /\ r # None
  BY AdmitEffects, RequestNames
<1>2. SlotFollowsCanon'
  BY <1>1 DEF SlotFollowsCanon, Live
<1>3. held' # "stop"
  BY <1>1, RequestNames
<1> QED
  BY <1>2, <1>3, ActiveLock

\* A stop of the live Turn, or for the one replacement that waits for it.
LEMMA SlotOfStop ==
    ASSUME TypeOK, OneReplacement, SlotFollowsCanon, held = None,
           \/ Live(current)
           \/ \E r \in Replacements : Unsettled(r) /\ current = inbox[r].target
    PROVE  slot \in {None, current}
<1>1. CASE Live(current)
  BY <1>1 DEF SlotFollowsCanon
<1>2. CASE \E r \in Replacements : Unsettled(r) /\ current = inbox[r].target
  BY <1>2 DEF SlotFollowsCanon, OneReplacement
<1> QED
  BY <1>1, <1>2

LEMMA ClientLock ==
    ASSUME TypeOK, InboxInv, LockInv, NEW r \in Requests,
           \/ Submit(r) \/ SubmitReplacement(r) \/ SubmitSteer(r)
           \/ Guide(r) \/ RetryItem(r)
           \/ RemoveItem(r) /\ ~Unsettled(r)
    PROVE  LockInv'
<1>1. /\ session' = "active" /\ held = None /\ SlotFollowsCanon
  BY DEF Submit, SubmitReplacement, SubmitSteer, Guide, RetryItem, RemoveItem, Free, LockInv, disk
<1>2. SUFFICES ASSUME ~Admit(r) PROVE LockInv'
  BY <1>1, AdmitLock
<1>3. /\ UNCHANGED <<canon, current, slot>> /\ held' = None
  BY <1>1, <1>2 DEF Submit, SubmitReplacement, SubmitSteer, Guide, RetryItem, RemoveItem, disk
<1>4. held' # "stop"
  BY <1>3, RequestNames
<1>5. ASSUME NEW t \in Requests, Steer(r, t) PROVE LockInv'
  <2>1. Live(current) /\ slot = current
    BY <1>5 DEF Steer, Writable
  <2> QED
    BY <1>1, <1>3, <1>4, <2>1, LiveSlot, ActiveLock
<1>6. CASE SubmitSteer(r) \/ Guide(r)
  BY <1>5, <1>6 DEF SubmitSteer, Guide
<1>7. CASE Submit(r) \/ SubmitReplacement(r)
  <2>1. /\ inbox[r].state = "none"
        /\ \E g \in Requests \cup {None} : Enqueue(r, g)
    BY <1>2, <1>7 DEF Submit, SubmitReplacement, Unknown, TypeOK
  <2>2. PICK g \in Requests \cup {None} : Enqueue(r, g)
    BY <2>1
  <2>3. Wrote(r, "pending", inbox[r].turn, g, inbox[r].settled)
    BY <2>2, EnqueueWrites
  <2>4. \A q \in Requests : inbox[q].state = "pending" /\ Unsettled(q) =>
           /\ inbox'[q].state = "pending" /\ inbox'[q].target = inbox[q].target
           /\ ~inbox'[q].settled
    BY <2>1, <2>3 DEF Wrote, Unsettled
  <2> QED
    BY <1>1, <1>3, <1>4, <2>4, SlotStays, ActiveLock
<1>8. CASE RetryItem(r)
  <2>1. UNCHANGED inbox
    BY <1>8 DEF RetryItem, disk
  <2> QED
    BY <1>1, <1>3, <1>4, <2>1, SlotStays, ActiveLock DEF Unsettled
<1>9. CASE RemoveItem(r) /\ ~Unsettled(r)
  <2>1. Wrote(r, "cancelled", inbox[r].turn, inbox[r].target, inbox[r].settled)
    BY <1>9, CancelWrites DEF RemoveItem
  <2>2. \A q \in Requests : inbox[q].state = "pending" /\ Unsettled(q) =>
           /\ inbox'[q].state = "pending" /\ inbox'[q].target = inbox[q].target
           /\ ~inbox'[q].settled
    BY <1>9, <2>1 DEF Wrote, Unsettled
  <2> QED
    BY <1>1, <1>3, <1>4, <2>2, SlotStays, ActiveLock
<1> QED
  BY <1>6, <1>7, <1>8, <1>9

\* What is known when a stop begins, or the queue task goes on to admit.
LEMMA StopBegins ==
    ASSUME TypeOK, session' = "active", held' = "stop", ~Live(current)',
           UNCHANGED <<inbox, at, current, slot>>,
           \/ stop'.by = "user" /\ stop'.turn = current /\ current # None /\ slot \in {None, current}
           \/ /\ stop'.by \in {"remove", "drain"} /\ stop'.turn = current /\ current # None
              /\ slot \in {None, current}
              /\ stop'.item \in Replacements /\ Unsettled(stop'.item)
              /\ inbox[stop'.item].target = current
           \/ stop'.by = "admit" /\ slot = None /\ stop'.item \in Pending /\ ~Unsettled(stop'.item),
           stop'.by \in {"drain", "admit"} =>
              /\ Replacements \subseteq {stop'.item}
              /\ \A q \in Pending \ {stop'.item} :
                    inbox[stop'.item].target # None \/ at[q] > at[stop'.item]
    PROVE  LockInv'
<1>1. \A q : Unsettled(q)' <=> Unsettled(q)
  BY DEF Unsettled
<1>2. Pending' = Pending /\ Replacements' = Replacements
  BY DEF Pending, Replacements
<1>3. StopKnows'
  BY <1>1, <1>2 DEF StopKnows, Unsettled
<1>4. SlotFollowsCanon'
  BY RequestNames DEF SlotFollowsCanon
<1> QED
  BY <1>3, <1>4 DEF LockInv, DeletedIsFree, DeletedStaysEmpty

LEMMA BeginLock ==
    ASSUME TypeOK, InboxInv, LockInv,
           \/ StopByUser
           \/ \E r \in Requests : RemoveItem(r) /\ Unsettled(r)
    PROVE  LockInv'
<1>1. /\ session' = "active" /\ held = None /\ SlotFollowsCanon /\ OneReplacement
      /\ UNCHANGED <<inbox, at, current, slot>>
  BY DEF StopByUser, RemoveItem, Free, LockInv, InboxInv
<1>2. CASE StopByUser /\ ~Live(current)
  <2>1. UNCHANGED <<canon, held>>
    BY <1>2 DEF StopByUser
  <2>2. held' # "stop"
    BY <1>1, <2>1, RequestNames
  <2> QED
    BY <1>1, <2>1, <2>2, SlotStays, ActiveLock DEF Unsettled
<1>3. CASE StopByUser /\ Live(current)
  <2>1. current \in Requests /\ BeginStop("user", current, None) /\ slot \in {None, current}
        /\ current # None
    BY <1>1, <1>3, SlotOfStop DEF StopByUser, Live, TypeOK
  <2>2. ~Live(current)' /\ stop'.by = "user" /\ stop'.turn = current /\ held' = "stop"
    <3> DEFINE t == current
    <3>1. t \in Requests /\ BeginStop("user", t, None)
      BY <2>1
    <3> HIDE DEF t
    <3>2. canon'[t] \notin {"accepted", "running"} /\ stop'.by = "user" /\ stop'.turn = t /\ held' = "stop"
      BY <3>1, BeginStopEffects, RequestNames DEF Live
    <3> QED
      BY <1>1, <3>2 DEF Live, t
  <2> QED
    BY <1>1, <2>1, <2>2, StopBegins
<1>4. ASSUME NEW r \in Requests, RemoveItem(r), Unsettled(r)
      PROVE  LockInv'
  <2>1. /\ current = inbox[r].target /\ BeginStop("remove", current, r) /\ r \in Replacements
        /\ current \in Requests /\ current # None
    BY <1>4, RequestNames DEF RemoveItem, Replacements, Unsettled, TypeOK
  <2>2. slot \in {None, current}
    BY <1>1, <1>4, <2>1, SlotOfStop
  <2>3. ~Live(current)' /\ stop'.by = "remove" /\ stop'.turn = current /\ held' = "stop"
        /\ stop'.item = r
    <3> DEFINE t == current
    <3>1. t \in Requests /\ BeginStop("remove", t, r)
      BY <2>1
    <3> HIDE DEF t
    <3>2. canon'[t] \notin {"accepted", "running"} /\ stop'.by = "remove" /\ stop'.turn = t
          /\ held' = "stop" /\ stop'.item = r
      BY <3>1, BeginStopEffects, RequestNames DEF Live
    <3> QED
      BY <1>1, <3>2 DEF Live, t
  <2> QED
    BY <1>1, <1>4, <2>1, <2>2, <2>3, StopBegins
<1> QED
  BY <1>2, <1>3, <1>4

LEMMA QueueLock ==
    ASSUME TypeOK, InboxInv, LockInv, RunQueue
    PROVE  LockInv'
<1>1. /\ session' = "active" /\ held = None /\ SlotFollowsCanon /\ OneReplacement /\ Numbered
      /\ UNCHANGED <<session, inbox, at, current, slot>>
  BY DEF RunQueue, Free, LockInv, InboxInv
<1>2. CASE UNCHANGED <<canon, held>>
  <2>1. held' # "stop"
    BY <1>1, <1>2, RequestNames
  <2> QED
    BY <1>1, <1>2, <2>1, SlotStays, ActiveLock DEF Unsettled
<1> DEFINE h == Head
<1>3. Pending # {} =>
        /\ h \in Pending /\ h \in Requests /\ Replacements \subseteq {h}
        /\ \A q \in Pending \ {h} : inbox[h].target # None \/ at[q] > at[h]
  BY <1>1, HeadIsFirst DEF Pending
<1>4. CASE /\ Pending # {} /\ Unsettled(h) /\ current = inbox[h].target
           /\ BeginStop("drain", current, h)
  <2> DEFINE t == current
  <2>1. t \in Requests /\ BeginStop("drain", t, h) /\ t # None
        /\ h \in Replacements
    BY <1>3, <1>4, RequestNames DEF Unsettled, TypeOK, Replacements
  <2>2. slot \in {None, current}
    <3> HIDE DEF h
    <3> QED
      BY <1>1, <1>4, <2>1, SlotOfStop
  <2> HIDE DEF t
  <2>3. canon'[t] \notin {"accepted", "running"} /\ stop'.by = "drain" /\ stop'.turn = t
        /\ held' = "stop" /\ stop'.item = h
    <3> HIDE DEF h
    <3> QED
      BY <1>3, <1>4, <2>1, BeginStopEffects, RequestNames DEF Live
  <2>4. ~Live(current)'
    BY <1>1, <2>3 DEF Live, t
  <2> HIDE DEF h
  <2> QED
    BY <1>1, <1>3, <1>4, <2>1, <2>2, <2>3, <2>4, StopBegins DEF t
<1>5. CASE /\ Pending # {} /\ ~Unsettled(h) /\ ~Live(current)
           /\ stop' = [by |-> "admit", turn |-> None, item |-> h] /\ held' = "stop"
           /\ UNCHANGED canon
  <2> HIDE DEF h
  <2>1. slot = None
    BY <1>1, <1>3, <1>5 DEF SlotFollowsCanon, Live
  <2>2. stop'.by = "admit" /\ stop'.item = h /\ ~Live(current)'
    BY <1>1, <1>5 DEF Live
  <2> QED
    BY <1>1, <1>3, <1>5, <2>1, <2>2, StopBegins
<1> QED
  BY <1>2, <1>4, <1>5 DEF RunQueue

LEMMA AdmitHeadLock ==
    ASSUME TypeOK, InboxInv, LockInv, AdmitHead
    PROVE  LockInv'
<1> DEFINE r == stop.item
<1>1. /\ UNCHANGED session /\ r \in Requests /\ inbox[r].state = "pending" /\ Dispatch(r)
      /\ inbox[r].tries < MaxTries /\ session = "active" /\ slot = None /\ ~Live(current)
  BY RequestNames DEF AdmitHead, LockInv, StopKnows, DeletedIsFree, Pending, InboxInv, InputLives,
     InputLife, TypeOK
<1> HIDE DEF r
<1>2. CASE Admit(r)
  BY <1>1, <1>2, AdmitLock
<1>3. CASE held' = None /\ UNCHANGED <<canon, current, slot>>
  <2>1. SlotFollowsCanon'
    BY <1>1, <1>3, NoSlot DEF Live
  <2> QED
    BY <1>1, <1>3, <2>1, ActiveLock, RequestNames
<1> QED
  BY <1>1, <1>2, <1>3 DEF Dispatch

LEMMA FinishStopLock ==
    ASSUME TypeOK, InboxInv, LockInv, FinishStop
    PROVE  LockInv'
<1>1. /\ held = "stop" /\ stop.turn \in Requests /\ stop.turn = current
      /\ slot \in {None, stop.turn} /\ ~Live(current)
      /\ UNCHANGED <<session, canon, current, at>>
  BY FinishStopEffects DEF LockInv
<1>2. session = "active" /\ session' = "active"
  BY <1>1, RequestNames DEF LockInv, DeletedIsFree, TypeOK
<1>3. ~Live(current)'
  BY <1>1 DEF Live
<1>4. CASE slot' = None /\ held' = None
  BY <1>2, <1>3, <1>4, NoSlot, ActiveLock, RequestNames
<1>5. CASE /\ slot' = None
           /\ stop.by = "drain" /\ held' = "stop"
           /\ stop'.by = "admit" /\ stop'.item = stop.item
           /\ stop.item \in Pending
           /\ Wrote(stop.item, inbox[stop.item].state, inbox[stop.item].turn,
                    inbox[stop.item].target, TRUE)
           /\ inbox[stop.item].target = stop.turn
  <2>1. PICK r \in Requests :
           /\ inbox[r].state = "pending" /\ Replacements \subseteq {r}
           /\ Wrote(r, inbox[r].state, inbox[r].turn, inbox[r].target, TRUE)
           /\ stop'.item = r /\ inbox[r].target # None
    BY <1>1, <1>5, RequestNames DEF Pending, LockInv, StopKnows
  <2>2. /\ r \in Pending' /\ Replacements' \subseteq {r} /\ ~Unsettled(r)'
        /\ inbox'[r].target # None
    BY <2>1 DEF Wrote, Pending, Replacements, Unsettled
  <2>3. StopKnows'
    BY <1>3, <1>5, <2>1, <2>2 DEF StopKnows, Unsettled
  <2>4. SlotFollowsCanon'
    BY <1>5, RequestNames DEF SlotFollowsCanon
  <2> QED
    BY <1>2, <2>3, <2>4 DEF LockInv, DeletedIsFree, DeletedStaysEmpty
<1>6. CASE stop.by \in {"remove", "drain"} /\ held' = None /\ UNCHANGED <<inbox, slot>>
  <2>1. stop.item \in Replacements /\ Unsettled(stop.item) /\ inbox[stop.item].target = stop.turn
    BY <1>1, <1>6 DEF LockInv, StopKnows
  <2>2. stop.item \in Replacements' /\ inbox'[stop.item].target = stop.turn
        /\ inbox'[stop.item].target # None /\ ~inbox'[stop.item].settled
    BY <1>6, <2>1 DEF Replacements, Pending, Unsettled
  <2>3. SlotFollowsCanon'
    BY <1>1, <1>3, <1>6, <2>2 DEF SlotFollowsCanon, Unsettled
  <2> QED
    BY <1>2, <1>6, <2>3, ActiveLock, RequestNames
<1> QED
  BY <1>4, <1>5, <1>6, FinishStopEffects DEF LockInv

LEMMA EndLock ==
    ASSUME TypeOK, LockInv, Delete \/ Restart
    PROVE  LockInv'
<1>1. CASE Delete
  <2>1. /\ held' = None /\ session' = "deleted" /\ current' = None /\ slot' = None /\ input' = None
    BY <1>1, DeleteEffects
  <2>2. Pending' = {}
    BY <1>1, DeleteWrites DEF Pending
  <2>3. ~Live(current)'
    BY <2>1 DEF Live
  <2>4. SlotFollowsCanon'
    BY <2>1, <2>3, NoSlot
  <2> QED
    BY <2>1, <2>2, <2>4, RequestNames DEF LockInv, StopKnows, DeletedIsFree, DeletedStaysEmpty
<1>2. CASE Restart
  <2>1. /\ session' = "active" /\ held' = None /\ slot' = None /\ ~Live(current)'
    BY <1>2, RestartEffects
  <2> QED
    BY <2>1, NoSlot, ActiveLock, RequestNames
<1> QED
  BY <1>1, <1>2

-----------------------------------------------------------------------------
(* Inputs steered into a Turn *)

LEMMA SteerStays ==
    ASSUME TypeOK, SteerInv, UNCHANGED context,
           \A r \in Requests :
              /\ inbox'[r].turn = inbox[r].turn
              /\ inbox[r].state = "consumed" => inbox'[r].state = "consumed",
           \/ UNCHANGED <<input, fifo>>
           \/ \E t \in Requests : CloseInput(t) /\ ~Tracked(t)
           \/ input' = None /\ fifo' = {} /\ session' = "deleted",
           session' = "active" => session = "active",
           \A u \in Requests : Tracked(u)' => Tracked(u),
           \A u \in Requests : result'[u] = "completed" => result[u] = "completed",
           \A u \in Requests :
              canon'[u] = "completed" => canon[u] = "completed" \/ result[u] = "completed"
    PROVE  SteerInv'
<1>1. /\ input' = None \/ (input' = input /\ fifo' = fifo)
      /\ fifo' \subseteq fifo /\ (fifo' # {} => input' = input)
  BY DEF CloseInput
<1>2. HeardAreOwn'
  BY <1>1 DEF SteerInv, HeardAreOwn, TypeOK
<1>3. ASSUME NEW u \in Requests, session' = "active", Tracked(u)', input = u
      PROVE  UNCHANGED <<input, fifo>>
  BY <1>3 DEF CloseInput
<1>4. AllAreHeard'
  <2>1. SUFFICES ASSUME NEW u \in Requests, NEW r \in Requests,
                        session' = "active", Tracked(u)', inbox'[r].turn = u
                 PROVE  \/ inbox'[r].state = "consumed"
                        \/ r \in context'[u]
                        \/ input' = u /\ r \in fifo'
    BY DEF AllAreHeard
  <2>2. inbox[r].state = "consumed" \/ r \in context[u] \/ (input = u /\ r \in fifo)
    BY <2>1 DEF SteerInv, AllAreHeard
  <2> QED
    BY <1>3, <2>1, <2>2
<1>5. CompleteIsClosed'
  BY <1>1, RequestNames DEF SteerInv, CompleteIsClosed
<1>6. NoSteerLost'
  BY DEF SteerInv, CompleteIsClosed, NoSteerLost
<1> QED
  BY <1>2, <1>4, <1>5, <1>6 DEF SteerInv

LEMMA BoundarySteer ==
    ASSUME TypeOK, InputLives, SteerInv, NEW t \in Requests, Boundary(t)
    PROVE  SteerInv'
<1>1. /\ UNCHANGED <<session, canon, inbox>> /\ exec[t] = "working" /\ Tracked(t)
      /\ session = "active" /\ t # None
      /\ \A r \in context[t] : inbox[r].state = "consumed"
  BY RequestNames DEF Boundary, disk, Tracked, Writable
<1>2. NoSteerLost'
  BY <1>1 DEF SteerInv, NoSteerLost
<1>3. CASE TakenSteers(t) # {}
  <2>1. /\ context' = [context EXCEPT ![t] = @ \cup fifo] /\ fifo' = {} /\ input = t
        /\ UNCHANGED <<input, exec, result>>
    BY <1>3 DEF Boundary, TakenSteers
  <2>2. \A u \in Requests : context'[u] = IF u = t THEN context[t] \cup fifo ELSE context[u]
    BY <2>1 DEF TypeOK
  <2>3. HeardAreOwn'
    BY <1>1, <2>1, <2>2 DEF SteerInv, HeardAreOwn
  <2>4. AllAreHeard'
    BY <1>1, <2>1, <2>2 DEF SteerInv, AllAreHeard, Tracked
  <2>5. CompleteIsClosed'
    BY <1>1, <2>1 DEF SteerInv, CompleteIsClosed
  <2> QED
    BY <1>2, <2>3, <2>4, <2>5 DEF SteerInv
<1>4. CASE TakenSteers(t) = {}
  <2>1. /\ CloseInput(t) /\ To(t, "settling") /\ UNCHANGED context
        /\ result' = [result EXCEPT ![t] = "completed"]
    BY <1>4 DEF Boundary
  <2>2. /\ exec'[t] = "settling" /\ \A u \in Requests : u # t => exec'[u] = exec[u]
        /\ \A u \in Requests : u # t => result'[u] = result[u]
    BY <2>1 DEF To, TypeOK
  <2>3. \A u \in Requests : Tracked(u)' => u # t /\ Tracked(u)
    BY <2>2 DEF Tracked
  <2>4. /\ input' # t /\ (input = t \/ (input' = input /\ fifo' = fifo))
        /\ (input = t => input' = None /\ fifo' = {})
    BY <1>1, <2>1 DEF CloseInput
  <2>5. \A r \in Requests : inbox[r].turn = t => inbox[r].state = "consumed"
    BY <1>1, <1>4 DEF SteerInv, AllAreHeard, TakenSteers
  <2>6. HeardAreOwn'
    BY <1>1, <2>1, <2>4 DEF SteerInv, HeardAreOwn
  <2>7. AllAreHeard'
    BY <1>1, <2>1, <2>3, <2>4 DEF SteerInv, AllAreHeard
  <2>8. CompleteIsClosed'
    BY <1>1, <2>2, <2>4, <2>5, RequestNames DEF SteerInv, CompleteIsClosed
  <2> QED
    BY <1>2, <2>6, <2>7, <2>8 DEF SteerInv
<1> QED
  BY <1>3, <1>4

LEMMA ExecutorSteer ==
    ASSUME TypeOK, InputLives, HeardAreOwn, SteerInv, NEW t \in Requests, ExecutorOf(t),
           ExecutorMoves(t)
    PROVE  SteerInv'
<1>1. CASE Boundary(t)
  BY <1>1, BoundarySteer
<1>2. CASE ~Boundary(t)
  <2>1. \A r \in Requests :
           /\ inbox'[r].turn = inbox[r].turn
           /\ inbox[r].state = "consumed" => inbox'[r].state = "consumed"
    BY ExecutorKeepsPending
  <2>2. /\ session' = session
        /\ \A u \in Requests : Tracked(u)' => Tracked(u)
        /\ \A u \in Requests : u # t => result'[u] = result[u] /\ canon'[u] = canon[u]
    BY DEF ExecutorMoves, ExecMoves, ResultMoves, CanonMoves, Tracked
  <2>3. UNCHANGED context
    BY <1>2 DEF ExecutorOf, Prepare, MarkRunning, StartRunning, FailBefore, CloseAfterFailure,
       Step, Break, Settle, memory
  <2>4. UNCHANGED <<input, fifo>> \/ (CloseInput(t) /\ ~Tracked(t))
    BY <1>2 DEF ExecutorOf, Prepare, MarkRunning, StartRunning, FailBefore, CloseAfterFailure,
       Step, Break, Settle, memory, Tracked
  <2>5. result'[t] = "completed" => result[t] = "completed"
    <3>1. CASE Break(t)
      <4>1. result'[t] \in {"failed", "cancelled"}
        BY <3>1 DEF Break, TypeOK
      <4> QED
        BY <4>1
    <3>2. CASE ~Break(t)
      BY <1>2, <3>2 DEF ExecutorOf, Prepare, MarkRunning, StartRunning, FailBefore,
         CloseAfterFailure, Step, Settle, memory
    <3> QED
      BY <3>1, <3>2
  <2>6. canon'[t] = "completed" => canon[t] = "completed" \/ result[t] = "completed"
    <3>1. CASE UNCHANGED canon
      BY <3>1
    <3>2. CASE StartRunning(t) /\ ~UNCHANGED canon
      BY <3>2 DEF StartRunning, TypeOK
    <3>3. CASE FailBefore(t)
      <4>1. canon'[t] = canon[t] \/ canon'[t] = "failed"
        BY <3>3, SettleMoves DEF FailBefore, Ended
      <4> QED
        BY <4>1
    <3>4. CASE Settle(t)
      <4>1. result[t] \in Ended /\ SettleTurn(t, result[t])
        BY <3>4 DEF Settle, InputLives, InputLife, TypeOK
      <4>2. canon'[t] = canon[t] \/ canon'[t] = result[t]
        BY <4>1, SettleMoves
      <4> QED
        BY <4>2
    <3> QED
      BY <1>2, <3>1, <3>2, <3>3, <3>4 DEF ExecutorOf, Prepare, MarkRunning, CloseAfterFailure,
         Step, Break, disk
  <2> QED
    BY <2>1, <2>2, <2>3, <2>4, <2>5, <2>6, SteerStays
<1> QED
  BY <1>1, <1>2

\* A steered input is queued for the Turn it belongs to.
LEMMA SteerSteer ==
    ASSUME TypeOK, InputLives, SteerInv, NEW r \in Requests, NEW t \in Requests, Steer(r, t),
           inbox[r].state \in {"none", "pending"},
           UNCHANGED <<session, canon, input, exec, context, result>>
    PROVE  SteerInv'
<1>1. /\ Wrote(r, "attached", t, inbox[r].target, inbox[r].settled)
      /\ fifo' = fifo \cup {r} /\ input = t /\ Live(t)
  BY AttachWrites DEF Steer, Writable
<1>2. inbox[r].turn = None /\ t # None
  BY RequestNames DEF InputLives, InputLife
<1>3. \A q \in Requests : inbox'[q] = inbox[q] \/ q = r
  BY <1>1 DEF Wrote
<1>4. inbox'[r].turn = t
  BY <1>1 DEF Wrote
<1>5. HeardAreOwn'
  <2>1. ASSUME NEW u \in Requests, NEW q \in context[u] PROVE inbox'[q].turn = u
    <3>1. inbox[q].turn = u /\ q \in Requests /\ u # None
      BY RequestNames DEF SteerInv, HeardAreOwn, TypeOK
    <3> QED
      BY <1>2, <1>3, <3>1
  <2>2. ASSUME NEW q \in fifo' PROVE inbox'[q].turn = input
    <3>1. q # r => q \in Requests /\ inbox[q].turn = input
      BY <1>1 DEF SteerInv, HeardAreOwn, TypeOK
    <3> QED
      BY <1>1, <1>3, <1>4, <3>1
  <2> QED
    BY <1>1, <1>2, <2>1, <2>2 DEF HeardAreOwn
<1>6. AllAreHeard'
  BY <1>1, <1>3, <1>4 DEF SteerInv, AllAreHeard, Tracked
<1>7. CompleteIsClosed'
  BY <1>1, <1>3, <1>4 DEF SteerInv, CompleteIsClosed
<1>8. NoSteerLost'
  BY <1>1, <1>3, <1>4 DEF SteerInv, NoSteerLost, Live
<1> QED
  BY <1>5, <1>6, <1>7, <1>8 DEF SteerInv

\* A Turn begins with its own input in its context.
LEMMA AdmitSteer ==
    ASSUME TypeOK, InputLives, SteerInv, ExecInv, NEW r \in Requests, Admit(r),
           inbox[r].state \in {"none", "pending"}, session = "active",
           UNCHANGED <<session, result>>
    PROVE  SteerInv'
<1>1. /\ slot = None /\ canon'[r] = "accepted"
      /\ \A u \in Requests : u # r => canon'[u] = canon[u]
      /\ Wrote(r, "attached", r, inbox[r].target, inbox[r].settled)
      /\ \A u \in Requests : u # r => exec'[u] = exec[u] /\ context'[u] = context[u]
      /\ \/ /\ input = None /\ input' = r /\ fifo' = {} /\ held' = None
            /\ exec'[r] = "spawned" /\ context'[r] = {r}
         \/ UNCHANGED <<input, fifo, exec, context>>
  BY AdmitEffects
<1>2. inbox[r].turn = None /\ r # None /\ canon[r] = "none" /\ result[r] = "none"
  BY RequestNames DEF InputLives, InputLife
<1>3. \A q \in Requests : inbox'[q] = inbox[q] \/ q = r
  BY <1>1 DEF Wrote
<1>4. inbox'[r].turn = r
  BY <1>1 DEF Wrote
<1>5. \A q \in Requests : inbox[q].turn # r
  BY <1>2 DEF InputLives, InputLife
<1>6. \A u \in Requests : ~Tracked(u)
  BY <1>1, NoneIsTracked DEF ExecInv
<1>7. \A u \in Requests : Tracked(u)' => u = r /\ context'[r] = {r}
  BY <1>1, <1>6 DEF Tracked
<1>8. HeardAreOwn'
  <2>1. \A u \in Requests : \A q \in context[u] : q \in Requests /\ inbox'[q].turn = u
    BY <1>2, <1>3, RequestNames DEF SteerInv, HeardAreOwn, TypeOK
  <2>2. \A q \in fifo : q \in Requests /\ inbox'[q].turn = input /\ input # None
    BY <1>2, <1>3 DEF SteerInv, HeardAreOwn, TypeOK
  <2> QED
    BY <1>1, <1>4, <2>1, <2>2 DEF HeardAreOwn
<1>9. AllAreHeard'
  BY <1>3, <1>4, <1>5, <1>7 DEF AllAreHeard
<1>10. CompleteIsClosed'
  BY <1>1, <1>2, <1>3, <1>4 DEF SteerInv, CompleteIsClosed
<1>11. NoSteerLost'
  BY <1>1, <1>3, <1>4 DEF SteerInv, NoSteerLost
<1> QED
  BY <1>8, <1>9, <1>10, <1>11 DEF SteerInv

\* One input is written, and every Turn and executor is where it was.
LEMMA WroteSteer ==
    ASSUME TypeOK, SteerInv, NEW r \in Requests, NEW s, NEW g, NEW d,
           Wrote(r, s, inbox[r].turn, g, d), inbox[r].state # "consumed",
           UNCHANGED <<session, exec, context, result>>,
           \/ UNCHANGED <<input, fifo>>
           \/ \E t \in Requests : CloseInput(t) /\ ~Tracked(t),
           \A u \in Requests : canon'[u] = canon[u] \/ canon'[u] = "cancelled"
    PROVE  SteerInv'
<1>1. \A q \in Requests :
         /\ inbox'[q].turn = inbox[q].turn
         /\ inbox[q].state = "consumed" => inbox'[q].state = "consumed"
  BY DEF Wrote
<1>2. \A u \in Requests : Tracked(u)' => Tracked(u)
  BY DEF Tracked
<1>3. \A u \in Requests : /\ result'[u] = "completed" => result[u] = "completed"
                          /\ canon'[u] = "completed" => canon[u] = "completed"
  OBVIOUS
<1> QED
  BY <1>1, <1>2, <1>3, SteerStays

LEMMA SameInboxSteer ==
    ASSUME TypeOK, SteerInv, UNCHANGED <<inbox, session, exec, context, result>>,
           \/ UNCHANGED <<input, fifo>>
           \/ \E t \in Requests : CloseInput(t) /\ ~Tracked(t),
           \A u \in Requests : canon'[u] = canon[u] \/ canon'[u] = "cancelled"
    PROVE  SteerInv'
<1>1. \A u \in Requests : Tracked(u)' => Tracked(u)
  BY DEF Tracked
<1>2. \A u \in Requests : /\ result'[u] = "completed" => result[u] = "completed"
                          /\ canon'[u] = "completed" => canon[u] = "completed"
  OBVIOUS
<1> QED
  BY <1>1, <1>2, SteerStays

LEMMA ClientSteer ==
    ASSUME TypeOK, InboxInv, ExecInv, SteerInv, NEW r \in Requests,
           \/ Submit(r) \/ SubmitReplacement(r) \/ SubmitSteer(r)
           \/ Guide(r) \/ RetryItem(r) \/ RemoveItem(r)
    PROVE  SteerInv'
<1>1. /\ session = "active" /\ InputLives /\ inbox[r].state \in {"none", "pending"}
      /\ UNCHANGED <<session, result>>
  BY DEF Submit, SubmitReplacement, SubmitSteer, Guide, RetryItem, RemoveItem, Free, Unknown,
     Replacements, Pending, InboxInv, disk
<1>2. ASSUME NEW t \in Requests, Steer(r, t), UNCHANGED <<canon, input, exec, context>>
      PROVE  SteerInv'
  BY <1>1, <1>2, SteerSteer
<1>3. CASE SubmitSteer(r) \/ Guide(r)
  BY <1>2, <1>3 DEF SubmitSteer, Guide
<1>4. CASE Admit(r)
  BY <1>1, <1>4, AdmitSteer
<1>5. CASE (Submit(r) /\ ~Admit(r)) \/ SubmitReplacement(r)
  <2>1. /\ \E g \in Requests \cup {None} : Enqueue(r, g)
        /\ UNCHANGED <<canon, input, fifo, exec, context>>
    BY <1>5 DEF Submit, SubmitReplacement, TypeOK
  <2>2. PICK g \in Requests \cup {None} : Enqueue(r, g)
    BY <2>1
  <2>3. Wrote(r, "pending", inbox[r].turn, g, inbox[r].settled)
    BY <2>2, EnqueueWrites
  <2> QED
    BY <1>1, <2>1, <2>3, WroteSteer
<1>6. CASE RetryItem(r)
  <2>1. UNCHANGED <<inbox, session, exec, context, result, input, fifo, canon>>
    BY <1>6 DEF RetryItem, disk
  <2> QED
    BY <2>1, SameInboxSteer
<1>7. CASE RemoveItem(r)
  <2>1. UNCHANGED <<input, fifo, exec, context>>
    BY <1>7 DEF RemoveItem
  <2>2. CASE Unsettled(r)
    <3>1. current \in Requests /\ BeginStop("remove", current, r) /\ UNCHANGED inbox
      BY <1>7, <2>2 DEF RemoveItem, Unsettled, TypeOK
    <3>2. \A u \in Requests : canon'[u] = canon[u] \/ canon'[u] = "cancelled"
      BY <3>1, BeginStopEffects
    <3> QED
      BY <1>1, <2>1, <3>1, <3>2, SameInboxSteer
  <2>3. CASE ~Unsettled(r)
    <3>1. UNCHANGED canon /\ Wrote(r, "cancelled", inbox[r].turn, inbox[r].target, inbox[r].settled)
      BY <1>7, <2>3, CancelWrites DEF RemoveItem
    <3> QED
      BY <1>1, <2>1, <3>1, WroteSteer
  <2> QED
    BY <2>2, <2>3
<1> QED
  BY <1>3, <1>4, <1>5, <1>6, <1>7

LEMMA StopSteer ==
    ASSUME TypeOK, InboxInv, LockInv, ExecInv, SteerInv,
           StopByUser \/ RunQueue \/ AdmitHead \/ FinishStop
    PROVE  SteerInv'
<1>1. CASE StopByUser \/ RunQueue
  <2>1. UNCHANGED <<inbox, session, exec, context, result, input, fifo>>
    BY <1>1 DEF StopByUser, RunQueue
  <2>2. ASSUME NEW by \in {"user", "drain", "remove"}, NEW i \in Requests \cup {None},
               current \in Requests, BeginStop(by, current, i)
        PROVE  \A u \in Requests : canon'[u] = canon[u] \/ canon'[u] = "cancelled"
    BY <2>2, BeginStopEffects
  <2>3. \A u \in Requests : canon'[u] = canon[u] \/ canon'[u] = "cancelled"
    <3>1. CASE UNCHANGED canon
      BY <3>1
    <3>2. CASE Live(current) /\ BeginStop("user", current, None)
      BY <2>2, <3>2 DEF Live, TypeOK
    <3>3. CASE /\ Pending # {} /\ Unsettled(Head) /\ current = inbox[Head].target
               /\ BeginStop("drain", current, Head)
      <4>1. Head \in Requests
        BY <3>3, HeadIsFirst DEF Pending, InboxInv
      <4>2. current \in Requests
        BY <3>3, <4>1 DEF Unsettled, TypeOK
      <4> QED
        BY <2>2, <3>3, <4>1, <4>2
    <3> QED
      BY <1>1, <3>1, <3>2, <3>3 DEF StopByUser, RunQueue
  <2> QED
    BY <2>1, <2>3, SameInboxSteer
<1>2. CASE AdmitHead
  <2>1. PICK r \in Requests :
           /\ UNCHANGED <<session, result>> /\ inbox[r].state = "pending" /\ Dispatch(r)
           /\ inbox[r].tries < MaxTries /\ session = "active" /\ InputLives
    BY <1>2, RequestNames DEF AdmitHead, LockInv, StopKnows, DeletedIsFree, Pending, InboxInv,
       InputLives, InputLife, TypeOK
  <2>2. CASE Admit(r)
    BY <2>1, <2>2, AdmitSteer
  <2>3. CASE CountTry(r) /\ UNCHANGED <<canon, input, fifo, exec, context>>
    <3>1. PICK s \in {"pending", "cancelled"} :
             Wrote(r, s, inbox[r].turn, inbox[r].target, inbox[r].settled)
      BY <2>1, <2>3, CountTryWrites
    <3> QED
      BY <2>1, <2>3, <3>1, WroteSteer
  <2> QED
    BY <2>1, <2>2, <2>3 DEF Dispatch
<1>3. CASE FinishStop
  <2>1. /\ UNCHANGED <<session, canon, exec, context, result>>
        /\ UNCHANGED <<input, fifo>> \/ \E t \in Requests : CloseInput(t) /\ ~Tracked(t)
    BY <1>3, FinishStopEffects DEF LockInv
  <2>2. CASE UNCHANGED inbox
    BY <2>1, <2>2, SameInboxSteer
  <2>3. CASE /\ stop.item \in Pending
             /\ \E s \in {"cancelled", inbox[stop.item].state} :
                  Wrote(stop.item, s, inbox[stop.item].turn, inbox[stop.item].target, TRUE)
    <3>1. PICK r \in Requests :
             /\ inbox[r].state = "pending"
             /\ \E s \in {"cancelled", inbox[r].state} :
                  Wrote(r, s, inbox[r].turn, inbox[r].target, TRUE)
      BY <2>3 DEF Pending
    <3>2. PICK s \in {"cancelled", inbox[r].state} :
             Wrote(r, s, inbox[r].turn, inbox[r].target, TRUE)
      BY <3>1
    <3> QED
      BY <2>1, <3>1, <3>2, WroteSteer
  <2> QED
    BY <1>3, <2>2, <2>3, FinishStopEffects DEF LockInv
<1> QED
  BY <1>1, <1>2, <1>3

LEMMA EndSteer ==
    ASSUME TypeOK, SteerInv, Delete \/ Restart
    PROVE  SteerInv'
<1>1. CASE Delete
  <2>1. \A r \in Requests :
           /\ inbox'[r].turn = inbox[r].turn
           /\ inbox[r].state = "consumed" => inbox'[r].state = "consumed"
    BY <1>1, DeleteWrites
  <2>2. /\ session' = "deleted" /\ input' = None /\ fifo' = {}
        /\ UNCHANGED <<exec, context, result>>
        /\ \A u \in Requests : canon'[u] = canon[u] \/ canon'[u] = "cancelled"
    BY <1>1, DeleteEffects
  <2>3. \A u \in Requests : Tracked(u)' => Tracked(u)
    BY <2>2 DEF Tracked
  <2>4. \A u \in Requests : /\ result'[u] = "completed" => result[u] = "completed"
                            /\ canon'[u] = "completed" => canon[u] = "completed"
    BY <2>2
  <2> QED
    BY <2>1, <2>2, <2>3, <2>4, SteerStays
<1>2. CASE Restart
  <2>1. /\ UNCHANGED inbox /\ input' = None /\ fifo' = {}
        /\ \A t \in Requests :
              exec'[t] \in {"none", "done"} /\ context'[t] = {} /\ result'[t] = "none"
        /\ \A u \in Requests : canon'[u] = canon[u] \/ canon'[u] = "cancelled"
    BY <1>2, RestartEffects
  <2>2. HeardAreOwn'
    BY <2>1 DEF HeardAreOwn
  <2>3. AllAreHeard'
    BY <2>1 DEF AllAreHeard, Tracked
  <2>4. CompleteIsClosed'
    BY <2>1 DEF CompleteIsClosed
  <2>5. NoSteerLost'
    BY <2>1 DEF SteerInv, NoSteerLost
  <2> QED
    BY <2>2, <2>3, <2>4, <2>5 DEF SteerInv
<1> QED
  BY <1>1, <1>2

-----------------------------------------------------------------------------
(* A live Turn is settled by its executor *)

LEMMA FaultsGrow ==
    ASSUME TypeOK, faults' = faults \/ Fault
    PROVE  faults > 0 => faults' > 0
BY CountTypes DEF Fault

LEMMA ExecutorFaults ==
    ASSUME TypeOK, InputLives, HeardAreOwn, LockInv, ExecutorSettles,
           NEW t \in Requests, ExecutorOf(t), ExecutorMoves(t)
    PROVE  ExecutorSettles'
<1>1. UNCHANGED <<session, current, held>>
  BY DEF ExecutorMoves
<1>2. faults > 0 => faults' > 0
  BY FaultsGrow DEF ExecutorOf, Prepare, MarkRunning, StartRunning, FailBefore,
     CloseAfterFailure, Step, Boundary, Break, Settle, SettleTurn, counted
<1>3. SUFFICES ASSUME held = None, Live(current)', exec'[current] \in {"closing", "done"}
               PROVE  faults' > 0
  BY <1>1 DEF ExecutorSettles
<1>4. current \in Requests /\ Live(current) /\ slot = current
  <2>1. current \in Requests
    BY <1>1, <1>3 DEF Live, TypeOK
  <2>2. Live(current)
    BY <1>1, <1>3, <2>1, ExecutorKeepsNames DEF Live
  <2> QED
    BY <1>3, <2>1, <2>2 DEF LockInv, SlotFollowsCanon
<1>5. CASE current # t
  <2>1. exec'[current] = exec[current]
    BY <1>4, <1>5 DEF ExecutorMoves, ExecMoves
  <2> QED
    BY <1>2, <1>3, <1>4, <2>1 DEF ExecutorSettles
<1>6. CASE current = t
  <2>1. Writable(t)
    <3>1. session = "active"
      BY <1>4, RequestNames DEF LockInv, DeletedStaysEmpty, TypeOK
    <3> QED
      BY <1>4, <1>6, <3>1 DEF Writable
  <2>2. CASE Prepare(t) \/ MarkRunning(t)
    <3>1. \E pc \in {"prepared", "started"} : To(t, pc)
      BY <1>4, <1>6, <2>2 DEF Prepare, MarkRunning
    <3>2. exec'[t] \in {"prepared", "started"}
      BY <3>1 DEF To, TypeOK
    <3> QED
      BY <1>3, <1>6, <3>2
  <2>3. CASE StartRunning(t)
    <3>1. \E pc \in {"working", "failing"} : To(t, pc)
      BY <2>3 DEF StartRunning
    <3>2. exec'[t] \in {"working", "failing"}
      BY <3>1 DEF To, TypeOK
    <3> QED
      BY <1>3, <1>6, <3>2
  <2>4. CASE FailBefore(t) \/ Settle(t)
    <3>1. \E s \in Ended : SettleTurn(t, s)
      BY <2>4 DEF FailBefore, Settle, InputLives, InputLife, TypeOK, Ended
    <3>2. PICK s \in Ended : SettleTurn(t, s)
      BY <3>1
    <3>3. faults' > 0 \/ canon'[t] = s
      BY <2>1, <3>2, SettleMoves
    <3> QED
      BY <1>1, <1>3, <1>6, <3>3 DEF Live, Ended
  <2>5. CASE CloseAfterFailure(t)
    BY <1>2, <1>3, <1>4, <1>6, <2>5 DEF CloseAfterFailure, ExecutorSettles
  <2>6. CASE Step(t) \/ Boundary(t) \/ Break(t)
    <3>1. exec'[t] = "working" \/ To(t, "settling")
      BY <2>6 DEF Step, Boundary, Break, memory
    <3>2. exec'[t] \in {"working", "settling"}
      BY <3>1 DEF To, TypeOK
    <3> QED
      BY <1>3, <1>6, <3>2
  <2> QED
    BY <2>2, <2>3, <2>4, <2>5, <2>6 DEF ExecutorOf
<1> QED
  BY <1>5, <1>6

LEMMA AdmitSettles ==
    ASSUME TypeOK, NEW r \in Requests, Admit(r)
    PROVE  ExecutorSettles'
<1>1. current' = r /\ r # None /\ (held' = r \/ exec'[r] = "spawned")
  BY AdmitEffects, RequestNames
<1> QED
  BY <1>1 DEF ExecutorSettles

LEMMA OthersSettle ==
    ASSUME TypeOK, InboxInv, LockInv, ExecutorSettles,
           \/ Client \/ StopByUser \/ RunQueue \/ AdmitHead \/ FinishStop \/ Delete \/ Restart
    PROVE  ExecutorSettles'
<1>1. CASE held' = "stop"
  BY <1>1, RequestNames DEF ExecutorSettles
<1>2. CASE ~Live(current)'
  BY <1>2 DEF ExecutorSettles
<1>3. CASE \E r \in Requests : Admit(r)
  BY <1>3, AdmitSettles
<1>4. CASE held = None /\ UNCHANGED <<canon, current, exec>> /\ (faults' = faults \/ Fault)
  <2>1. faults > 0 => faults' > 0
    BY <1>4, FaultsGrow
  <2> QED
    BY <1>4, <2>1 DEF ExecutorSettles, Live
<1>5. CASE Client
  <2>1. PICK r \in Requests : \/ Submit(r) \/ SubmitReplacement(r) \/ SubmitSteer(r)
                              \/ Guide(r) \/ RetryItem(r) \/ RemoveItem(r)
    BY <1>5 DEF Client
  <2>2. CASE Submit(r) \/ SubmitReplacement(r) \/ SubmitSteer(r) \/ Guide(r) \/ RetryItem(r)
    BY <1>3, <1>4, <2>2 DEF Submit, SubmitReplacement, SubmitSteer, Guide, RetryItem, Free, counted,
       disk
  <2>3. CASE RemoveItem(r)
    BY <1>1, <1>4, <2>3 DEF RemoveItem, BeginStop, Free, counted
  <2> QED
    BY <2>1, <2>2, <2>3
<1>6. CASE StopByUser
  BY <1>1, <1>4, <1>6 DEF StopByUser, BeginStop, Free
<1>7. CASE RunQueue
  BY <1>1, <1>4, <1>7 DEF RunQueue, BeginStop, Free
<1>8. CASE AdmitHead
  <2>1. stop.item \in Requests /\ Dispatch(stop.item) /\ ~Live(current)
    BY <1>8 DEF AdmitHead, LockInv, StopKnows, Pending
  <2>2. CASE UNCHANGED <<canon, current>>
    BY <1>2, <2>1, <2>2 DEF Live
  <2> QED
    BY <1>3, <2>1, <2>2 DEF Dispatch
<1>9. CASE FinishStop
  <2>1. ~Live(current) /\ UNCHANGED <<canon, current>>
    BY <1>9, FinishStopEffects DEF LockInv
  <2> QED
    BY <1>2, <2>1 DEF Live
<1>10. CASE Delete
  <2>1. current' = None
    BY <1>10, DeleteEffects
  <2> QED
    BY <1>2, <2>1 DEF Live
<1>11. CASE Restart
  BY <1>2, <1>11, RestartEffects
<1> QED
  BY <1>5, <1>6, <1>7, <1>8, <1>9, <1>10, <1>11

-----------------------------------------------------------------------------
(* The invariant *)

LEMMA InitInv == Init => IInv
<1> SUFFICES ASSUME Init PROVE IInv
  OBVIOUS
<1> USE DEF Init
<1>1. NewInput \in Inputs /\ NewInput.state = "none" /\ NewInput.turn = None
      /\ NewInput.target = None /\ NewInput.settled = FALSE /\ NewInput.tries = 0
  BY SessionTurnAssumption DEF NewInput, Inputs
<1>2. TypeOK
  <2>1. Cardinality(Requests) \in Nat
    BY SessionTurnAssumption, FS_CardinalityType
  <2>2. /\ inbox \in [Requests -> Inputs] /\ at \in [Requests -> 0 .. Cardinality(Requests)]
    BY <1>1, <2>1
  <2>3. /\ canon \in [Requests -> Statuses] /\ exec \in [Requests -> ExecPCs]
        /\ context \in [Requests -> SUBSET Requests]
        /\ result \in [Requests -> {"none"} \cup Ended]
    BY DEF Statuses, ExecPCs
  <2>4. /\ wakes \in 0 .. MaxWakes /\ stops \in 0 .. MaxStops /\ faults \in 0 .. MaxFaults
        /\ crashes \in 0 .. MaxCrashes
    BY SessionTurnAssumption
  <2>5. held = "stop" <=> stop.by # "none"
    BY RequestNames, NoStopType
  <2> QED
    BY <2>2, <2>3, <2>4, <2>5, NoStopType DEF TypeOK
<1>3. InboxInv
  <2>1. Accepted = {} /\ Cardinality(Accepted) = 0
    BY FS_EmptySet DEF Accepted
  <2>2. Numbered
    BY <1>1, <2>1 DEF Numbered
  <2>3. InputLives
    BY <1>1, SessionTurnAssumption DEF InputLives, InputLife
  <2>4. OneReplacement
    BY <1>1 DEF OneReplacement, Replacements, Pending
  <2> QED
    BY <2>2, <2>3, <2>4 DEF InboxInv
<1>4. LockInv
  BY RequestNames DEF LockInv, StopKnows, SlotFollowsCanon, DeletedIsFree, DeletedStaysEmpty, Live
<1>5. ExecInv
  BY <1>1 DEF ExecInv, ExecutorOwns, OneExecutor, SettledIsQuiet, Tracked
<1>6. SteerInv
  BY RequestNames DEF SteerInv, HeardAreOwn, AllAreHeard, CompleteIsClosed, NoSteerLost, Tracked
<1>7. ExecutorSettles
  BY DEF ExecutorSettles, Live
<1> QED
  BY <1>2, <1>3, <1>4, <1>5, <1>6, <1>7 DEF IInv

LEMMA NextInv == IInv /\ [Next]_vars => IInv'
<1> SUFFICES ASSUME IInv, [Next]_vars PROVE IInv'
  OBVIOUS
<1> USE DEF IInv
<1>0. Numbered /\ InputLives /\ OneReplacement /\ StopKnows /\ DeletedIsFree /\ HeardAreOwn
  BY DEF InboxInv, LockInv, SteerInv
<1>1. CASE Client
  <2>1. PICK r \in Requests : \/ Submit(r) \/ SubmitReplacement(r) \/ SubmitSteer(r)
                              \/ Guide(r) \/ RetryItem(r) \/ RemoveItem(r)
    BY <1>1 DEF Client
  <2>2. TypeOK' /\ Numbered'
    BY <1>0, <2>1, SubmitTypes, ItemTypes
  <2>3. InputLives' /\ OneReplacement'
    BY <2>1, SubmitInbox, ItemInbox
  <2>4. LockInv'
    BY <2>1, ClientLock, BeginLock
  <2>5. ExecInv'
    BY <2>1, SubmitExec, ItemExec
  <2>6. SteerInv'
    BY <2>1, ClientSteer
  <2> QED
    BY <1>1, <2>2, <2>3, <2>4, <2>5, <2>6, OthersSettle DEF InboxInv
<1>2. CASE StopByUser \/ RunQueue
  <2>1. TypeOK' /\ Numbered'
    BY <1>0, <1>2, UserStopTypes, QueueTypes
  <2>2. InputLives' /\ OneReplacement'
    BY <1>2, StopInbox
  <2>3. LockInv'
    BY <1>2, BeginLock, QueueLock
  <2>4. ExecInv' /\ SteerInv'
    BY <1>0, <1>2, StopExec, StopSteer
  <2> QED
    BY <1>2, <2>1, <2>2, <2>3, <2>4, OthersSettle DEF InboxInv
<1>3. CASE AdmitHead \/ FinishStop
  <2>1. TypeOK' /\ Numbered'
    BY <1>0, <1>3, AdmitHeadTypes, FinishStopTypes
  <2>2. InputLives' /\ OneReplacement'
    BY <1>0, <1>3, AdmitHeadInbox, FinishStopInbox
  <2>3. LockInv'
    BY <1>3, AdmitHeadLock, FinishStopLock
  <2>4. ExecInv' /\ SteerInv'
    BY <1>0, <1>3, StopExec, StopSteer
  <2> QED
    BY <1>3, <2>1, <2>2, <2>3, <2>4, OthersSettle DEF InboxInv
<1>4. CASE Execute
  <2>1. PICK t \in Requests : ExecutorOf(t)
    BY <1>4 DEF Execute, ExecutorOf
  <2>2. ExecutorMoves(t) /\ TypeOK'
    BY <1>0, <2>1, ExecutorEffects
  <2>3. InboxInv'
    BY <1>0, <2>2, ExecutorInbox
  <2>4. LockInv'
    BY <1>0, <2>1, <2>2, ExecutorInput, ExecutorKeepsLock
  <2>5. ExecInv'
    BY <1>0, <2>2, ExecutorKeepsExec
  <2>6. SteerInv'
    BY <1>0, <2>1, <2>2, ExecutorSteer
  <2>7. ExecutorSettles'
    BY <1>0, <2>1, <2>2, ExecutorFaults
  <2> QED
    BY <2>2, <2>3, <2>4, <2>5, <2>6, <2>7
<1>5. CASE Delete \/ Restart
  <2>1. TypeOK' /\ Numbered'
    BY <1>0, <1>5, EndTypes
  <2>2. InputLives' /\ OneReplacement'
    BY <1>5, EndInbox
  <2>3. LockInv' /\ ExecInv' /\ SteerInv'
    BY <1>5, EndLock, EndExec, EndSteer
  <2> QED
    BY <1>5, <2>1, <2>2, <2>3, OthersSettle DEF InboxInv
<1>6. CASE UNCHANGED vars
  <2>1. UNCHANGED <<session, canon, current, inbox, at, held, slot, input, fifo, exec, context,
                    result, stop, wakes, stops, faults, crashes>>
    BY <1>6 DEF vars, disk, memory, counted
  <2>2. TypeOK'
    BY <2>1 DEF TypeOK
  <2>3. InboxInv'
    BY <2>1 DEF InboxInv, Numbered, Accepted, InputLives, InputLife, OneReplacement, Replacements,
       Pending
  <2>4. LockInv'
    BY <2>1 DEF LockInv, StopKnows, SlotFollowsCanon, DeletedIsFree, DeletedStaysEmpty,
       Replacements, Pending, Unsettled, Live
  <2>5. ExecInv'
    BY <2>1 DEF ExecInv, ExecutorOwns, OneExecutor, SettledIsQuiet, Tracked
  <2>6. SteerInv'
    BY <2>1 DEF SteerInv, HeardAreOwn, AllAreHeard, CompleteIsClosed, NoSteerLost, Tracked
  <2>7. ExecutorSettles'
    BY <2>1 DEF ExecutorSettles, Live
  <2> QED
    BY <2>2, <2>3, <2>4, <2>5, <2>6, <2>7
<1> QED
  BY <1>1, <1>2, <1>3, <1>4, <1>5, <1>6 DEF Next

LEMMA Invariance == Spec => []IInv
<1> QED
  BY InitInv, NextInv, PTL DEF Spec

-----------------------------------------------------------------------------
(* The order in which Turns start *)

LEMMA OnlyAdmitStarts ==
    ASSUME IInv, Next, NEW r \in Requests, canon[r] = "none", canon'[r] # "none"
    PROVE  \/ Submit(r) /\ Pending = {}
           \/ AdmitHead /\ stop.item = r
<1> USE DEF IInv
<1>0. Numbered /\ InputLives /\ OneReplacement /\ StopKnows /\ DeletedIsFree /\ HeardAreOwn
  BY DEF InboxInv, LockInv, SteerInv
<1>1. ~UNCHANGED canon
  OBVIOUS
<1>2. ASSUME NEW by \in {"user", "drain", "remove"}, NEW i \in Requests \cup {None},
             current \in Requests, BeginStop(by, current, i)
      PROVE  FALSE
  BY <1>2, BeginStopEffects
<1>3. ASSUME NEW q \in Requests, Admit(q) PROVE q = r
  BY <1>3, AdmitEffects
<1>4. CASE Client
  <2>1. PICK q \in Requests : \/ Submit(q) \/ SubmitReplacement(q) \/ SubmitSteer(q)
                              \/ Guide(q) \/ RetryItem(q) \/ RemoveItem(q)
    BY <1>4 DEF Client
  <2>2. ~(SubmitReplacement(q) \/ SubmitSteer(q) \/ Guide(q) \/ RetryItem(q))
    BY <1>1 DEF SubmitReplacement, SubmitSteer, Guide, RetryItem, disk
  <2>3. ~RemoveItem(q)
    <3>1. SUFFICES ASSUME RemoveItem(q) PROVE FALSE
      OBVIOUS
    <3>2. current \in Requests /\ BeginStop("remove", current, q)
      BY <1>1, <3>1 DEF RemoveItem, Unsettled, TypeOK
    <3> QED
      BY <1>2, <3>2
  <2>4. Submit(q) /\ Admit(q) /\ Pending = {}
    BY <1>1, <2>1, <2>2, <2>3 DEF Submit
  <2> QED
    BY <1>3, <2>4
<1>5. CASE StopByUser
  <2>1. current \in Requests /\ BeginStop("user", current, None)
    BY <1>1, <1>5 DEF StopByUser, Live, TypeOK
  <2> QED
    BY <1>2, <2>1
<1>6. CASE RunQueue
  <2>1. /\ Pending # {} /\ Unsettled(Head) /\ current = inbox[Head].target
        /\ BeginStop("drain", current, Head)
    BY <1>1, <1>6 DEF RunQueue
  <2>2. Head \in Requests
    BY <1>0, <2>1, HeadIsFirst DEF Pending
  <2>3. current \in Requests
    BY <2>1, <2>2 DEF Unsettled, TypeOK
  <2> QED
    BY <1>2, <2>1, <2>2, <2>3
<1>7. CASE AdmitHead
  <2>1. stop.item \in Requests /\ Admit(stop.item)
    BY <1>0, <1>1, <1>7 DEF AdmitHead, StopKnows, Pending, Dispatch
  <2> QED
    BY <1>3, <1>7, <2>1
<1>8. CASE FinishStop
  BY <1>1, <1>8 DEF FinishStop
<1>9. CASE Execute
  <2>1. PICK t \in Requests : ExecutorOf(t)
    BY <1>9 DEF Execute, ExecutorOf
  <2>2. ExecutorMoves(t)
    BY <1>0, <2>1, ExecutorEffects
  <2> QED
    BY <1>0, <2>2, ExecutorKeepsNames
<1>10. CASE Delete \/ Restart
  BY <1>10, DeleteEffects, RestartEffects
<1> QED
  BY <1>4, <1>5, <1>6, <1>7, <1>8, <1>9, <1>10 DEF Next

StartInOrder(r) ==
    canon[r] = "none" /\ canon'[r] # "none" =>
      /\ \A q \in Pending \ {r} : inbox[r].target # None \/ (at'[r] > 0 /\ at[q] > at'[r])
      /\ inbox[r].target # None => ~Tracked(inbox[r].target)

LEMMA StartStep ==
    ASSUME IInv, Next, NEW r \in Requests
    PROVE  StartInOrder(r)
<1> SUFFICES ASSUME canon[r] = "none", canon'[r] # "none" PROVE StartInOrder(r)
  BY DEF StartInOrder
<1> USE DEF IInv
<1>1. CASE Submit(r) /\ Pending = {}
  <2>1. inbox[r].target = None
    BY <1>1 DEF Submit, Unknown, InboxInv, InputLives, InputLife
  <2> QED
    BY <1>1, <2>1 DEF StartInOrder
<1>2. CASE AdmitHead /\ stop.item = r
  <2>1. /\ UNCHANGED at /\ inbox[r].state = "pending" /\ ~Unsettled(r)
        /\ \A q \in Pending \ {r} : inbox[r].target # None \/ at[q] > at[r]
    BY <1>2 DEF AdmitHead, LockInv, StopKnows, Pending
  <2>2. at[r] > 0
    <3>1. at[r] \in Nat
      BY SessionTurnAssumption, FS_CardinalityType DEF TypeOK
    <3>2. at[r] # 0
      BY <2>1 DEF InboxInv, Numbered
    <3> QED
      BY <3>1, <3>2
  <2>3. inbox[r].target # None => ~Tracked(inbox[r].target)
    BY <2>1 DEF Unsettled, ExecInv, SettledIsQuiet
  <2> QED
    BY <2>1, <2>2, <2>3 DEF StartInOrder
<1> QED
  BY <1>1, <1>2, OnlyAdmitStarts

-----------------------------------------------------------------------------
(***************************************************************************)
(* TypeOK is an invariant: the lock is held for a stop exactly while a     *)
(* stop is under way, counters stay within their bounds, and no input is   *)
(* numbered beyond the number of inputs.                                   *)
(***************************************************************************)
THEOREM TypeCorrect == Spec => []TypeOK
<1>1. IInv => TypeOK
  BY DEF IInv
<1> QED
  BY <1>1, Invariance, PTL

(***************************************************************************)
(* The coordinator's slot and the canonical Turn, which no transaction     *)
(* spans, tell the same story whenever the Turn lock is free.              *)
(***************************************************************************)
THEOREM SlotAndTurn == Spec => []SlotFollowsCanon
<1>1. IInv => SlotFollowsCanon
  BY DEF IInv, LockInv
<1> QED
  BY <1>1, Invariance, PTL

(***************************************************************************)
(* No two executors of one session are ever at work together: a stop waits *)
(* for the old one before the next Turn is admitted.                       *)
(***************************************************************************)
THEOREM ExecutorsApart == Spec => []OneExecutor
<1>1. IInv => OneExecutor
  BY DEF IInv, ExecInv
<1> QED
  BY <1>1, Invariance, PTL

(***************************************************************************)
(* A live Turn without an executor that settles it has met a failed write. *)
(***************************************************************************)
THEOREM OnlyFaultsOrphan == Spec => []NoOrphanTurn
<1>1. IInv => NoOrphanTurn
  BY DEF IInv, ExecutorSettles, NoOrphanTurn
<1> QED
  BY <1>1, Invariance, PTL

(***************************************************************************)
(* A Turn that completes has given every input steered into it to the      *)
(* model: take_session_turn_steers_or_close leaves none behind.            *)
(***************************************************************************)
THEOREM SteersAreHeard == Spec => []NoSteerLost
<1>1. IInv => NoSteerLost
  BY DEF IInv, SteerInv
<1> QED
  BY <1>1, Invariance, PTL

(***************************************************************************)
(* A deleted session comes back in no component, whoever was waiting for   *)
(* its Turn lock when delete_session_and_resources ran.                    *)
(***************************************************************************)
THEOREM DeletedIsEmpty == Spec => []DeletedStaysEmpty
<1>1. IInv => DeletedStaysEmpty
  BY DEF IInv, LockInv
<1> QED
  BY <1>1, Invariance, PTL

(***************************************************************************)
(* Turns start for waiting inputs in the order of the queue, and for a     *)
(* replacement only once the Turn it replaces is quiet.                    *)
(***************************************************************************)
THEOREM InOrder == Spec => StartsInOrder
<1>1. IInv /\ [Next]_vars =>
        [\A r \in Requests :
            canon[r] = "none" /\ canon'[r] # "none" =>
              /\ \A q \in Pending \ {r} : inbox[r].target # None \/ (at'[r] > 0 /\ at[q] > at'[r])
              /\ inbox[r].target # None => ~Tracked(inbox[r].target)]_vars
  BY StartStep DEF StartInOrder
<1> QED
  BY <1>1, Invariance, PTL DEF Spec, StartsInOrder

=============================================================================
