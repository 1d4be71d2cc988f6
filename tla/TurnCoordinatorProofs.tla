----------------------- MODULE TurnCoordinatorProofs -----------------------
(***************************************************************************)
(* Theorems about TurnCoordinator for every set of Turns, requests,        *)
(* fingerprints and profiles, every replay limit and both kinds of         *)
(* restore (ContinueIsAgreed: the startup restore only).                   *)
(*                                                                         *)
(* The invariants come in four layers, each proved from those before it:   *)
(* IInv (identities and the slot), BooksInv (requests and acceptance       *)
(* times), Window (the replay index), RestoreInv (a startup restore).      *)
(***************************************************************************)
EXTENDS TurnCoordinator, TLAPS, FiniteSetTheorems

\* A Turn id that was never generated was never admitted, and the Turn a
\* Continue is going to admit was generated for it alone: no record can
\* already carry the id that an acceptance introduces.
Unborn ==
    /\ \A t \in Turns : stamp[t] = 0 => born[t] = None
    /\ cont # None => /\ stamp[cont.next.turn] # 0
                      /\ born[cont.next.turn] = None

\* The inductive invariant.
IInv ==
    /\ TypeOK
    /\ Unborn
    /\ IdentityStable
    /\ SlotExclusive

-----------------------------------------------------------------------------
(* What record_finished does to the replay index                           *)

\* record_finished leaves every request with no record, or with the new record
\* under its own request and the previous one elsewhere.
LEMMA RecordedLemma ==
    ASSUME TypeOK, NEW fin \in FinishedTurns, RecordFinished(fin)
    PROVE  /\ recent' \in [Requests -> FinishedTurns \cup {None}]
           /\ nextOrder' \in Nat
           /\ \A r \in Requests :
                  \/ recent'[r] = None
                  \/ r = fin.request /\ recent'[r] = fin
                  \/ r # fin.request /\ recent'[r] = recent[r]
<1> DEFINE inserted == [recent EXCEPT ![fin.request] = fin]
<1>1. inserted \in [Requests -> FinishedTurns \cup {None}]
  BY DEF TypeOK
<1>2. \/ recent' = inserted
      \/ recent' = [inserted EXCEPT ![Oldest(inserted)] = None]
  BY DEF RecordFinished
<1>3. recent' \in [Requests -> FinishedTurns \cup {None}]
  BY <1>1, <1>2
<1>4. \A r \in Requests :
          \/ recent'[r] = None
          \/ recent'[r] = inserted[r]
  BY <1>1, <1>2
<1>5. fin.request \in Requests
  BY DEF FinishedTurns
<1>6. \A r \in Requests :
          inserted[r] = IF r = fin.request THEN fin ELSE recent[r]
  BY <1>5 DEF TypeOK
<1> QED
  BY <1>3, <1>4, <1>6 DEF RecordFinished, TypeOK

\* The record finish writes for the Turn in the slot is well formed and keeps
\* the identity of that Turn.
LEMMA FinishedLemma ==
    ASSUME TypeOK, NEW rec \in ActiveTurns \cup Facts, NEW st \in Terminal
    PROVE  /\ FinishedOf(rec, st) \in FinishedTurns
           /\ IdentityOf(FinishedOf(rec, st)) = IdentityOf(rec)
           /\ FinishedOf(rec, st).request = rec.request
           /\ FinishedOf(rec, st).turn = rec.turn
           /\ FinishedOf(rec, st) # None
BY NoneAssumption
   DEF TypeOK, FinishedOf, FinishedTurns, ActiveTurns, Facts, IdentityOf

\* The statuses recovery produces.
LEMMA RecoveredLemma ==
    /\ \A st \in CanonicalLive : RecoveredStatus(st) \in Live
    /\ \A st \in CanonicalTerminal : RecoveredStatus(st) \in Terminal
BY DEF CanonicalLive, CanonicalTerminal, RecoveredStatus, Live, Terminal

-----------------------------------------------------------------------------
(* Type correctness                                                        *)

\* accept keeps the types, whichever way it decides.
LEMMA AcceptedTypes ==
    ASSUME TypeOK, NEW adm \in Admissions, Accepted(adm)
    PROVE  /\ active' \in ActiveTurns
           /\ recent' = recent
           /\ nextOrder' = nextOrder
           /\ attemptSeq' \in Nat
           /\ submitting' \subseteq Identities
           /\ born' \in [Turns -> Identities \cup {None}]
<1>1. Fresh(adm) \in ActiveTurns
  BY DEF TypeOK, Admissions, Fresh, ActiveTurns, Live
<1>2. IdentityOf(Fresh(adm)) \in Identities
  BY <1>1 DEF ActiveTurns, Identities, IdentityOf
<1>3. adm.turn \in Turns
  BY DEF Admissions
<1> QED
  BY <1>1, <1>2, <1>3 DEF Accepted, TypeOK

\* A generated acceptance time is a number.
LEMMA GenerateTypes ==
    ASSUME TypeOK, NEW t \in Turns, Generate(t)
    PROVE  clock' \in Nat /\ stamp' \in [Turns -> Nat]
BY DEF TypeOK, Generate

\* finish keeps the types.
LEMMA ReleaseTypes ==
    ASSUME TypeOK, NEW att, NEW st, Release(att, st)
    PROVE  /\ active' = None
           /\ recent' \in [Requests -> FinishedTurns \cup {None}]
           /\ nextOrder' \in Nat
           /\ attemptSeq' = attemptSeq
           /\ input' \in Inputs \cup {None}
<1>1. active \in ActiveTurns /\ st \in Terminal
  BY DEF TypeOK, Release, Owns
<1>2. FinishedOf(active, st) \in FinishedTurns
  BY <1>1, FinishedLemma
<1>3. RecordFinished(FinishedOf(active, st))
  BY DEF Release
<1>4. /\ recent' \in [Requests -> FinishedTurns \cup {None}]
      /\ nextOrder' \in Nat
  BY <1>2, <1>3, RecordedLemma
<1> QED
  BY <1>4 DEF Release, ClosedFor, TypeOK

\* One Recover command keeps the types.
LEMMA RecoverTypes ==
    ASSUME TypeOK, NEW f \in Facts, Recover(f)
    PROVE  /\ active' \in ActiveTurns \cup {None}
           /\ recent' \in [Requests -> FinishedTurns \cup {None}]
           /\ nextOrder' \in Nat
<1>1. f.request \in Requests /\ f.seq \in Nat
  BY DEF Facts
<1>2. CASE FillsFinished(f) /\ recent' = [recent EXCEPT ![f.request].seq = f.seq]
           /\ UNCHANGED <<active, nextOrder>>
  <2>1. recent[f.request] \in FinishedTurns
    BY <1>1, <1>2 DEF FillsFinished, TypeOK
  <2>2. [recent[f.request] EXCEPT !.seq = f.seq] \in FinishedTurns
    BY <1>1, <2>1 DEF FinishedTurns
  <2> QED
    BY <1>1, <1>2, <2>2 DEF TypeOK
<1>3. CASE /\ RecordsFinished(f)
           /\ active' = IF active # None /\ active.turn = f.turn THEN None
                                                                 ELSE active
           /\ RecordFinished(FinishedOf(f, RecoveredStatus(f.status)))
  <2>1. FinishedOf(f, RecoveredStatus(f.status)) \in FinishedTurns
    BY <1>3, RecoveredLemma, FinishedLemma DEF RecordsFinished
  <2> QED
    BY <1>3, <2>1, RecordedLemma DEF TypeOK
<1>4. CASE FillsActive(f) /\ active' = [active EXCEPT !.seq = f.seq]
           /\ UNCHANGED <<recent, nextOrder>>
  <2>1. active \in ActiveTurns
    BY <1>4 DEF FillsActive, TypeOK
  <2> QED
    BY <1>1, <1>4, <2>1 DEF TypeOK, ActiveTurns
<1>5. CASE /\ Revives(f)
           /\ active' = [turn |-> f.turn, request |-> f.request, fp |-> f.fp,
                         profile |-> f.profile, n |-> f.n,
                         status |-> RecoveredStatus(f.status), seq |-> f.seq]
           /\ UNCHANGED <<recent, nextOrder>>
  <2>1. RecoveredStatus(f.status) \in Live
    BY <1>5, RecoveredLemma DEF Revives
  <2> QED
    BY <1>5, <2>1 DEF TypeOK, Facts, ActiveTurns
<1>6. CASE UNCHANGED slot
  BY <1>6 DEF slot, TypeOK
<1> QED
  BY <1>2, <1>3, <1>4, <1>5, <1>6 DEF Recover

\* Every step keeps the types.
LEMMA TypeStep ==
    ASSUME TypeOK, [Next]_vars
    PROVE  TypeOK'
<1> USE DEF TypeOK
<1>1. ASSUME NEW adm \in Admissions, Start(adm)
      PROVE  TypeOK'
  <2>1. clock' \in Nat /\ stamp' \in [Turns -> Nat]
    BY <1>1, GenerateTypes DEF Start, Admissions
  <2>2. CASE Accepted(adm)
    BY <1>1, <2>1, <2>2, AcceptedTypes DEF Start
  <2>3. CASE NotAccepted(adm)
    BY <1>1, <2>1, <2>3 DEF Start, NotAccepted, slot
  <2> QED
    BY <1>1, <2>2, <2>3 DEF Start
<1>2. ASSUME NEW att \in issued, NEW st \in Live, SetStatus(att, st)
      PROVE  TypeOK'
  <2>1. active \in ActiveTurns
    BY <1>2 DEF SetStatus, Owns
  <2>2. active' \in ActiveTurns
    BY <1>2, <2>1 DEF SetStatus, ActiveTurns
  <2> QED
    BY <1>2, <2>2 DEF SetStatus, callers, environment
<1>3. ASSUME NEW att \in issued, NEW st \in Terminal, Finish(att, st)
      PROVE  TypeOK'
  BY <1>3, ReleaseTypes DEF Finish, callers, environment
<1>4. ASSUME NEW att, Abort(att)
      PROVE  TypeOK'
  BY <1>4 DEF Abort, environment
<1>5. ASSUME NEW att \in issued, NEW st \in Terminal, NEW adm \in Admissions,
             ContinueCheck(att, st, adm)
      PROVE  TypeOK'
  <2>1. cont' \in Continuations
    BY <1>5 DEF ContinueCheck, Continuations
  <2>2. clock' \in Nat /\ stamp' \in [Turns -> Nat]
    BY <1>5, GenerateTypes DEF ContinueCheck, Admissions
  <2> QED
    BY <1>5, <2>1, <2>2 DEF ContinueCheck, coordinator, slot
<1>6. CASE ContinueFinish
  <2>1. cont \in Continuations
    BY <1>6 DEF ContinueFinish
  <2>2. cont' \in Continuations \cup {None}
    BY <1>6, <2>1 DEF ContinueFinish, Continuations
  <2>3. \/ Release(cont.prev, cont.status)
        \/ UNCHANGED coordinator
    BY <1>6 DEF ContinueFinish
  <2>4. /\ active' \in ActiveTurns \cup {None}
        /\ recent' \in [Requests -> FinishedTurns \cup {None}]
        /\ nextOrder' \in Nat
        /\ attemptSeq' \in Nat
        /\ input' \in Inputs \cup {None}
    BY <2>3, ReleaseTypes DEF coordinator, slot
  <2> QED
    BY <1>6, <2>2, <2>4 DEF ContinueFinish, environment
<1>7. CASE ContinueTerminal
  <2>1. cont' \in Continuations \cup {None}
    BY <1>7 DEF ContinueTerminal, Continuations
  <2> QED
    BY <1>7, <2>1 DEF ContinueTerminal, coordinator, slot, environment
<1>8. CASE ContinueAccept
  <2>1. cont.next \in Admissions
    BY <1>8 DEF ContinueAccept, Continuations
  <2>2. CASE Accepted(cont.next)
    BY <1>8, <2>1, <2>2, AcceptedTypes DEF ContinueAccept
  <2>3. CASE NotAccepted(cont.next)
    BY <1>8, <2>3 DEF ContinueAccept, NotAccepted, slot
  <2> QED
    BY <1>8, <2>2, <2>3 DEF ContinueAccept
<1>9. ASSUME NEW att \in issued, BeginInput(att)
      PROVE  TypeOK'
  <2>1. input' \in Inputs
    BY <1>9 DEF BeginInput, Inputs, Attempts
  <2> QED
    BY <1>9, <2>1 DEF BeginInput, slot, callers, environment
<1>10. ASSUME NEW att \in issued, SteerCheck(att)
       PROVE  TypeOK'
  <2>1. att.turn \in Turns
    BY <1>10 DEF Attempts
  <2> QED
    BY <1>10, <2>1 DEF SteerCheck, coordinator, slot, environment
<1>11. ASSUME NEW t \in steering, SteerCommit(t)
       PROVE  TypeOK'
  <2>1. input' \in Inputs \cup {None}
    BY <1>11 DEF SteerCommit, Inputs
  <2> QED
    BY <1>11, <2>1 DEF SteerCommit, slot, environment
<1>12. ASSUME NEW t \in Turns, Drain(t)
       PROVE  TypeOK'
  <2>1. input' \in Inputs \cup {None}
    BY <1>12 DEF Drain, Inputs
  <2> QED
    BY <1>12, <2>1 DEF Drain, slot, callers, environment
<1>13. ASSUME NEW t \in Turns, TakeOrClose(t)
       PROVE  TypeOK'
  BY <1>13 DEF TakeOrClose, slot, callers, environment
<1>14. ASSUME NEW att \in issued, CloseInput(att)
       PROVE  TypeOK'
  BY <1>14 DEF CloseInput, ClosedFor, slot, callers, environment
<1>15. CASE RecoverNext
  <2>1. PICK f \in todo : /\ todo' = todo \ {f}
                          /\ issued' = issued \cup {AttemptOf(f)}
                          /\ Recover(f)
    BY <1>15 DEF RecoverNext, Newest
  <2>2. f \in Facts /\ AttemptOf(f) \in Attempts
    BY <2>1 DEF Facts, AttemptOf, Attempts
  <2>3. /\ active' \in ActiveTurns \cup {None}
        /\ recent' \in [Requests -> FinishedTurns \cup {None}]
        /\ nextOrder' \in Nat
    BY <2>1, <2>2, RecoverTypes
  <2> QED
    BY <1>15, <2>1, <2>2, <2>3 DEF RecoverNext, environment
<1>16. CanonicalFacts \subseteq Facts
  BY DEF CanonicalFacts
<1>17. CASE Restart
  BY <1>16, <1>17 DEF Restart, environment
<1>18. CASE BeginRestore
  BY <1>16, <1>18 DEF BeginRestore, coordinator, slot, environment
<1>19. CASE ClearState
  BY <1>19 DEF ClearState, environment
<1>20. CASE ClearInputs
  BY <1>20 DEF ClearInputs, slot
<1>21. ASSUME NEW id \in submitting, CanonAccept(id)
       PROVE  TypeOK'
  <2>1. /\ AttemptOf(id) \in Attempts
        /\ [turn |-> id.turn, request |-> id.request, fp |-> id.fp,
            profile |-> id.profile, n |-> id.n, status |-> "pending",
            seq |-> stamp[id.turn]] \in Facts
    BY <1>21 DEF Identities, AttemptOf, Attempts, Facts, CanonicalLive
  <2> QED
    BY <1>21, <2>1 DEF CanonAccept, coordinator, slot
<1>22. ASSUME NEW t \in Turns, NEW st \in Reached, CanonStatus(t, st)
       PROVE  TypeOK'
  <2>1. [canon[t] EXCEPT !.status = st] \in Facts
    BY <1>22, ConstantsAssumption DEF CanonStatus, Facts
  <2> QED
    BY <1>22, <2>1 DEF CanonStatus, coordinator, slot, callers
<1>23. CASE UNCHANGED vars
  BY <1>23 DEF vars, coordinator, slot, callers, environment
<1> QED
  BY <1>1, <1>2, <1>3, <1>4, <1>5, <1>6, <1>7, <1>8, <1>9, <1>10, <1>11, <1>12,
     <1>13, <1>14, <1>15, <1>17, <1>18, <1>19, <1>20, <1>21, <1>22, <1>23
  DEF Next

\* In every state of every behaviour the coordinator's maps, its callers' data
\* and the canonical facts have the declared shape; in particular the slot
\* never holds a Turn in a terminal status, so the terminal-status branches of
\* set_status, finish and abort on the slot are dead.
THEOREM TypeCorrect == Spec => []TypeOK
<1>1. Init => TypeOK
  BY DEF Init, TypeOK
<1>2. TypeOK /\ [Next]_vars => TypeOK'
  BY TypeStep
<1> QED
  BY <1>1, <1>2, PTL DEF Spec

-----------------------------------------------------------------------------
(* Identity and exclusive ownership                                        *)

\* Every record in the slot, in the replay index, among the facts and among
\* the pending submissions belongs to an admitted Turn.
LEMMA RecordsAreBorn ==
    ASSUME IInv
    PROVE  /\ active # None => active.turn \in Turns /\ born[active.turn] # None
           /\ \A r \in Held : recent[r].turn \in Turns
                              /\ born[recent[r].turn] # None
           /\ \A f \in todo \cup CanonicalFacts :
                  f.turn \in Turns /\ born[f.turn] # None
           /\ \A id \in submitting : id.turn \in Turns /\ born[id.turn] # None
<1>1. active # None => IdentityOf(active) \in Identities /\ active.turn \in Turns
  BY DEF IInv, TypeOK, ActiveTurns, Identities, IdentityOf
<1>2. \A r \in Held : /\ IdentityOf(recent[r]) \in Identities
                      /\ recent[r].turn \in Turns
  BY DEF IInv, TypeOK, Held, FinishedTurns, Identities, IdentityOf
<1>3. \A f \in todo \cup CanonicalFacts : f \in Facts
  BY DEF IInv, TypeOK, CanonicalFacts
<1>4. \A f \in Facts : IdentityOf(f) \in Identities /\ f.turn \in Turns
  BY DEF Facts, Identities, IdentityOf
<1>5. \A id \in submitting : id \in Identities /\ id.turn \in Turns
  BY DEF IInv, TypeOK, Identities
<1>6. IdentityStable
  BY DEF IInv
<1> QED
  BY <1>1, <1>2, <1>3, <1>4, <1>5, <1>6, NoneAssumption DEF IdentityStable

\* accept introduces the identity it records and disturbs no other.
LEMMA AcceptedInv ==
    ASSUME IInv, NEW adm \in Admissions, Accepted(adm), born[adm.turn] = None
    PROVE  /\ active' # None
           /\ active'.turn = adm.turn
           /\ born'[active'.turn] = IdentityOf(active')
           /\ recent[active'.request] = None
           /\ \A r \in Held : recent[r].turn # active'.turn
           /\ \A t \in Turns : born[t] # None => born'[t] = born[t]
           /\ \A t \in Turns : t # adm.turn => born'[t] = born[t]
           /\ \A id \in submitting' : born'[id.turn] = id
<1>1. adm.turn \in Turns
  BY DEF Admissions
<1>2. /\ Fresh(adm).turn = adm.turn
      /\ Fresh(adm).request = adm.request
      /\ IdentityOf(Fresh(adm)).turn = adm.turn
  BY DEF Fresh, IdentityOf
<1>3. /\ born' = [born EXCEPT ![adm.turn] = IdentityOf(Fresh(adm))]
      /\ active' = Fresh(adm)
      /\ submitting' = submitting \cup {IdentityOf(Fresh(adm))}
      /\ recent[adm.request] = None
  BY DEF Accepted
<1>4. born \in [Turns -> Identities \cup {None}]
  BY DEF IInv, TypeOK
<1>5. /\ born'[adm.turn] = IdentityOf(Fresh(adm))
      /\ \A t \in Turns : t # adm.turn => born'[t] = born[t]
  BY <1>1, <1>3, <1>4
<1>6. \A id \in submitting : born[id.turn] = id
  BY DEF IInv, IdentityStable
<1>7. active' # None
  <2>1. active' \in ActiveTurns
    BY AcceptedTypes DEF IInv
  <2> QED
    BY <2>1, NoneAssumption
<1> QED
  BY <1>1, <1>2, <1>3, <1>5, <1>6, <1>7, RecordsAreBorn

\* Recording a finished Turn under its identity keeps the index consistent.
LEMMA RecordedInv ==
    ASSUME IInv, NEW fin \in FinishedTurns, RecordFinished(fin),
           born[fin.turn] = IdentityOf(fin)
    PROVE  \A r \in Requests : recent'[r] # None =>
               /\ recent'[r].request = r
               /\ born[recent'[r].turn] = IdentityOf(recent'[r])
<1>1. \A r \in Requests : recent[r] # None =>
          /\ recent[r].request = r
          /\ born[recent[r].turn] = IdentityOf(recent[r])
  BY DEF IInv, IdentityStable, Held
<1>2. \A r \in Requests :
          \/ recent'[r] = None
          \/ r = fin.request /\ recent'[r] = fin
          \/ r # fin.request /\ recent'[r] = recent[r]
  BY RecordedLemma DEF IInv
<1> QED
  BY <1>1, <1>2

\* finish empties the slot and keeps the index consistent.
LEMMA ReleaseInv ==
    ASSUME IInv, NEW att, NEW st, Release(att, st)
    PROVE  /\ active' = None
           /\ \A r \in Requests : recent'[r] # None =>
                  /\ recent'[r].request = r
                  /\ born[recent'[r].turn] = IdentityOf(recent'[r])
           /\ \A r \in Requests : recent[r] # None /\ recent'[r] # None =>
                  recent'[r] = recent[r]
<1>1. active \in ActiveTurns /\ active # None /\ st \in Terminal
  BY DEF IInv, TypeOK, Release, Owns
<1>2. /\ FinishedOf(active, st) \in FinishedTurns
      /\ IdentityOf(FinishedOf(active, st)) = IdentityOf(active)
      /\ FinishedOf(active, st).turn = active.turn
      /\ FinishedOf(active, st).request = active.request
  BY <1>1, FinishedLemma DEF IInv
<1>3. RecordFinished(FinishedOf(active, st)) /\ active' = None
  BY DEF Release
<1>4. born[active.turn] = IdentityOf(active) /\ recent[active.request] = None
  BY <1>1 DEF IInv, IdentityStable, SlotExclusive
<1>5. \A r \in Requests : recent'[r] # None =>
          /\ recent'[r].request = r
          /\ born[recent'[r].turn] = IdentityOf(recent'[r])
  BY <1>2, <1>3, <1>4, RecordedInv
<1>6. \A r \in Requests :
          \/ recent'[r] = None
          \/ r = active.request
          \/ recent'[r] = recent[r]
  BY <1>2, <1>3, RecordedLemma DEF IInv
<1> QED
  BY <1>3, <1>4, <1>5, <1>6

\* One Recover command, of a fact that agrees with its admission, keeps the
\* slot and the index consistent and apart.
LEMMA RecoverInv ==
    ASSUME IInv, NEW f \in Facts, born[f.turn] = IdentityOf(f), Recover(f)
    PROVE  /\ active' # None => /\ born[active'.turn] = IdentityOf(active')
                                /\ recent'[active'.request] = None
                                /\ \A r \in Requests : recent'[r] # None =>
                                       recent'[r].turn # active'.turn
           /\ \A r \in Requests : recent'[r] # None =>
                  /\ recent'[r].request = r
                  /\ born[recent'[r].turn] = IdentityOf(recent'[r])
           /\ \A r \in Requests : recent[r] # None /\ recent'[r] # None =>
                  \/ recent'[r] = recent[r]
                  \/ /\ recent[r].seq = 0
                     /\ recent'[r] = [recent[r] EXCEPT !.seq = recent'[r].seq]
<1>1. /\ f.request \in Requests
      /\ recent \in [Requests -> FinishedTurns \cup {None}]
      /\ active \in ActiveTurns \cup {None}
  BY DEF IInv, TypeOK, Facts
<1>2. /\ active # None => /\ born[active.turn] = IdentityOf(active)
                          /\ recent[active.request] = None
                          /\ active.request \in Requests
                          /\ \A r \in Requests : recent[r] # None =>
                                 recent[r].turn # active.turn
      /\ \A r \in Requests : recent[r] # None =>
             /\ recent[r].request = r
             /\ born[recent[r].turn] = IdentityOf(recent[r])
  BY <1>1 DEF IInv, IdentityStable, SlotExclusive, Held, ActiveTurns
<1>3. CASE FillsFinished(f) /\ recent' = [recent EXCEPT ![f.request].seq = f.seq]
           /\ UNCHANGED <<active, nextOrder>>
  <2>1. /\ recent[f.request] \in FinishedTurns
        /\ recent[f.request] # None
        /\ recent[f.request].seq = 0
    BY <1>1, <1>3 DEF FillsFinished
  <2> DEFINE filled == [recent[f.request] EXCEPT !.seq = f.seq]
  <2>2. /\ filled.turn = recent[f.request].turn
        /\ filled.request = recent[f.request].request
        /\ IdentityOf(filled) = IdentityOf(recent[f.request])
        /\ filled = [recent[f.request] EXCEPT !.seq = filled.seq]
    BY <2>1 DEF FinishedTurns, IdentityOf
  <2>3. /\ recent'[f.request] = filled
        /\ \A r \in Requests : r # f.request => recent'[r] = recent[r]
    BY <1>1, <1>3
  <2> HIDE DEF filled
  <2>4. active # None => active.request # f.request
    BY <1>2, <2>1
  <2> QED
    BY <1>1, <1>2, <1>3, <2>1, <2>2, <2>3, <2>4
<1>4. CASE /\ RecordsFinished(f)
           /\ active' = IF active # None /\ active.turn = f.turn THEN None
                                                                 ELSE active
           /\ RecordFinished(FinishedOf(f, RecoveredStatus(f.status)))
  <2> DEFINE fin == FinishedOf(f, RecoveredStatus(f.status))
  <2>1. /\ fin \in FinishedTurns
        /\ IdentityOf(fin) = IdentityOf(f)
        /\ fin.request = f.request
        /\ fin.turn = f.turn
    BY <1>4, RecoveredLemma, FinishedLemma DEF RecordsFinished, IInv
  <2>2. RecordFinished(fin)
    BY <1>4
  <2> HIDE DEF fin
  <2>3. \A r \in Requests :
            \/ recent'[r] = None
            \/ r = f.request /\ recent'[r] = fin
            \/ r # f.request /\ recent'[r] = recent[r]
    BY <2>1, <2>2, RecordedLemma DEF IInv
  <2>4. \A r \in Requests : recent'[r] # None =>
            /\ recent'[r].request = r
            /\ born[recent'[r].turn] = IdentityOf(recent'[r])
    BY <2>1, <2>2, RecordedInv
  <2>5. recent[f.request] = None
    BY <1>4 DEF RecordsFinished
  <2>6. active' # None => /\ active' = active
                          /\ active.turn # f.turn
                          /\ active.request # f.request
    BY <1>4 DEF RecordsFinished, SlotAgrees
  <2> QED
    BY <1>2, <2>1, <2>3, <2>4, <2>5, <2>6
<1>5. CASE FillsActive(f) /\ active' = [active EXCEPT !.seq = f.seq]
           /\ UNCHANGED <<recent, nextOrder>>
  <2>1. active \in ActiveTurns /\ active # None
    BY <1>1, <1>5 DEF FillsActive
  <2>2. /\ active'.turn = active.turn
        /\ active'.request = active.request
        /\ IdentityOf(active') = IdentityOf(active)
    BY <1>5, <2>1 DEF ActiveTurns, IdentityOf
  <2> QED
    BY <1>2, <1>5, <2>1, <2>2
<1>6. CASE /\ Revives(f)
           /\ active' = [turn |-> f.turn, request |-> f.request, fp |-> f.fp,
                         profile |-> f.profile, n |-> f.n,
                         status |-> RecoveredStatus(f.status), seq |-> f.seq]
           /\ UNCHANGED <<recent, nextOrder>>
  <2>1. /\ active'.turn = f.turn
        /\ active'.request = f.request
        /\ IdentityOf(active') = IdentityOf(f)
    BY <1>6 DEF IdentityOf
  <2>2. /\ recent[f.request] = None
        /\ \A r \in Requests : recent[r] # None => recent[r].turn # f.turn
    BY <1>6 DEF Revives, Held
  <2> QED
    BY <1>2, <1>6, <2>1, <2>2
<1>7. CASE UNCHANGED slot
  BY <1>2, <1>7 DEF slot
<1> QED
  BY <1>3, <1>4, <1>5, <1>6, <1>7 DEF Recover

\* A step that leaves the slot, the index and the admissions alone, and adds
\* only facts that agree with them, keeps the invariant.
LEMMA FrameInv ==
    ASSUME IInv, UNCHANGED <<active, recent, born>>,
           submitting' \subseteq submitting,
           \A f \in (todo \cup CanonicalFacts)' : born[f.turn] = IdentityOf(f)
    PROVE  IdentityStable' /\ SlotExclusive'
BY DEF IInv, IdentityStable, SlotExclusive, Held, IdentityOf

\* A step that keeps the canonical facts and drops some of the replayed ones.
LEMMA FactsKept ==
    ASSUME IInv, UNCHANGED <<canon, born>>, todo' \subseteq todo \cup CanonicalFacts
    PROVE  \A f \in (todo \cup CanonicalFacts)' : born[f.turn] = IdentityOf(f)
<1>1. CanonicalFacts' = CanonicalFacts
  BY DEF CanonicalFacts
<1> QED
  BY <1>1 DEF IInv, IdentityStable

\* A step that generates no Turn id and admits no Turn.
LEMMA UnbornKept ==
    ASSUME IInv, UNCHANGED <<stamp, born>>,
           \/ cont' = None
           \/ cont # None /\ cont'.next = cont.next
           \/ cont' = cont
    PROVE  Unborn'
BY DEF IInv, Unborn

\* An acceptance of a Turn id that no record carries keeps the invariant.
LEMMA AcceptedStep ==
    ASSUME IInv, NEW adm \in Admissions, Accepted(adm), born[adm.turn] = None,
           UNCHANGED <<todo, canon>>
    PROVE  IdentityStable' /\ SlotExclusive'
<1>1. recent' = recent /\ CanonicalFacts' = CanonicalFacts /\ todo' = todo
  BY DEF Accepted, CanonicalFacts
<1>2. /\ \A r \in Held : /\ recent[r].request = r
                         /\ born[recent[r].turn] = IdentityOf(recent[r])
      /\ \A f \in todo \cup CanonicalFacts : born[f.turn] = IdentityOf(f)
  BY DEF IInv, IdentityStable
<1>3. /\ \A r \in Held : born'[recent[r].turn] = born[recent[r].turn]
      /\ \A f \in todo \cup CanonicalFacts : born'[f.turn] = born[f.turn]
  BY RecordsAreBorn, AcceptedInv
<1>4. Held' = Held
  BY <1>1 DEF Held
<1>5. IdentityStable'
  BY <1>1, <1>2, <1>3, <1>4, AcceptedInv DEF IdentityStable
<1>6. SlotExclusive'
  BY <1>1, <1>4, AcceptedInv DEF SlotExclusive
<1> QED
  BY <1>5, <1>6

\* A finish keeps the invariant.
LEMMA ReleaseStep ==
    ASSUME IInv, NEW att, NEW st, Release(att, st),
           UNCHANGED <<todo, canon, born, submitting>>
    PROVE  IdentityStable' /\ SlotExclusive'
<1>1. active' = None
  BY ReleaseInv
<1>2. \A r \in Held' : /\ recent'[r].request = r
                       /\ born'[recent'[r].turn] = IdentityOf(recent'[r])
  BY ReleaseInv DEF Held
<1>3. \A f \in (todo \cup CanonicalFacts)' : born'[f.turn] = IdentityOf(f)
  BY FactsKept
<1>4. \A id \in submitting' : born'[id.turn] = id
  BY DEF IInv, IdentityStable
<1> QED
  BY <1>1, <1>2, <1>3, <1>4 DEF IdentityStable, SlotExclusive, IdentityOf

\* Every step keeps identities and exclusive ownership.
LEMMA InvStep ==
    ASSUME IInv, [Next]_vars
    PROVE  Unborn' /\ IdentityStable' /\ SlotExclusive'
<1>1. ASSUME NEW adm \in Admissions, Start(adm)
      PROVE  Unborn' /\ IdentityStable' /\ SlotExclusive'
  <2>1. adm.turn \in Turns
    BY DEF Admissions
  <2>2. stamp[adm.turn] = 0 /\ born[adm.turn] = None
    BY <1>1, <2>1 DEF Start, Generate, IInv, Unborn
  <2>3. cont = None /\ cont' = None
    BY <1>1 DEF Start, TurnLockFree
  <2>4. /\ stamp \in [Turns -> Nat]
        /\ stamp' = [stamp EXCEPT ![adm.turn] = clock + 1]
        /\ clock \in Nat
    BY <1>1 DEF Start, Generate, IInv, TypeOK
  <2>5. \A t \in Turns : stamp'[t] = 0 => stamp[t] = 0 /\ t # adm.turn
    BY <2>1, <2>4
  <2>6. CASE Accepted(adm)
    <3>1. \A t \in Turns : t # adm.turn => born'[t] = born[t]
      BY <2>2, <2>6, AcceptedInv
    <3>2. Unborn'
      BY <2>3, <2>5, <3>1 DEF IInv, Unborn
    <3>3. UNCHANGED <<todo, canon>>
      BY <1>1 DEF Start
    <3> QED
      BY <2>2, <2>6, <3>2, <3>3, AcceptedStep
  <2>7. CASE NotAccepted(adm)
    <3>1. UNCHANGED <<active, recent, born, submitting, todo, canon>>
      BY <1>1, <2>7 DEF Start, NotAccepted, slot
    <3>2. Unborn'
      BY <2>3, <2>5, <3>1 DEF IInv, Unborn
    <3> QED
      BY <3>1, <3>2, FrameInv, FactsKept
  <2> QED
    BY <1>1, <2>6, <2>7 DEF Start
<1>2. ASSUME NEW att \in issued, NEW st \in Live, SetStatus(att, st)
      PROVE  Unborn' /\ IdentityStable' /\ SlotExclusive'
  <2>1. active \in ActiveTurns /\ active # None
    BY <1>2 DEF SetStatus, Owns, IInv, TypeOK
  <2>2. active' = [active EXCEPT !.status = st] /\ active' \in ActiveTurns
    BY <1>2, <2>1 DEF SetStatus, ActiveTurns
  <2>3. /\ active'.turn = active.turn
        /\ active'.request = active.request
        /\ IdentityOf(active') = IdentityOf(active)
    BY <2>1, <2>2 DEF ActiveTurns, IdentityOf
  <2>4. UNCHANGED <<recent, cont, submitting, todo, canon, stamp, born>>
    BY <1>2 DEF SetStatus, callers, environment
  <2>5. CanonicalFacts' = CanonicalFacts /\ Held' = Held
    BY <2>4 DEF CanonicalFacts, Held
  <2>6. IdentityStable' /\ SlotExclusive'
    BY <2>1, <2>3, <2>4, <2>5 DEF IInv, IdentityStable, SlotExclusive
  <2> QED
    BY <2>4, <2>6, UnbornKept
<1>3. ASSUME NEW att \in issued, NEW st \in Terminal, Finish(att, st)
      PROVE  Unborn' /\ IdentityStable' /\ SlotExclusive'
  <2>1. /\ Release(att, st)
        /\ UNCHANGED <<cont, submitting, todo, canon, stamp, born>>
    BY <1>3 DEF Finish, callers, environment
  <2> QED
    BY <2>1, ReleaseStep, UnbornKept
<1>4. ASSUME NEW att, Abort(att)
      PROVE  Unborn' /\ IdentityStable' /\ SlotExclusive'
  <2>1. /\ active' = None
        /\ submitting' \subseteq submitting
        /\ UNCHANGED <<recent, cont, todo, canon, stamp, born>>
    BY <1>4 DEF Abort, environment
  <2>2. CanonicalFacts' = CanonicalFacts /\ Held' = Held
    BY <2>1 DEF CanonicalFacts, Held
  <2>3. IdentityStable' /\ SlotExclusive'
    BY <2>1, <2>2 DEF IInv, IdentityStable, SlotExclusive
  <2> QED
    BY <2>1, <2>3, UnbornKept
<1>5. ASSUME NEW att \in issued, NEW st \in Terminal, NEW adm \in Admissions,
             ContinueCheck(att, st, adm)
      PROVE  Unborn' /\ IdentityStable' /\ SlotExclusive'
  <2>1. adm.turn \in Turns
    BY DEF Admissions
  <2>2. UNCHANGED <<active, recent, submitting, todo, canon, born>>
    BY <1>5 DEF ContinueCheck, coordinator, slot
  <2>3. /\ stamp \in [Turns -> Nat]
        /\ clock \in Nat
        /\ stamp[adm.turn] = 0
        /\ stamp' = [stamp EXCEPT ![adm.turn] = clock + 1]
    BY <1>5 DEF ContinueCheck, Generate, IInv, TypeOK
  <2>4. cont'.next = adm
    BY <1>5 DEF ContinueCheck
  <2>5. born[adm.turn] = None
    BY <2>1, <2>3 DEF IInv, Unborn
  <2>6. /\ stamp'[adm.turn] # 0
        /\ \A t \in Turns : stamp'[t] = 0 => stamp[t] = 0
    BY <2>1, <2>3
  <2>7. Unborn'
    BY <2>2, <2>4, <2>5, <2>6 DEF IInv, Unborn
  <2> QED
    BY <2>2, <2>7, FrameInv, FactsKept
<1>6. CASE ContinueFinish
  <2>1. cont \in Continuations /\ cont # None
    BY <1>6 DEF ContinueFinish, IInv, TypeOK
  <2>2. cont' = None \/ cont'.next = cont.next
    BY <1>6, <2>1 DEF ContinueFinish, Continuations
  <2>3. UNCHANGED <<submitting, todo, canon, stamp, born>>
    BY <1>6 DEF ContinueFinish, environment
  <2>4. Unborn'
    BY <2>1, <2>2, <2>3, UnbornKept
  <2>5. CASE Release(cont.prev, cont.status)
    BY <2>3, <2>4, <2>5, ReleaseStep
  <2>6. CASE UNCHANGED coordinator
    <3>1. UNCHANGED <<active, recent>>
      BY <2>6 DEF coordinator, slot
    <3> QED
      BY <2>3, <2>4, <3>1, FrameInv, FactsKept
  <2> QED
    BY <1>6, <2>5, <2>6 DEF ContinueFinish
<1>7. CASE ContinueTerminal
  <2>1. cont \in Continuations /\ cont # None
    BY <1>7 DEF ContinueTerminal, IInv, TypeOK
  <2>2. cont' = None \/ cont'.next = cont.next
    BY <1>7, <2>1 DEF ContinueTerminal, Continuations
  <2>3. UNCHANGED <<active, recent, submitting, todo, canon, stamp, born>>
    BY <1>7 DEF ContinueTerminal, coordinator, slot, environment
  <2> QED
    BY <2>1, <2>2, <2>3, UnbornKept, FrameInv, FactsKept
<1>8. CASE ContinueAccept
  <2>1. cont \in Continuations /\ cont # None
    BY <1>8 DEF ContinueAccept, IInv, TypeOK
  <2>2. cont.next \in Admissions /\ cont.next.turn \in Turns
    BY <2>1 DEF Continuations, Admissions
  <2>3. born[cont.next.turn] = None /\ stamp[cont.next.turn] # 0
    BY <2>1 DEF IInv, Unborn
  <2>4. UNCHANGED <<todo, canon, stamp>> /\ cont' = None
    BY <1>8 DEF ContinueAccept
  <2>5. CASE Accepted(cont.next)
    <3>1. \A t \in Turns : t # cont.next.turn => born'[t] = born[t]
      BY <2>2, <2>3, <2>5, AcceptedInv
    <3>2. Unborn'
      BY <2>3, <2>4, <3>1 DEF IInv, Unborn
    <3> QED
      BY <2>2, <2>3, <2>4, <2>5, <3>2, AcceptedStep
  <2>6. CASE NotAccepted(cont.next)
    <3>1. UNCHANGED <<active, recent, born, submitting>>
      BY <2>6 DEF NotAccepted, slot
    <3> QED
      BY <2>4, <3>1, UnbornKept, FrameInv, FactsKept
  <2> QED
    BY <1>8, <2>5, <2>6 DEF ContinueAccept
<1>9. ASSUME UNCHANGED <<slot, submitting, cont, stamp, born, canon>>,
             todo' \subseteq todo \cup CanonicalFacts
      PROVE  Unborn' /\ IdentityStable' /\ SlotExclusive'
  BY <1>9, UnbornKept, FrameInv, FactsKept DEF slot
<1>10. CASE \/ \E att \in issued : BeginInput(att)
            \/ \E att \in issued : SteerCheck(att)
            \/ \E t \in steering : SteerCommit(t)
            \/ \E t \in Turns : Drain(t)
            \/ \E t \in Turns : TakeOrClose(t)
            \/ \E att \in issued : CloseInput(att)
            \/ BeginRestore
            \/ UNCHANGED vars
  BY <1>9, <1>10
  DEF BeginInput, SteerCheck, SteerCommit, Drain, TakeOrClose, CloseInput,
      BeginRestore, vars, coordinator, slot, callers, environment
<1>11. CASE RecoverNext
  <2>1. PICK f \in todo : todo' = todo \ {f} /\ Recover(f)
    BY <1>11 DEF RecoverNext, Newest
  <2>2. f \in Facts /\ born[f.turn] = IdentityOf(f)
    BY <2>1 DEF IInv, TypeOK, IdentityStable
  <2>3. UNCHANGED <<cont, submitting, canon, stamp, born>>
    BY <1>11 DEF RecoverNext, environment
  <2>4. /\ active' # None => /\ born[active'.turn] = IdentityOf(active')
                             /\ recent'[active'.request] = None
                             /\ \A r \in Requests : recent'[r] # None =>
                                    recent'[r].turn # active'.turn
        /\ \A r \in Requests : recent'[r] # None =>
               /\ recent'[r].request = r
               /\ born[recent'[r].turn] = IdentityOf(recent'[r])
    BY <2>1, <2>2, RecoverInv
  <2>5. \A g \in (todo \cup CanonicalFacts)' : born[g.turn] = IdentityOf(g)
    BY <2>1, <2>3, FactsKept
  <2>6. \A id \in submitting' : born'[id.turn] = id
    BY <2>3 DEF IInv, IdentityStable
  <2>7. IdentityStable' /\ SlotExclusive'
    BY <2>3, <2>4, <2>5, <2>6 DEF IdentityStable, SlotExclusive, Held, IdentityOf
  <2> QED
    BY <2>3, <2>7, UnbornKept
<1>12. CASE Restart
  <2>1. /\ active' = None
        /\ recent' = [r \in Requests |-> None]
        /\ cont' = None
        /\ submitting' = {}
        /\ todo' = CanonicalFacts
        /\ UNCHANGED <<canon, stamp, born>>
    BY <1>12 DEF Restart, environment
  <2>2. \A f \in (todo \cup CanonicalFacts)' : born[f.turn] = IdentityOf(f)
    BY <2>1, FactsKept
  <2>3. IdentityStable' /\ SlotExclusive'
    BY <2>1, <2>2 DEF IdentityStable, SlotExclusive, Held, IdentityOf
  <2> QED
    BY <2>1, <2>3, UnbornKept
<1>13. CASE ClearState
  <2>1. /\ active' = None
        /\ recent' = [r \in Requests |-> None]
        /\ UNCHANGED <<cont, submitting, todo, canon, stamp, born>>
    BY <1>13 DEF ClearState, environment
  <2>2. \A f \in (todo \cup CanonicalFacts)' : born[f.turn] = IdentityOf(f)
    BY <2>1, FactsKept
  <2>3. IdentityStable' /\ SlotExclusive'
    BY <2>1, <2>2 DEF IInv, IdentityStable, SlotExclusive, Held, IdentityOf
  <2> QED
    BY <2>1, <2>3, UnbornKept
<1>14. CASE ClearInputs
  <2>1. /\ UNCHANGED <<active, recent, cont, submitting, todo, stamp, born>>
        /\ canon' = canon \/ canon' = [t \in Turns |-> None]
    BY <1>14 DEF ClearInputs, slot
  <2>2. CanonicalFacts' \subseteq CanonicalFacts
    BY <2>1 DEF CanonicalFacts
  <2>3. \A f \in (todo \cup CanonicalFacts)' : born[f.turn] = IdentityOf(f)
    BY <2>1, <2>2 DEF IInv, IdentityStable
  <2> QED
    BY <2>1, <2>3, UnbornKept, FrameInv
<1>15. ASSUME NEW id \in submitting, CanonAccept(id)
       PROVE  Unborn' /\ IdentityStable' /\ SlotExclusive'
  <2> DEFINE fact == [turn |-> id.turn, request |-> id.request, fp |-> id.fp,
                      profile |-> id.profile, n |-> id.n, status |-> "pending",
                      seq |-> stamp[id.turn]]
  <2>1. /\ UNCHANGED <<active, recent, cont, todo, stamp, born>>
        /\ submitting' \subseteq submitting
        /\ canon' = [canon EXCEPT ![id.turn] = fact]
    BY <1>15 DEF CanonAccept, coordinator, slot
  <2>2. id \in Identities /\ born[id.turn] = id
    BY DEF IInv, TypeOK, IdentityStable
  <2>3. fact.turn = id.turn /\ IdentityOf(fact) = id
    BY <2>2 DEF IdentityOf, Identities
  <2> HIDE DEF fact
  <2>4. CanonicalFacts' \subseteq CanonicalFacts \cup {fact}
    BY <2>1 DEF CanonicalFacts, IInv, TypeOK
  <2>5. \A f \in (todo \cup CanonicalFacts)' : born[f.turn] = IdentityOf(f)
    BY <2>1, <2>2, <2>3, <2>4 DEF IInv, IdentityStable
  <2> QED
    BY <2>1, <2>5, UnbornKept, FrameInv
<1>16. ASSUME NEW t \in Turns, NEW st \in Reached, CanonStatus(t, st)
       PROVE  Unborn' /\ IdentityStable' /\ SlotExclusive'
  <2> DEFINE fact == [canon[t] EXCEPT !.status = st]
  <2>1. /\ UNCHANGED <<active, recent, submitting, cont, todo, stamp, born>>
        /\ canon' = [canon EXCEPT ![t] = fact]
        /\ canon[t] # None
    BY <1>16 DEF CanonStatus, coordinator, slot, callers
  <2>2. canon[t] \in Facts /\ canon[t] \in CanonicalFacts
    BY <2>1 DEF IInv, TypeOK, CanonicalFacts
  <2>3. fact.turn = canon[t].turn /\ IdentityOf(fact) = IdentityOf(canon[t])
    BY <2>2 DEF Facts, IdentityOf
  <2> HIDE DEF fact
  <2>4. CanonicalFacts' \subseteq CanonicalFacts \cup {fact}
    BY <2>1 DEF CanonicalFacts, IInv, TypeOK
  <2>5. \A f \in (todo \cup CanonicalFacts)' : born[f.turn] = IdentityOf(f)
    BY <2>1, <2>2, <2>3, <2>4 DEF IInv, IdentityStable
  <2> QED
    BY <2>1, <2>5, UnbornKept, FrameInv
<1> QED
  BY <1>1, <1>2, <1>3, <1>4, <1>5, <1>6, <1>7, <1>8, <1>10, <1>11, <1>12, <1>13,
     <1>14, <1>15, <1>16
  DEF Next

\* The inductive invariant holds in every state.
LEMMA Inductive == Spec => []IInv
<1>1. Init => IInv
  BY DEF Init, IInv, TypeOK, Unborn, IdentityStable, SlotExclusive, Held,
         CanonicalFacts
<1>2. IInv /\ [Next]_vars => IInv'
  BY TypeStep, InvStep DEF IInv
<1> QED
  BY <1>1, <1>2, PTL DEF Spec

\* Under any interleaving of commands, retries, restores, crashes and session
\* deletions, the Turn that owns the slot is not in the replay index.
THEOREM SlotIsExclusive == Spec => []SlotExclusive
<1>1. IInv => SlotExclusive
  BY DEF IInv
<1> QED
  BY <1>1, Inductive, PTL

\* A Turn keeps the identity it was admitted with in every place that
\* remembers it.
THEOREM IdentityIsStable == Spec => []IdentityStable
<1>1. IInv => IdentityStable
  BY DEF IInv
<1> QED
  BY <1>1, Inductive, PTL

-----------------------------------------------------------------------------
(* Recorded results are final                                              *)

\* Only finish and Recover write a record, and neither overwrites one.
LEMMA ResultsStep ==
    ASSUME IInv, Next
    PROVE  ResultsKept
<1>1. CASE recent' = recent
  BY <1>1 DEF ResultsKept
<1>2. CASE recent' = [r \in Requests |-> None]
  BY <1>2 DEF ResultsKept
<1>3. ASSUME NEW att, NEW st, Release(att, st)
      PROVE  ResultsKept
  BY <1>3, ReleaseInv DEF ResultsKept
<1>4. CASE RecoverNext
  <2>1. PICK f \in todo : Recover(f)
    BY <1>4 DEF RecoverNext, Newest
  <2>2. f \in Facts /\ born[f.turn] = IdentityOf(f)
    BY <2>1 DEF IInv, TypeOK, IdentityStable
  <2> QED
    BY <2>1, <2>2, RecoverInv DEF ResultsKept
<1>5. CASE ContinueFinish
  BY <1>1, <1>3, <1>5 DEF ContinueFinish, coordinator, slot
<1>6. ASSUME NEW att, NEW st, Finish(att, st)
      PROVE  ResultsKept
  BY <1>3, <1>6 DEF Finish
<1>7. CASE Restart \/ ClearState
  BY <1>2, <1>7 DEF Restart, ClearState
<1>8. CASE \/ \E adm \in Admissions : Start(adm)
           \/ ContinueAccept
  BY <1>1, <1>8 DEF Start, ContinueAccept, Accepted, NotAccepted, slot
<1>9. CASE \/ \E att \in issued, st \in Live : SetStatus(att, st)
           \/ \E att \in issued \cup {AttemptOf(id) : id \in submitting} : Abort(att)
           \/ \E att \in issued, st \in Terminal, adm \in Admissions :
                  ContinueCheck(att, st, adm)
           \/ ContinueTerminal
           \/ BeginRestore
           \/ ClearInputs
           \/ \E id \in submitting : CanonAccept(id)
           \/ \E t \in Turns, st \in Reached : CanonStatus(t, st)
  BY <1>1, <1>9
  DEF SetStatus, Abort, ContinueCheck, ContinueTerminal, BeginRestore,
      ClearInputs, CanonAccept, CanonStatus, coordinator, slot
<1>10. CASE \/ \E att \in issued : BeginInput(att)
            \/ \E att \in issued : SteerCheck(att)
            \/ \E t \in steering : SteerCommit(t)
            \/ \E t \in Turns : Drain(t)
            \/ \E t \in Turns : TakeOrClose(t)
            \/ \E att \in issued : CloseInput(att)
  BY <1>1, <1>10
  DEF BeginInput, SteerCheck, SteerCommit, Drain, TakeOrClose, CloseInput,
      coordinator, slot
<1> QED
  BY <1>4, <1>5, <1>6, <1>7, <1>8, <1>9, <1>10 DEF Next

\* A recorded result never changes while it is retained, whatever finishes
\* late, recovers or continues.
THEOREM ResultsAreFinal == Spec => TerminalImmutable
<1>1. IInv /\ [Next]_vars => [ResultsKept]_vars
  BY ResultsStep
<1> QED
  BY <1>1, Inductive, PTL DEF Spec, TerminalImmutable

-----------------------------------------------------------------------------
(* One Turn per request                                                    *)

\* Canonical facts are filed under their Turn and dated by its id.
Filed == \A t \in Turns : canon[t] # None => canon[t].turn = t /\ canon[t].seq = stamp[t]

\* Acceptance times are handed out once and in order.
Stamped ==
    /\ \A t \in Turns : stamp[t] <= clock
    /\ \A t, u \in Turns : stamp[t] # 0 /\ stamp[t] = stamp[u] => t = u

\* What a restore still has to replay is canonical: a session is not deleted
\* under it.
Replayed ==
    /\ \A f \in todo : canon[f.turn] # None
    /\ clearing # "idle" => todo = {}

\* The session's Turn lock, held by Continue: no submission is in flight, and
\* the request Continue was asked for stays unseen.
Promised ==
    cont # None =>
        /\ submitting = {}
        /\ \A t \in Turns : canon[t] # None => canon[t].request # cont.next.request

\* The Turns that some record names.
Mentioned ==
    {t \in Turns : \/ active # None /\ active.turn = t
                   \/ \E r \in Held : recent[r].turn = t
                   \/ canon[t] # None
                   \/ \E id \in submitting : id.turn = t}

OneRequest == \A t, u \in Mentioned : born[t].request = born[u].request => t = u

\* What keeps requests apart, on top of IInv.
BooksInv == Filed /\ Stamped /\ Replayed /\ Promised /\ OneRequest

\* Steps that touch none of the books.
Idle ==
    UNCHANGED <<active, recent, nextOrder, cont, clearing, submitting, todo,
                canon, clock, stamp, born>>

LEMMA IdleSteps ==
    ASSUME \/ \E att \in issued : BeginInput(att)
           \/ \E att \in issued : SteerCheck(att)
           \/ \E t \in steering : SteerCommit(t)
           \/ \E t \in Turns : Drain(t)
           \/ \E t \in Turns : TakeOrClose(t)
           \/ \E att \in issued : CloseInput(att)
           \/ UNCHANGED vars
    PROVE  Idle
BY DEF BeginInput, SteerCheck, SteerCommit, Drain, TakeOrClose, CloseInput, vars,
       coordinator, slot, callers, environment, Idle

\* No step makes a record mention a Turn that no record mentioned before,
\* except an acceptance.
LEMMA MentionedKept ==
    ASSUME OneRequest, born' = born,
           active' # None => active'.turn \in Mentioned,
           \A r \in Requests : recent'[r] # None => recent'[r].turn \in Mentioned,
           \A t \in Turns : canon'[t] # None => t \in Mentioned,
           \A id \in submitting' : id.turn \in Mentioned
    PROVE  OneRequest'
<1>1. Mentioned' \subseteq Mentioned
  BY DEF Mentioned, Held
<1> QED
  BY <1>1 DEF OneRequest

LEMMA MentionedFacts ==
    ASSUME IInv, Filed
    PROVE  /\ active # None => active.turn \in Mentioned
           /\ \A r \in Held : recent[r].turn \in Mentioned
           /\ \A t \in Turns : canon[t] # None => t \in Mentioned
           /\ \A id \in submitting : id.turn \in Mentioned
           /\ \A t \in Mentioned : born[t] # None
           /\ \A t \in Turns : canon[t] # None => born[t].request = canon[t].request
           /\ \A r \in Held : born[recent[r].turn].request = r
<1>1. /\ active # None => active.turn \in Mentioned
      /\ \A r \in Held : recent[r].turn \in Mentioned
      /\ \A t \in Turns : canon[t] # None => t \in Mentioned
      /\ \A id \in submitting : id.turn \in Mentioned
  BY RecordsAreBorn DEF Mentioned
<1>2. \A t \in Turns : canon[t] # None => canon[t] \in CanonicalFacts /\ canon[t].turn = t
  BY DEF CanonicalFacts, Filed
<1>3. \A t \in Turns : canon[t] # None => born[t] = IdentityOf(canon[t])
  BY <1>2 DEF IInv, IdentityStable
<1>4. \A t \in Turns : canon[t] # None => born[t].request = canon[t].request
  <2> SUFFICES ASSUME NEW t \in Turns, canon[t] # None
               PROVE  born[t].request = canon[t].request
    OBVIOUS
  <2>1. IdentityOf(canon[t]).request = canon[t].request
    BY DEF IdentityOf
  <2> QED
    BY <1>3, <2>1
<1>5. \A r \in Held : born[recent[r].turn].request = r
  <2> SUFFICES ASSUME NEW r \in Held
               PROVE  born[recent[r].turn].request = r
    OBVIOUS
  <2>1. IdentityOf(recent[r]).request = recent[r].request
    BY DEF IdentityOf
  <2> QED
    BY <2>1 DEF IInv, IdentityStable
<1>6. \A t \in Mentioned : born[t] # None
  BY <1>2, RecordsAreBorn DEF Mentioned
<1> QED
  BY <1>1, <1>4, <1>5, <1>6

\* Finish moves the Turn from the slot to the index.
LEMMA ReleaseBooks ==
    ASSUME IInv, Filed, NEW att, NEW st, Release(att, st)
    PROVE  /\ active' = None
           /\ active # None /\ active.turn = att.turn /\ active \in ActiveTurns
           /\ \A r \in Requests :
                 \/ recent'[r] = None
                 \/ r = active.request /\ recent'[r] = FinishedOf(active, st)
                 \/ r # active.request /\ recent'[r] = recent[r]
           /\ \A r \in Requests : recent'[r] # None => recent'[r].turn \in Mentioned
<1>1. active \in ActiveTurns /\ active # None /\ active.turn = att.turn /\ st \in Terminal
  BY DEF IInv, TypeOK, Release, Owns
<1>2. /\ FinishedOf(active, st) \in FinishedTurns
      /\ FinishedOf(active, st).turn = active.turn
      /\ FinishedOf(active, st).request = active.request
  BY <1>1, FinishedLemma DEF IInv
<1>3. RecordFinished(FinishedOf(active, st)) /\ active' = None
  BY DEF Release
<1>4. \A r \in Requests :
          \/ recent'[r] = None
          \/ r = active.request /\ recent'[r] = FinishedOf(active, st)
          \/ r # active.request /\ recent'[r] = recent[r]
  BY <1>2, <1>3, RecordedLemma DEF IInv
<1>5. /\ active.turn \in Mentioned
      /\ \A r \in Requests : recent[r] # None => recent[r].turn \in Mentioned
  BY <1>1, MentionedFacts DEF Held
<1>6. \A r \in Requests : recent'[r] # None => recent'[r].turn \in Mentioned
  BY <1>2, <1>4, <1>5
<1> QED
  BY <1>1, <1>3, <1>4, <1>6

\* Recover names the Turn of its fact and those named before.
LEMMA RecoverBooks ==
    ASSUME IInv, Filed, NEW f \in Facts, canon[f.turn] # None, Recover(f)
    PROVE  /\ active' # None => active'.turn \in Mentioned
           /\ \A r \in Requests : recent'[r] # None => recent'[r].turn \in Mentioned
<1>1. /\ f.turn \in Turns /\ f.request \in Requests
      /\ recent \in [Requests -> FinishedTurns \cup {None}]
      /\ active \in ActiveTurns \cup {None}
  BY DEF Facts, IInv, TypeOK
<1>2. /\ f.turn \in Mentioned
      /\ active # None => active.turn \in Mentioned
      /\ \A r \in Requests : recent[r] # None => recent[r].turn \in Mentioned
  BY <1>1, MentionedFacts DEF Held
<1>3. CASE FillsFinished(f) /\ recent' = [recent EXCEPT ![f.request].seq = f.seq]
           /\ UNCHANGED <<active, nextOrder>>
  <2>1. recent[f.request] \in FinishedTurns /\ recent[f.request] # None
    BY <1>1, <1>3 DEF FillsFinished
  <2> DEFINE filled == [recent[f.request] EXCEPT !.seq = f.seq]
  <2>2. filled.turn = recent[f.request].turn
    BY <2>1 DEF FinishedTurns
  <2>3. \A r \in Requests : recent'[r] = IF r = f.request THEN filled ELSE recent[r]
    BY <1>1, <1>3
  <2> HIDE DEF filled
  <2> QED
    BY <1>1, <1>2, <1>3, <2>1, <2>2, <2>3
<1>4. CASE /\ RecordsFinished(f)
           /\ active' = IF active # None /\ active.turn = f.turn THEN None
                                                                 ELSE active
           /\ RecordFinished(FinishedOf(f, RecoveredStatus(f.status)))
  <2> DEFINE fin == FinishedOf(f, RecoveredStatus(f.status))
  <2>1. fin \in FinishedTurns /\ fin.request = f.request /\ fin.turn = f.turn
    BY <1>4, RecoveredLemma, FinishedLemma DEF RecordsFinished, IInv
  <2>2. RecordFinished(fin)
    BY <1>4
  <2> HIDE DEF fin
  <2>3. \A r \in Requests :
            \/ recent'[r] = None
            \/ r = f.request /\ recent'[r] = fin
            \/ r # f.request /\ recent'[r] = recent[r]
    BY <2>1, <2>2, RecordedLemma DEF IInv
  <2> QED
    BY <1>2, <1>4, <2>1, <2>3
<1>5. CASE FillsActive(f) /\ active' = [active EXCEPT !.seq = f.seq]
           /\ UNCHANGED <<recent, nextOrder>>
  <2>1. active \in ActiveTurns /\ active # None
    BY <1>1, <1>5 DEF FillsActive
  <2>2. active'.turn = active.turn
    BY <1>5, <2>1 DEF ActiveTurns
  <2> QED
    BY <1>2, <1>5, <2>1, <2>2
<1>6. CASE /\ Revives(f)
           /\ active' = [turn |-> f.turn, request |-> f.request, fp |-> f.fp,
                         profile |-> f.profile, n |-> f.n,
                         status |-> RecoveredStatus(f.status), seq |-> f.seq]
           /\ UNCHANGED <<recent, nextOrder>>
  <2>1. active'.turn = f.turn
    BY <1>6
  <2> QED
    BY <1>2, <1>6, <2>1
<1>7. CASE UNCHANGED slot
  BY <1>2, <1>7 DEF slot
<1> QED
  BY <1>3, <1>4, <1>5, <1>6, <1>7 DEF Recover

\* An acceptance names a new Turn with a request that nothing names.
LEMMA AcceptedBooks ==
    ASSUME IInv, Filed, OneRequest, NEW adm \in Admissions, Accepted(adm),
           born[adm.turn] = None, submitting = {}, canon' = canon,
           \A t \in Turns : canon[t] # None => canon[t].request # adm.request
    PROVE  OneRequest'
<1>1. adm.turn \in Turns /\ adm.request \in Requests
  BY DEF Admissions
<1>2. active = None /\ recent[adm.request] = None /\ recent' = recent
  BY DEF Accepted
<1>3. /\ active' = Fresh(adm)
      /\ submitting' = {IdentityOf(Fresh(adm))}
      /\ born' = [born EXCEPT ![adm.turn] = IdentityOf(Fresh(adm))]
  BY DEF Accepted
<1>4. Fresh(adm).turn = adm.turn /\ IdentityOf(Fresh(adm)).turn = adm.turn
      /\ IdentityOf(Fresh(adm)).request = adm.request
  BY DEF Fresh, IdentityOf
<1>5. /\ born'[adm.turn].request = adm.request
      /\ \A t \in Turns : t # adm.turn => born'[t] = born[t]
  BY <1>1, <1>3, <1>4 DEF IInv, TypeOK
<1>6. Mentioned' \subseteq Mentioned \cup {adm.turn}
  BY <1>2, <1>3, <1>4 DEF Mentioned, Held
<1>7. adm.turn \notin Mentioned
  BY MentionedFacts
<1>8. \A t \in Mentioned : born[t].request # adm.request
  <2> SUFFICES ASSUME NEW t \in Mentioned, born[t].request = adm.request
               PROVE  FALSE
    OBVIOUS
  <2>1. (\E r \in Held : recent[r].turn = t) \/ canon[t] # None
    BY <1>2 DEF Mentioned
  <2>2. t \in Turns
    BY DEF Mentioned
  <2>3. CASE \E r \in Held : recent[r].turn = t
    <3>1. adm.request \in Held
      BY <2>3, MentionedFacts
    <3> QED
      BY <1>2, <3>1 DEF Held
  <2>4. CASE canon[t] # None
    BY <2>2, <2>4, MentionedFacts
  <2> QED
    BY <2>1, <2>3, <2>4
<1>9. \A t \in Mentioned : t \in Turns /\ t # adm.turn /\ born'[t] = born[t]
  BY <1>5, <1>7 DEF Mentioned
<1> QED
  BY <1>5, <1>6, <1>8, <1>9 DEF OneRequest

\* Steps that hand out no Turn id and write no fact.
LEMMA SameFacts ==
    ASSUME BooksInv, UNCHANGED <<canon, clock, stamp>>
    PROVE  /\ Filed' /\ Stamped'
           /\ todo' \subseteq todo /\ (clearing' = clearing \/ todo' = {}) => Replayed'
           /\ \/ cont' = None
              \/ cont' = cont /\ submitting' \subseteq submitting
              \/ cont # None /\ submitting' \subseteq submitting /\ cont'.next = cont.next
              => Promised'
<1>1. Filed' /\ Stamped'
  BY DEF BooksInv, Filed, Stamped
<1>2. todo' \subseteq todo /\ (clearing' = clearing \/ todo' = {}) => Replayed'
  BY DEF BooksInv, Replayed
<1>3. ASSUME \/ cont' = None
             \/ cont' = cont /\ submitting' \subseteq submitting
             \/ cont # None /\ submitting' \subseteq submitting /\ cont'.next = cont.next
      PROVE  Promised'
  BY <1>3 DEF BooksInv, Promised
<1> QED
  BY <1>1, <1>2, <1>3

\* A Turn id that was just generated.
LEMMA GeneratedFacts ==
    ASSUME IInv, BooksInv, NEW t \in Turns, Generate(t), canon' = canon
    PROVE  Filed' /\ Stamped' /\ born[t] = None
<1>1. /\ stamp \in [Turns -> Nat] /\ clock \in Nat
      /\ stamp[t] = 0 /\ clock' = clock + 1
      /\ stamp' = [stamp EXCEPT ![t] = clock + 1]
  BY DEF Generate, IInv, TypeOK
<1>2. stamp'[t] = clock + 1 /\ \A u \in Turns : u # t => stamp'[u] = stamp[u]
  BY <1>1
<1>3. born[t] = None
  BY <1>1 DEF IInv, Unborn
<1>4. canon[t] = None
  BY <1>3, MentionedFacts DEF BooksInv
<1>5. Filed'
  BY <1>2, <1>4 DEF BooksInv, Filed
<1>6. Stamped'
  <2>1. \A u \in Turns : stamp[u] \in Nat /\ stamp[u] <= clock
    BY <1>1 DEF BooksInv, Stamped
  <2>2. \A u \in Turns : stamp'[u] <= clock'
    BY <1>1, <1>2, <2>1
  <2>3. \A u, v \in Turns : stamp'[u] # 0 /\ stamp'[u] = stamp'[v] => u = v
    <3> SUFFICES ASSUME NEW u \in Turns, NEW v \in Turns,
                        stamp'[u] # 0, stamp'[u] = stamp'[v]
                 PROVE  u = v
      OBVIOUS
    <3>1. CASE u # t /\ v # t
      BY <1>2, <3>1 DEF BooksInv, Stamped
    <3>2. CASE u = t \/ v = t
      <4>1. stamp[u] <= clock /\ stamp[v] <= clock /\ stamp[u] \in Nat /\ stamp[v] \in Nat
        BY <2>1
      <4> QED
        BY <1>1, <1>2, <3>2, <4>1
    <3> QED
      BY <3>1, <3>2
  <2> QED
    BY <2>2, <2>3 DEF Stamped
<1> QED
  BY <1>3, <1>5, <1>6

LEMMA StartBooks ==
    ASSUME IInv, BooksInv, NEW adm \in Admissions, Start(adm)
    PROVE  BooksInv'
<1>1. /\ cont = None /\ cont' = None /\ submitting = {} /\ clearing = "idle"
      /\ \A t \in Turns : canon[t] # None => canon[t].request # adm.request
      /\ Generate(adm.turn)
      /\ Accepted(adm) \/ NotAccepted(adm)
      /\ UNCHANGED <<clearing, todo, canon>>
  BY DEF Start, TurnLockFree, RequestSeen
<1>2. adm.turn \in Turns
  BY DEF Admissions
<1>3. Filed' /\ Stamped' /\ born[adm.turn] = None
  BY <1>1, <1>2, GeneratedFacts
<1>4. Replayed' /\ Promised'
  BY <1>1 DEF BooksInv, Replayed, Promised
<1>5. CASE Accepted(adm)
  BY <1>1, <1>3, <1>4, <1>5, AcceptedBooks DEF BooksInv
<1>6. CASE NotAccepted(adm)
  <2>1. UNCHANGED <<active, recent, submitting, born>>
    BY <1>6 DEF NotAccepted, slot
  <2>2. OneRequest'
    BY <1>1, <2>1 DEF BooksInv, OneRequest, Mentioned, Held
  <2> QED
    BY <1>3, <1>4, <2>2 DEF BooksInv
<1> QED
  BY <1>1, <1>5, <1>6

LEMMA ContinueBooks ==
    ASSUME IInv, BooksInv,
           \/ \E att \in issued, st \in Terminal, adm \in Admissions :
                  ContinueCheck(att, st, adm)
           \/ ContinueFinish \/ ContinueTerminal \/ ContinueAccept
    PROVE  BooksInv'
<1>1. ASSUME NEW att \in issued, NEW st \in Terminal, NEW adm \in Admissions,
             ContinueCheck(att, st, adm)
      PROVE  BooksInv'
  <2>1. /\ submitting = {}
        /\ \A t \in Turns : canon[t] # None => canon[t].request # adm.request
        /\ Generate(adm.turn)
        /\ cont'.next = adm
        /\ UNCHANGED <<active, recent, clearing, submitting, todo, canon, born>>
    BY <1>1 DEF ContinueCheck, TurnLockFree, RequestSeen, coordinator, slot
  <2>2. adm.turn \in Turns
    BY DEF Admissions
  <2>3. Filed' /\ Stamped'
    BY <2>1, <2>2, GeneratedFacts
  <2>4. Replayed' /\ Promised'
    BY <2>1 DEF BooksInv, Replayed, Promised
  <2>5. OneRequest'
    BY <2>1 DEF BooksInv, OneRequest, Mentioned, Held
  <2> QED
    BY <2>3, <2>4, <2>5 DEF BooksInv
<1>2. CASE ContinueFinish
  <2>1. cont \in Continuations /\ cont # None
    BY <1>2 DEF ContinueFinish, IInv, TypeOK
  <2>2. cont' = None \/ cont'.next = cont.next
    BY <1>2, <2>1 DEF ContinueFinish, Continuations
  <2>3. UNCHANGED <<clearing, submitting, todo, canon, clock, stamp, born>>
    BY <1>2 DEF ContinueFinish, environment
  <2>4. Filed' /\ Stamped' /\ Replayed' /\ Promised'
    BY <2>1, <2>2, <2>3, SameFacts
  <2>5. CASE Release(cont.prev, cont.status)
    <3>1. OneRequest'
      BY <2>3, <2>5, ReleaseBooks, MentionedFacts, MentionedKept DEF BooksInv
    <3> QED
      BY <2>4, <3>1 DEF BooksInv
  <2>6. CASE UNCHANGED coordinator
    <3>1. UNCHANGED <<active, recent>>
      BY <2>6 DEF coordinator, slot
    <3>2. OneRequest'
      BY <2>3, <3>1 DEF BooksInv, OneRequest, Mentioned, Held
    <3> QED
      BY <2>4, <3>2 DEF BooksInv
  <2> QED
    BY <1>2, <2>5, <2>6 DEF ContinueFinish
<1>3. CASE ContinueTerminal
  <2>1. cont \in Continuations /\ cont # None
    BY <1>3 DEF ContinueTerminal, IInv, TypeOK
  <2>2. cont' = None \/ cont'.next = cont.next
    BY <1>3, <2>1 DEF ContinueTerminal, Continuations
  <2>3. UNCHANGED <<active, recent, clearing, submitting, todo, canon, clock, stamp, born>>
    BY <1>3 DEF ContinueTerminal, coordinator, slot, environment
  <2>4. Filed' /\ Stamped' /\ Replayed' /\ Promised'
    BY <2>1, <2>2, <2>3, SameFacts
  <2>5. OneRequest'
    BY <2>3 DEF BooksInv, OneRequest, Mentioned, Held
  <2> QED
    BY <2>4, <2>5 DEF BooksInv
<1>4. CASE ContinueAccept
  <2>1. cont \in Continuations /\ cont # None
    BY <1>4 DEF ContinueAccept, IInv, TypeOK
  <2>2. cont.next \in Admissions /\ born[cont.next.turn] = None
    BY <2>1 DEF Continuations, IInv, Unborn
  <2>3. /\ cont' = None
        /\ UNCHANGED <<clearing, todo, canon, clock, stamp>>
        /\ Accepted(cont.next) \/ NotAccepted(cont.next)
    BY <1>4 DEF ContinueAccept
  <2>4. Filed' /\ Stamped' /\ Replayed' /\ Promised'
    BY <2>3, SameFacts
  <2>5. CASE Accepted(cont.next)
    <3>1. /\ submitting = {}
          /\ \A t \in Turns : canon[t] # None => canon[t].request # cont.next.request
      BY <2>1 DEF BooksInv, Promised
    <3>2. OneRequest'
      BY <2>2, <2>3, <2>5, <3>1, AcceptedBooks DEF BooksInv
    <3> QED
      BY <2>4, <3>2 DEF BooksInv
  <2>6. CASE NotAccepted(cont.next)
    <3>1. UNCHANGED <<active, recent, submitting, born>>
      BY <2>6 DEF NotAccepted, slot
    <3>2. OneRequest'
      BY <2>3, <3>1 DEF BooksInv, OneRequest, Mentioned, Held
    <3> QED
      BY <2>4, <3>2 DEF BooksInv
  <2> QED
    BY <2>3, <2>5, <2>6
<1> QED
  BY <1>1, <1>2, <1>3, <1>4

\* A restore starts from facts that are canonical.
LEMMA RestoreBooks ==
    ASSUME IInv, BooksInv, Restart \/ BeginRestore
    PROVE  BooksInv'
<1>1. \A f \in CanonicalFacts : canon[f.turn] # None
  BY DEF CanonicalFacts, BooksInv, Filed
<1>2. /\ todo' = CanonicalFacts
      /\ clearing' = "idle"
      /\ UNCHANGED <<canon, clock, stamp, born>>
  BY DEF Restart, BeginRestore, environment
<1>3. Replayed'
  BY <1>1, <1>2 DEF Replayed
<1>4. CASE Restart
  <2>1. /\ active' = None /\ cont' = None /\ submitting' = {}
        /\ recent' = [r \in Requests |-> None]
    BY <1>4 DEF Restart
  <2>2. Filed' /\ Stamped' /\ Promised'
    BY <1>2, <2>1, SameFacts
  <2>3. OneRequest'
    BY <1>2, <2>1, MentionedFacts, MentionedKept DEF BooksInv
  <2> QED
    BY <1>3, <2>2, <2>3 DEF BooksInv
<1>5. CASE BeginRestore
  <2>1. UNCHANGED <<active, recent, cont, submitting>>
    BY <1>5 DEF BeginRestore, coordinator, slot
  <2>2. Filed' /\ Stamped' /\ Promised'
    BY <1>2, <2>1, SameFacts
  <2>3. OneRequest'
    BY <1>2, <2>1 DEF BooksInv, OneRequest, Mentioned, Held
  <2> QED
    BY <1>3, <2>2, <2>3 DEF BooksInv
<1> QED
  BY <1>4, <1>5

\* One replayed fact.
LEMMA RecoverNextBooks ==
    ASSUME IInv, BooksInv, RecoverNext
    PROVE  BooksInv'
<1>1. PICK f \in todo : todo' = todo \ {f} /\ Recover(f)
  BY DEF RecoverNext, Newest
<1>2. UNCHANGED <<cont, clearing, submitting, canon, clock, stamp, born>>
  BY DEF RecoverNext, environment
<1>3. f \in Facts /\ canon[f.turn] # None
  BY DEF IInv, TypeOK, BooksInv, Replayed
<1>4. Filed' /\ Stamped' /\ Replayed' /\ Promised'
  BY <1>1, <1>2, SameFacts
<1>5. /\ active' # None => active'.turn \in Mentioned
      /\ \A r \in Requests : recent'[r] # None => recent'[r].turn \in Mentioned
  BY <1>1, <1>3, RecoverBooks DEF BooksInv
<1>6. OneRequest'
  BY <1>2, <1>5, MentionedFacts, MentionedKept DEF BooksInv
<1> QED
  BY <1>4, <1>6 DEF BooksInv

\* The SessionStore writes a fact of a Turn that some record names already.
LEMMA CanonBooks ==
    ASSUME IInv, BooksInv,
           \/ \E id \in submitting : CanonAccept(id)
           \/ \E t \in Turns, st \in Reached : CanonStatus(t, st)
    PROVE  BooksInv'
<1>1. ASSUME NEW id \in submitting, CanonAccept(id)
      PROVE  BooksInv'
  <2> DEFINE fact == [turn |-> id.turn, request |-> id.request, fp |-> id.fp,
                      profile |-> id.profile, n |-> id.n, status |-> "pending",
                      seq |-> stamp[id.turn]]
  <2>1. /\ UNCHANGED <<active, recent, cont, clearing, todo, clock, stamp, born>>
        /\ submitting' = submitting \ {id}
        /\ canon' = [canon EXCEPT ![id.turn] = fact]
    BY <1>1 DEF CanonAccept, coordinator, slot
  <2>2. id.turn \in Turns /\ canon \in [Turns -> Facts \cup {None}]
    BY DEF IInv, TypeOK, Identities
  <2>3. canon'[id.turn] = fact /\ \A t \in Turns : t # id.turn => canon'[t] = canon[t]
    BY <2>1, <2>2
  <2>4. fact.turn = id.turn /\ fact.seq = stamp[id.turn]
    OBVIOUS
  <2>5. fact # None
    <3>1. id \in Identities /\ stamp[id.turn] \in Nat
      BY <2>2 DEF IInv, TypeOK
    <3>2. fact \in Facts
      BY <3>1 DEF Facts, Identities, CanonicalLive
    <3> QED
      BY <3>2, NoneAssumption
  <2> HIDE DEF fact
  <2>6. Filed' /\ Stamped'
    BY <2>1, <2>2, <2>3, <2>4 DEF BooksInv, Filed, Stamped
  <2>7. Promised'
    BY <2>1 DEF BooksInv, Promised
  <2>8. \A f \in todo : f.turn \in Turns
    BY DEF IInv, TypeOK, Facts
  <2>9. Replayed'
    BY <2>1, <2>2, <2>3, <2>5, <2>8 DEF BooksInv, Replayed
  <2>10. \A t \in Turns : canon'[t] # None => t \in Mentioned
    BY <2>2, <2>3, MentionedFacts DEF BooksInv
  <2>11. OneRequest'
    BY <2>1, <2>10, MentionedFacts, MentionedKept DEF BooksInv, Held
  <2> QED
    BY <2>6, <2>7, <2>9, <2>11 DEF BooksInv
<1>2. ASSUME NEW t \in Turns, NEW st \in Reached, CanonStatus(t, st)
      PROVE  BooksInv'
  <2> DEFINE fact == [canon[t] EXCEPT !.status = st]
  <2>1. /\ UNCHANGED <<active, recent, cont, clearing, submitting, todo, clock, stamp, born>>
        /\ canon' = [canon EXCEPT ![t] = fact]
        /\ canon[t] # None
    BY <1>2 DEF CanonStatus, coordinator, slot, callers
  <2>2. canon \in [Turns -> Facts \cup {None}] /\ canon[t] \in Facts
    BY <2>1 DEF IInv, TypeOK
  <2>3. canon'[t] = fact /\ \A u \in Turns : u # t => canon'[u] = canon[u]
    BY <2>1, <2>2
  <2>4. /\ fact.turn = canon[t].turn /\ fact.request = canon[t].request
        /\ fact.seq = canon[t].seq
        /\ fact # None
    <3>1. fact.turn = canon[t].turn /\ fact.request = canon[t].request /\ fact.seq = canon[t].seq
      BY <2>2 DEF Facts
    <3>2. fact \in Facts
      BY <2>2, ConstantsAssumption DEF Facts
    <3> QED
      BY <3>1, <3>2, NoneAssumption
  <2> HIDE DEF fact
  <2>5. Filed' /\ Stamped'
    BY <2>1, <2>3, <2>4 DEF BooksInv, Filed, Stamped
  <2>6. Promised'
    BY <2>1, <2>3, <2>4 DEF BooksInv, Promised
  <2>7. \A f \in todo : f.turn \in Turns
    BY DEF IInv, TypeOK, Facts
  <2>8. Replayed'
    BY <2>1, <2>3, <2>4, <2>7 DEF BooksInv, Replayed
  <2>9. \A u \in Turns : canon'[u] # None => u \in Mentioned
    BY <2>1, <2>3, MentionedFacts DEF BooksInv
  <2>10. OneRequest'
    BY <2>1, <2>9, MentionedFacts, MentionedKept DEF BooksInv, Held
  <2> QED
    BY <2>5, <2>6, <2>8, <2>10 DEF BooksInv
<1> QED
  BY <1>1, <1>2

LEMMA BooksStep == IInv /\ BooksInv /\ [Next]_vars => BooksInv'
<1> SUFFICES ASSUME IInv, BooksInv, [Next]_vars PROVE BooksInv'
  OBVIOUS
<1>1. ASSUME Idle PROVE BooksInv'
  BY <1>1 DEF Idle, BooksInv, Filed, Stamped, Replayed, Promised, OneRequest, Mentioned, Held
<1>2. ASSUME NEW adm \in Admissions, Start(adm) PROVE BooksInv'
  BY <1>2, StartBooks
<1>3. ASSUME NEW att \in issued, NEW st \in Live, SetStatus(att, st) PROVE BooksInv'
  <2>1. active \in ActiveTurns /\ active # None
    BY <1>3 DEF SetStatus, Owns, IInv, TypeOK
  <2>2. active' = [active EXCEPT !.status = st]
    BY <1>3 DEF SetStatus
  <2>3. active'.turn = active.turn
    BY <2>1, <2>2 DEF ActiveTurns
  <2>4. UNCHANGED <<recent, cont, clearing, submitting, todo, canon, clock, stamp, born>>
    BY <1>3 DEF SetStatus, callers, environment
  <2>5. Filed' /\ Stamped' /\ Replayed' /\ Promised'
    BY <2>4, SameFacts
  <2>6. OneRequest'
    BY <2>1, <2>3, <2>4, MentionedFacts, MentionedKept DEF BooksInv, Held
  <2> QED
    BY <2>5, <2>6 DEF BooksInv
<1>4. ASSUME NEW att \in issued, NEW st \in Terminal, Finish(att, st) PROVE BooksInv'
  <2>1. /\ Release(att, st)
        /\ UNCHANGED <<cont, clearing, submitting, todo, canon, clock, stamp, born>>
    BY <1>4 DEF Finish, callers, environment
  <2>2. Filed' /\ Stamped' /\ Replayed' /\ Promised'
    BY <2>1, SameFacts
  <2>3. OneRequest'
    BY <2>1, ReleaseBooks, MentionedFacts, MentionedKept DEF BooksInv
  <2> QED
    BY <2>2, <2>3 DEF BooksInv
<1>5. ASSUME NEW att, Abort(att) PROVE BooksInv'
  <2>1. /\ active' = None
        /\ submitting' \subseteq submitting
        /\ UNCHANGED <<recent, cont, clearing, todo, canon, clock, stamp, born>>
    BY <1>5 DEF Abort, environment
  <2>2. Filed' /\ Stamped' /\ Replayed' /\ Promised'
    BY <2>1, SameFacts
  <2>3. OneRequest'
    BY <2>1, MentionedFacts, MentionedKept DEF BooksInv, Held
  <2> QED
    BY <2>2, <2>3 DEF BooksInv
<1>6. CASE ClearState
  <2>1. /\ active' = None /\ recent' = [r \in Requests |-> None] /\ todo' = {}
        /\ UNCHANGED <<cont, submitting, todo, canon, clock, stamp, born>>
    BY <1>6 DEF ClearState, environment
  <2>2. Filed' /\ Stamped' /\ Replayed' /\ Promised'
    BY <2>1, SameFacts
  <2>3. OneRequest'
    BY <2>1, MentionedFacts, MentionedKept DEF BooksInv
  <2> QED
    BY <2>2, <2>3 DEF BooksInv
<1>7. CASE ClearInputs
  <2>1. /\ UNCHANGED <<active, recent, cont, submitting, todo, clock, stamp, born>>
        /\ canon' = canon \/ canon' = [t \in Turns |-> None]
        /\ clearing' = "idle"
        /\ todo = {}
    BY <1>7 DEF ClearInputs, slot, BooksInv, Replayed
  <2>2. Filed' /\ Stamped' /\ Replayed' /\ Promised'
    BY <2>1 DEF BooksInv, Filed, Stamped, Replayed, Promised
  <2>3. \A t \in Turns : canon'[t] # None => t \in Mentioned
    BY <2>1, MentionedFacts DEF BooksInv
  <2>4. OneRequest'
    BY <2>1, <2>3, MentionedFacts, MentionedKept DEF BooksInv, Held
  <2> QED
    BY <2>2, <2>4 DEF BooksInv
<1> QED
  BY <1>1, <1>2, <1>3, <1>4, <1>5, <1>6, <1>7, IdleSteps, ContinueBooks, RestoreBooks,
     RecoverNextBooks, CanonBooks
  DEF Next

LEMMA BooksHold == Spec => [](IInv /\ BooksInv)
<1>1. Init => BooksInv
  BY DEF Init, BooksInv, Filed, Stamped, Replayed, Promised, OneRequest, Mentioned, Held
<1> QED
  BY <1>1, BooksStep, Inductive, PTL DEF Spec

\* A request is bound to one Turn in all that the coordinator and the store
\* remember, after evictions, crashes, restores and deletions as well: a retry
\* is never answered with, or run as, a second Turn.
THEOREM RequestsAreKeys == Spec => []OneTurnPerRequest
<1>1. ASSUME IInv, BooksInv PROVE OneTurnPerRequest
  <2> DEFINE Books == ({active} \cup {recent[r] : r \in Requests} \cup CanonicalFacts)
                          \ {None}
  <2>1. ASSUME NEW a \in Books
        PROVE  a.turn \in Mentioned /\ born[a.turn].request = a.request
    <3>1. born[a.turn] = IdentityOf(a)
      BY <1>1 DEF IInv, IdentityStable, Held
    <3>2. born[a.turn].request = a.request
      BY <3>1 DEF IdentityOf
    <3>3. a.turn \in Mentioned
      <4>1. CASE a = active
        BY <1>1, <4>1, MentionedFacts DEF BooksInv
      <4>2. CASE a \in {recent[r] : r \in Requests}
        BY <1>1, <4>2, MentionedFacts DEF BooksInv, Held
      <4>3. CASE a \in CanonicalFacts
        BY <1>1, <4>3, MentionedFacts DEF BooksInv, CanonicalFacts, Filed
      <4> QED
        BY <4>1, <4>2, <4>3
    <3> QED
      BY <3>2, <3>3
  <2>2. ASSUME NEW a \in Books, NEW b \in Books, a.request = b.request
        PROVE  a.turn = b.turn
    BY <1>1, <2>1, <2>2 DEF BooksInv, OneRequest
  <2> QED
    BY <2>2 DEF OneTurnPerRequest
<1> QED
  BY <1>1, BooksHold, PTL

-----------------------------------------------------------------------------
(* The replay index is a window                                            *)

\* The orders of the retained records, without gaps or repetitions.
Window ==
    /\ IsFiniteSet(Held)
    /\ Cardinality(Held) <= nextOrder
    /\ \A r \in Held : /\ nextOrder - Cardinality(Held) <= recent[r].order
                       /\ recent[r].order < nextOrder
    /\ \A q, r \in Held : recent[q].order = recent[r].order => q = r
    /\ \A o \in Nat : nextOrder - Cardinality(Held) <= o /\ o < nextOrder =>
           \E r \in Held : recent[r].order = o

\* A new record, and the oldest one that makes room for it.
LEMMA RecordedWindow ==
    ASSUME TypeOK, Window, NEW fin \in FinishedTurns, RecordFinished(fin),
           fin.order = nextOrder, recent[fin.request] = None
    PROVE  Window' /\ Held' # {}
<1> DEFINE q   == fin.request
           ins == [recent EXCEPT ![q] = fin]
           In  == {r \in Requests : ins[r] # None}
           k   == Cardinality(Held)
<1>1. /\ q \in Requests /\ fin # None /\ nextOrder \in Nat
      /\ recent \in [Requests -> FinishedTurns \cup {None}]
  BY NoneAssumption DEF FinishedTurns, TypeOK
<1>2. /\ \A r \in Requests : r # q => ins[r] = recent[r]
      /\ ins[q] = fin
  BY <1>1
<1>3. In = Held \cup {q} /\ q \notin Held
  BY <1>1, <1>2 DEF Held
<1>4. IsFiniteSet(Held) /\ k \in Nat /\ k <= nextOrder
  BY FS_CardinalityType DEF Window
<1>5. IsFiniteSet(In) /\ Cardinality(In) = k + 1
  BY <1>3, <1>4, FS_AddElement
<1>6. /\ recent' = IF Cardinality(In) > MaxRecent
                   THEN [ins EXCEPT ![Oldest(ins)] = None] ELSE ins
      /\ nextOrder' = nextOrder + 1
  BY DEF RecordFinished
<1>7. \A r \in In : ins[r] \in FinishedTurns /\ ins[r].order \in Nat
  BY <1>1, <1>2 DEF FinishedTurns
<1> HIDE DEF ins
<1>8. /\ \A r \in Held : r \in In /\ r # q /\ ins[r] = recent[r]
      /\ \A r \in In : r = q \/ (r \in Held /\ r # q)
      /\ ins[q].order = nextOrder /\ q \in In
      /\ \A r \in In : r \in Requests
  BY <1>2, <1>3 DEF Held
<1> HIDE DEF In, k, q
<1>9. \A r \in Held : /\ nextOrder - k <= recent[r].order
                      /\ recent[r].order < nextOrder
  BY DEF Window, k
<1>10. \A r \in In : nextOrder - k <= ins[r].order /\ ins[r].order <= nextOrder
  BY <1>1, <1>4, <1>7, <1>8, <1>9
<1>11. \A r, s \in In : ins[r].order = ins[s].order => r = s
  <2> SUFFICES ASSUME NEW r \in In, NEW s \in In, ins[r].order = ins[s].order
               PROVE  r = s
    OBVIOUS
  <2>1. CASE r \in Held /\ s \in Held
    BY <1>8, <2>1 DEF Window
  <2>2. CASE r = q /\ s \in Held
    BY <1>1, <1>7, <1>8, <1>9, <2>2
  <2>3. CASE r \in Held /\ s = q
    BY <1>1, <1>7, <1>8, <1>9, <2>3
  <2> QED
    BY <1>8, <2>1, <2>2, <2>3
<1>12. \A o \in Nat : nextOrder - k <= o /\ o <= nextOrder => \E r \in In : ins[r].order = o
  <2> SUFFICES ASSUME NEW o \in Nat, nextOrder - k <= o, o <= nextOrder
               PROVE  \E r \in In : ins[r].order = o
    OBVIOUS
  <2>1. CASE o = nextOrder
    BY <1>8, <2>1
  <2>2. CASE o < nextOrder
    <3>1. PICK r \in Held : recent[r].order = o
      BY <2>2 DEF Window, k
    <3> QED
      BY <1>8, <3>1
  <2> QED
    BY <1>1, <2>1, <2>2
<1>13. CASE Cardinality(In) > MaxRecent
  <2> DEFINE old == Oldest(ins)
  <2>1. k >= 1
    BY <1>4, <1>5, <1>13, ConstantsAssumption
  <2>2. nextOrder - k \in Nat /\ nextOrder - k <= nextOrder - k /\ nextOrder - k <= nextOrder
    BY <1>1, <1>4
  <2>3. PICK m \in In : ins[m].order = nextOrder - k
    BY <1>12, <2>2
  <2>4. \A r \in In : ins[m].order <= ins[r].order
    BY <1>10, <2>3
  <2>5. In = {r \in Requests : ins[r] # None}
    BY DEF In
  <2>6. \E r \in Requests : /\ ins[r] # None
                            /\ \A p \in Requests :
                                   ins[p] # None => ins[r].order <= ins[p].order
    BY <2>3, <2>4, <2>5
  <2>7. old \in In /\ \A r \in In : ins[old].order <= ins[r].order
    BY <2>5, <2>6 DEF Oldest
  <2>8. ins[old].order = nextOrder - k
    BY <1>7, <1>10, <2>2, <2>3, <2>7
  <2> HIDE DEF old
  <2>9. old # q
    BY <1>1, <1>4, <1>8, <2>1, <2>8
  <2>10. /\ \A r \in In : r # old => recent'[r] = ins[r] /\ recent'[r] # None
         /\ \A r \in Requests : r = old \/ r \notin In => recent'[r] = None
    BY <1>1, <1>6, <1>13, <2>5, <2>7 DEF ins, old
  <2>11. Held' = In \ {old}
    BY <1>8, <2>10 DEF Held
  <2>12. IsFiniteSet(Held') /\ Cardinality(Held') = k
    <3>1. IsFiniteSet(In \ {old}) /\ Cardinality(In \ {old}) = Cardinality(In) - 1
      BY <1>5, <2>7, FS_RemoveElement
    <3>2. Cardinality(In) - 1 = k
      BY <1>4, <1>5
    <3> QED
      BY <2>11, <3>1, <3>2
  <2>13. \A r \in Held' : /\ nextOrder' - k <= recent'[r].order
                          /\ recent'[r].order < nextOrder'
    <3> SUFFICES ASSUME NEW r \in In, r # old
                 PROVE  nextOrder' - k <= ins[r].order /\ ins[r].order < nextOrder'
      BY <2>10, <2>11
    <3>1. ins[r].order # nextOrder - k
      BY <1>11, <2>7, <2>8
    <3>2. ins[r].order \in Nat /\ nextOrder - k <= ins[r].order /\ ins[r].order <= nextOrder
      BY <1>7, <1>10
    <3> QED
      BY <1>1, <1>4, <1>6, <3>1, <3>2
  <2>14. \A r, s \in Held' : recent'[r].order = recent'[s].order => r = s
    BY <1>11, <2>10, <2>11
  <2>15. \A o \in Nat : nextOrder' - k <= o /\ o < nextOrder' =>
             \E r \in Held' : recent'[r].order = o
    <3> SUFFICES ASSUME NEW o \in Nat, nextOrder' - k <= o, o < nextOrder'
                 PROVE  \E r \in Held' : recent'[r].order = o
      OBVIOUS
    <3>1. nextOrder - k <= o /\ o <= nextOrder /\ o # nextOrder - k
      BY <1>1, <1>4, <1>6
    <3>2. PICK r \in In : ins[r].order = o
      BY <1>12, <3>1
    <3>3. r # old
      BY <2>8, <3>1, <3>2
    <3> QED
      BY <2>10, <2>11, <3>2, <3>3
  <2>16. k <= nextOrder'
    BY <1>1, <1>4, <1>6
  <2>17. q \in Held'
    BY <1>8, <2>9, <2>11
  <2> QED
    BY <2>12, <2>13, <2>14, <2>15, <2>16, <2>17 DEF Window
<1>14. CASE ~(Cardinality(In) > MaxRecent)
  <2>1. recent' = ins
    BY <1>6, <1>14
  <2>2. Held' = In
    BY <2>1 DEF Held, In
  <2>3. IsFiniteSet(Held') /\ Cardinality(Held') = k + 1
    BY <1>5, <2>2
  <2>4. \A r \in Held' : /\ nextOrder' - (k + 1) <= recent'[r].order
                         /\ recent'[r].order < nextOrder'
    <3> SUFFICES ASSUME NEW r \in In
                 PROVE  nextOrder' - (k + 1) <= ins[r].order /\ ins[r].order < nextOrder'
      BY <2>1, <2>2
    <3>1. ins[r].order \in Nat /\ nextOrder - k <= ins[r].order /\ ins[r].order <= nextOrder
      BY <1>7, <1>10
    <3> QED
      BY <1>1, <1>4, <1>6, <3>1
  <2>5. \A r, s \in Held' : recent'[r].order = recent'[s].order => r = s
    BY <1>11, <2>1, <2>2
  <2>6. \A o \in Nat : nextOrder' - (k + 1) <= o /\ o < nextOrder' =>
             \E r \in Held' : recent'[r].order = o
    <3> SUFFICES ASSUME NEW o \in Nat, nextOrder' - (k + 1) <= o, o < nextOrder'
                 PROVE  \E r \in Held' : recent'[r].order = o
      OBVIOUS
    <3>1. nextOrder - k <= o /\ o <= nextOrder
      BY <1>1, <1>4, <1>6
    <3> QED
      BY <1>12, <2>1, <2>2, <3>1
  <2>7. k + 1 <= nextOrder'
    BY <1>1, <1>4, <1>6
  <2>8. q \in Held'
    BY <1>8, <2>2
  <2> QED
    BY <2>3, <2>4, <2>5, <2>6, <2>7, <2>8 DEF Window
<1> QED
  BY <1>13, <1>14

LEMMA EmptyWindow ==
    ASSUME recent' = [r \in Requests |-> None], nextOrder' = 0
    PROVE  Window' /\ Held' = {}
<1>1. Held' = {}
  BY DEF Held
<1>2. IsFiniteSet({}) /\ Cardinality({}) = 0
  BY FS_EmptySet
<1> QED
  BY <1>1, <1>2 DEF Window

\* Finish writes one record under a request without one.
LEMMA ReleaseRecords ==
    ASSUME IInv, NEW att, NEW st, Release(att, st)
    PROVE  /\ FinishedOf(active, st) \in FinishedTurns
           /\ RecordFinished(FinishedOf(active, st))
           /\ FinishedOf(active, st).order = nextOrder
           /\ recent[FinishedOf(active, st).request] = None
<1>1. active \in ActiveTurns /\ active # None /\ st \in Terminal
  BY DEF IInv, TypeOK, Release, Owns
<1>2. /\ FinishedOf(active, st) \in FinishedTurns
      /\ FinishedOf(active, st).request = active.request
  BY <1>1, FinishedLemma DEF IInv
<1> QED
  BY <1>1, <1>2 DEF Release, FinishedOf, IInv, SlotExclusive

\* Recover writes one record under a request without one, or changes no order.
LEMMA RecoverRecords ==
    ASSUME IInv, NEW f \in Facts, Recover(f)
    PROVE  \/ /\ RecordsFinished(f)
              /\ FinishedOf(f, RecoveredStatus(f.status)) \in FinishedTurns
              /\ RecordFinished(FinishedOf(f, RecoveredStatus(f.status)))
              /\ FinishedOf(f, RecoveredStatus(f.status)).order = nextOrder
              /\ recent[FinishedOf(f, RecoveredStatus(f.status)).request] = None
           \/ /\ Held' = Held /\ nextOrder' = nextOrder
              /\ \A r \in Held : recent'[r].order = recent[r].order
<1>1. /\ f.request \in Requests
      /\ recent \in [Requests -> FinishedTurns \cup {None}]
  BY DEF IInv, TypeOK, Facts
<1>2. CASE FillsFinished(f) /\ recent' = [recent EXCEPT ![f.request].seq = f.seq]
           /\ UNCHANGED <<active, nextOrder>>
  <2>1. recent[f.request] \in FinishedTurns /\ recent[f.request] # None /\ f.seq \in Nat
    BY <1>1, <1>2 DEF FillsFinished, Facts
  <2> DEFINE filled == [recent[f.request] EXCEPT !.seq = f.seq]
  <2>2. filled.order = recent[f.request].order /\ filled \in FinishedTurns
    BY <2>1 DEF FinishedTurns
  <2>3. \A r \in Requests : recent'[r] = IF r = f.request THEN filled ELSE recent[r]
    BY <1>1, <1>2
  <2> HIDE DEF filled
  <2>4. Held' = Held
    BY <1>1, <2>1, <2>2, <2>3, NoneAssumption DEF Held
  <2>5. \A r \in Held : recent'[r].order = recent[r].order
    BY <2>2, <2>3 DEF Held
  <2> QED
    BY <1>2, <2>4, <2>5
<1>3. CASE /\ RecordsFinished(f)
           /\ RecordFinished(FinishedOf(f, RecoveredStatus(f.status)))
  <2>1. /\ FinishedOf(f, RecoveredStatus(f.status)) \in FinishedTurns
        /\ FinishedOf(f, RecoveredStatus(f.status)).request = f.request
    BY <1>3, RecoveredLemma, FinishedLemma DEF RecordsFinished, IInv
  <2>2. FinishedOf(f, RecoveredStatus(f.status)).order = nextOrder
    BY DEF FinishedOf
  <2> QED
    BY <1>3, <2>1, <2>2 DEF RecordsFinished
<1>4. CASE UNCHANGED <<recent, nextOrder>>
  BY <1>4 DEF Held
<1> QED
  BY <1>2, <1>3, <1>4 DEF Recover, slot

LEMMA WindowStep == IInv /\ Window /\ [Next]_vars => Window'
<1> SUFFICES ASSUME IInv, Window, [Next]_vars PROVE Window'
  OBVIOUS
<1>1. ASSUME Held' = Held, nextOrder' = nextOrder,
             \A r \in Held : recent'[r].order = recent[r].order
      PROVE  Window'
  BY <1>1 DEF Window
<1>2. ASSUME UNCHANGED <<recent, nextOrder>> PROVE Window'
  BY <1>1, <1>2 DEF Held
<1>3. ASSUME NEW att, NEW st, Release(att, st) PROVE Window'
  BY <1>3, ReleaseRecords, RecordedWindow DEF IInv
<1>4. CASE RecoverNext
  <2>1. PICK f \in todo : Recover(f)
    BY <1>4 DEF RecoverNext, Newest
  <2>2. f \in Facts
    BY DEF IInv, TypeOK
  <2> QED
    BY <1>1, <2>1, <2>2, RecoverRecords, RecordedWindow DEF IInv
<1>5. CASE ContinueFinish
  BY <1>2, <1>3, <1>5 DEF ContinueFinish, coordinator, slot
<1>6. ASSUME NEW att, NEW st, Finish(att, st) PROVE Window'
  BY <1>3, <1>6 DEF Finish
<1>7. CASE Restart \/ ClearState
  BY <1>7, EmptyWindow DEF Restart, ClearState
<1>8. CASE \/ \E adm \in Admissions : Start(adm)
           \/ ContinueAccept
  BY <1>2, <1>8 DEF Start, ContinueAccept, Accepted, NotAccepted, slot
<1>9. CASE \/ \E att \in issued, st \in Live : SetStatus(att, st)
           \/ \E att \in issued \cup {AttemptOf(id) : id \in submitting} : Abort(att)
           \/ \E att \in issued, st \in Terminal, adm \in Admissions :
                  ContinueCheck(att, st, adm)
           \/ ContinueTerminal
           \/ BeginRestore
           \/ ClearInputs
           \/ \E id \in submitting : CanonAccept(id)
           \/ \E t \in Turns, st \in Reached : CanonStatus(t, st)
  BY <1>2, <1>9
  DEF SetStatus, Abort, ContinueCheck, ContinueTerminal, BeginRestore,
      ClearInputs, CanonAccept, CanonStatus, coordinator, slot
<1>10. ASSUME Idle PROVE Window'
  BY <1>2, <1>10 DEF Idle
<1> QED
  BY <1>4, <1>5, <1>6, <1>7, <1>8, <1>9, <1>10, IdleSteps DEF Next

LEMMA WindowHolds == Spec => [](IInv /\ Window)
<1>1. Init => Window
  <2> SUFFICES ASSUME Init PROVE Window
    OBVIOUS
  <2>1. Held = {} /\ nextOrder = 0
    BY DEF Init, Held
  <2>2. IsFiniteSet({}) /\ Cardinality({}) = 0
    BY FS_EmptySet
  <2> QED
    BY <2>1, <2>2 DEF Window
<1> QED
  BY <1>1, WindowStep, Inductive, PTL DEF Spec

\* The replay index always holds the Turns finished last, in an unbroken run
\* that ends at the newest, for every limit and also after a restore.
THEOREM IndexIsWindow == Spec => []ReplayWindow
<1>1. ASSUME IInv, Window PROVE ReplayWindow
  <2> DEFINE k == Cardinality(Held)
             Run == {o \in 0 .. nextOrder : nextOrder - k <= o /\ o < nextOrder}
  <2>1. /\ nextOrder \in Nat
        /\ \A r \in Held : recent[r].order \in Nat
    BY <1>1 DEF IInv, TypeOK, Held, FinishedTurns
  <2>2. k \in Nat
    BY <1>1, FS_CardinalityType DEF Window
  <2>3. \A r \in Held : nextOrder - k <= recent[r].order /\ recent[r].order < nextOrder
    BY <1>1 DEF Window
  <2>4. \A o \in Nat : nextOrder - k <= o /\ o < nextOrder =>
            \E r \in Held : recent[r].order = o
    BY <1>1 DEF Window
  <2> HIDE DEF k
  <2>5. \A r \in Held : recent[r].order \in Run
    BY <2>1, <2>2, <2>3
  <2>6. \A o \in Run : \E r \in Held : recent[r].order = o
    BY <2>1, <2>4
  <2> HIDE DEF Run
  <2>7. {recent[r].order : r \in Held} = Run
    BY <2>5, <2>6
  <2> QED
    BY <2>7 DEF ReplayWindow, Run, k
<1> QED
  BY <1>1, WindowHolds, PTL

-----------------------------------------------------------------------------
(* The startup restore                                                     *)

\* A startup restore is alone: what ran before it died with the process, and
\* nothing is served before it ends.
Undisturbed ==
    ~LiveRestore /\ todo # {} => cont = None /\ submitting = {} /\ clearing = "idle"

\* What the replay of the newest fact h decides for the facts still to come.
Settled(h) ==
    IF h.status \in CanonicalLive
    THEN active # None /\ active.turn = h.turn /\ active.seq = h.seq
    ELSE /\ active = None /\ Held # {}
         /\ \A r \in Held, f \in todo : f.seq <= recent[r].seq

NewestIsSettled ==
    \E h \in CanonicalFacts \ todo :
        /\ \A g \in CanonicalFacts : g.seq <= h.seq
        /\ Settled(h)

NewestFirst ==
    ~LiveRestore /\ todo # {} =>
        /\ todo \subseteq CanonicalFacts
        /\ (todo = CanonicalFacts /\ active = None /\ Held = {}) \/ NewestIsSettled

RestoreInv == Undisturbed /\ NewestFirst

LEMMA RestoreAlone ==
    ASSUME Undisturbed, ~LiveRestore, todo # {}, [Next]_vars
    PROVE  RecoverNext \/ Restart \/ Idle
BY IdleSteps
DEF Undisturbed, Next, Start, SetStatus, Finish, Abort, ContinueCheck, ContinueFinish,
    ContinueTerminal, ContinueAccept, BeginRestore, ClearState, ClearInputs, CanonAccept,
    CanonStatus, TurnLockFree, Serving

LEMMA UndisturbedStep == IInv /\ Undisturbed /\ [Next]_vars => Undisturbed'
<1> SUFFICES ASSUME IInv, Undisturbed, [Next]_vars, ~LiveRestore
             PROVE  todo' # {} => cont' = None /\ submitting' = {} /\ clearing' = "idle"
  BY DEF Undisturbed
<1>1. CASE todo # {}
  <2>1. CASE RecoverNext
    BY <1>1, <2>1 DEF RecoverNext, Undisturbed
  <2>2. CASE Restart
    BY <2>2 DEF Restart
  <2>3. CASE Idle
    BY <1>1, <2>3 DEF Idle, Undisturbed
  <2> QED
    BY <1>1, <2>1, <2>2, <2>3, RestoreAlone
<1>2. CASE todo = {}
  <2>1. CASE Restart
    BY <2>1 DEF Restart
  <2>2. CASE todo' = todo
    BY <1>2, <2>2
  <2>3. CASE RecoverNext
    BY <1>2, <2>3 DEF RecoverNext, Newest
  <2>4. ASSUME Idle PROVE todo' = todo
    BY <2>4 DEF Idle
  <2>5. CASE BeginRestore
    BY <2>5 DEF BeginRestore
  <2> QED
    BY <2>1, <2>2, <2>3, <2>4, <2>5, IdleSteps
    DEF Next, Start, SetStatus, Finish, Abort, ContinueCheck, ContinueFinish,
        ContinueTerminal, ContinueAccept, ClearState, ClearInputs, CanonAccept,
        CanonStatus, callers
<1> QED
  BY <1>1, <1>2

LEMMA CanonicalNames ==
    ASSUME IInv, BooksInv
    PROVE  /\ \A f \in CanonicalFacts : /\ f \in Facts /\ f.turn \in Turns
                                        /\ f.request \in Requests /\ f.seq \in Nat
                                        /\ canon[f.turn] = f
           /\ \A f, g \in CanonicalFacts : f.turn = g.turn => f = g
           /\ \A f, g \in CanonicalFacts : f.seq = g.seq => f = g
           /\ \A f \in CanonicalFacts :
                  f.status \in CanonicalTerminal <=> f.status \notin CanonicalLive
<1>1. \A f \in CanonicalFacts : /\ f \in Facts /\ f.turn \in Turns
                                /\ f.request \in Requests /\ f.seq \in Nat
                                /\ canon[f.turn] = f /\ f.seq = stamp[f.turn]
  BY DEF CanonicalFacts, IInv, TypeOK, Facts, BooksInv, Filed
<1>2. \A f, g \in CanonicalFacts : f.turn = g.turn => f = g
  <2> SUFFICES ASSUME NEW f \in CanonicalFacts, NEW g \in CanonicalFacts, f.turn = g.turn
               PROVE  f = g
    OBVIOUS
  <2>1. canon[f.turn] = f /\ canon[g.turn] = g
    BY <1>1
  <2> QED
    BY <2>1
<1>3. \A f \in CanonicalFacts : stamp[f.turn] # 0
  BY <1>1, RecordsAreBorn DEF IInv, Unborn
<1>4. \A f, g \in CanonicalFacts : f.seq = g.seq => f = g
  <2> SUFFICES ASSUME NEW f \in CanonicalFacts, NEW g \in CanonicalFacts, f.seq = g.seq
               PROVE  f = g
    OBVIOUS
  <2>1. stamp[f.turn] = stamp[g.turn] /\ f.turn \in Turns /\ g.turn \in Turns
    BY <1>1
  <2>2. f.turn = g.turn
    BY <1>3, <2>1 DEF BooksInv, Stamped
  <2> QED
    BY <1>2, <2>2
<1>5. \A f \in CanonicalFacts :
          f.status \in CanonicalTerminal <=> f.status \notin CanonicalLive
  BY <1>1 DEF Facts, CanonicalLive, CanonicalTerminal
<1> QED
  BY <1>1, <1>2, <1>4, <1>5

\* The first fact of the replay is the newest and decides the slot.
LEMMA FirstReplay ==
    ASSUME IInv, BooksInv, Window, active = None, Held = {},
           todo = CanonicalFacts, NEW f \in Newest(todo),
           todo' = todo \ {f}, Recover(f), canon' = canon
    PROVE  NewestIsSettled'
<1>1. /\ f \in CanonicalFacts /\ \A g \in CanonicalFacts : g.seq <= f.seq
      /\ f \notin todo' /\ todo' \subseteq CanonicalFacts
      /\ CanonicalFacts' = CanonicalFacts
  BY CanonicalNames DEF Newest, CanonicalFacts
<1>2. /\ f \in Facts /\ f.request \in Requests
      /\ f.status \in CanonicalTerminal <=> f.status \notin CanonicalLive
  BY <1>1, CanonicalNames
<1>3. \A r \in Requests : recent[r] = None
  BY DEF Held
<1>4. ~FillsFinished(f) /\ ~FillsActive(f)
  BY <1>2, <1>3 DEF FillsFinished, FillsActive
<1>5. CASE f.status \in CanonicalLive
  <2>1. Revives(f) /\ ~RecordsFinished(f)
    BY <1>2, <1>3, <1>5 DEF Revives, RecordsFinished
  <2>2. active' = [turn |-> f.turn, request |-> f.request, fp |-> f.fp,
                   profile |-> f.profile, n |-> f.n,
                   status |-> RecoveredStatus(f.status), seq |-> f.seq]
    BY <1>4, <2>1 DEF Recover
  <2>3. active' \in ActiveTurns
    <3>1. RecoveredStatus(f.status) \in Live
      BY <1>5, RecoveredLemma
    <3> QED
      BY <1>2, <2>2, <3>1 DEF Facts, ActiveTurns
  <2>4. active' # None /\ active'.turn = f.turn /\ active'.seq = f.seq
    BY <2>2, <2>3, NoneAssumption
  <2>5. Settled(f)'
    BY <1>5, <2>4 DEF Settled
  <2> QED
    BY <1>1, <2>5 DEF NewestIsSettled
<1>6. CASE f.status \notin CanonicalLive
  <2> DEFINE fin == FinishedOf(f, RecoveredStatus(f.status))
  <2>1. RecordsFinished(f) /\ ~Revives(f)
    BY <1>2, <1>3, <1>6 DEF RecordsFinished, Revives, SlotAgrees, Held
  <2>2. active' = None /\ RecordFinished(fin)
    BY <1>4, <2>1 DEF Recover
  <2>3. fin \in FinishedTurns /\ fin.request = f.request /\ fin # None
    BY <1>2, <1>6, RecoveredLemma, FinishedLemma DEF IInv
  <2>4. fin.order = nextOrder /\ fin.seq = f.seq
    BY DEF FinishedOf
  <2> HIDE DEF fin
  <2>5. Held' # {}
    BY <1>2, <1>3, <2>2, <2>3, <2>4, RecordedWindow DEF IInv
  <2>6. \A r \in Held' : recent'[r] = fin
    BY <1>3, <2>2, <2>3, RecordedLemma DEF IInv, Held
  <2>7. \A r \in Held', g \in todo' : g.seq <= recent'[r].seq
    BY <1>1, <2>4, <2>6
  <2>8. Settled(f)'
    BY <1>6, <2>2, <2>5, <2>7 DEF Settled
  <2> QED
    BY <1>1, <2>8 DEF NewestIsSettled
<1> QED
  BY <1>5, <1>6

\* Every later fact is older and finds the slot decided.
LEMMA LaterReplay ==
    ASSUME IInv, BooksInv, Window, NewestIsSettled, todo \subseteq CanonicalFacts,
           NEW f \in Newest(todo), todo' = todo \ {f}, Recover(f), canon' = canon
    PROVE  NewestIsSettled'
<1>1. PICK h \in CanonicalFacts \ todo :
          (\A g \in CanonicalFacts : g.seq <= h.seq) /\ Settled(h)
  BY DEF NewestIsSettled
<1>2. /\ f \in CanonicalFacts /\ \A g \in todo' : g.seq <= f.seq
      /\ h \notin todo' /\ todo' \subseteq todo
      /\ CanonicalFacts' = CanonicalFacts
  BY <1>1, CanonicalNames DEF Newest, CanonicalFacts
<1>3. f \in todo
  BY DEF Newest
<1>4. /\ f \in Facts /\ f.request \in Requests /\ f.seq \in Nat /\ h.seq \in Nat
      /\ f.status \in CanonicalTerminal <=> f.status \notin CanonicalLive
      /\ f.turn # h.turn /\ f.seq <= h.seq
  BY <1>1, <1>2, <1>3, CanonicalNames
<1>5. CASE h.status \in CanonicalLive
  <2>1. active # None /\ active.turn = h.turn /\ active.seq = h.seq
    BY <1>1, <1>5 DEF Settled
  <2>2. ~FillsActive(f) /\ ~Revives(f)
    BY <1>4, <2>1 DEF FillsActive, Revives
  <2>3. active' = active
    BY <1>4, <2>1, <2>2 DEF Recover, slot
  <2>4. Settled(h)'
    BY <1>5, <2>1, <2>3 DEF Settled
  <2> QED
    BY <1>1, <1>2, <2>4 DEF NewestIsSettled
<1>6. CASE h.status \notin CanonicalLive
  <2>1. /\ active = None /\ Held # {}
        /\ \A r \in Held, g \in todo : g.seq <= recent[r].seq
    BY <1>1, <1>6 DEF Settled
  <2>2. \A r \in Held : recent[r] \in FinishedTurns /\ recent[r].seq \in Nat
    BY DEF IInv, TypeOK, Held, FinishedTurns
  <2>3. ~Revives(f)
    BY <1>3, <1>4, <2>1, <2>2 DEF Revives
  <2>4. active' = None
    BY <2>1, <2>3 DEF Recover, slot, FillsActive
  <2>5. \A g \in todo' : g \in todo /\ g.seq <= f.seq
    BY <1>2
  <2>6. Held' # {} /\ \A r \in Held', g \in todo' : g.seq <= recent'[r].seq
    <3>1. CASE RecordsFinished(f) /\ RecordFinished(FinishedOf(f, RecoveredStatus(f.status)))
      <4> DEFINE fin == FinishedOf(f, RecoveredStatus(f.status))
      <4>1. fin \in FinishedTurns /\ fin.request = f.request
        BY <1>4, <3>1, RecoveredLemma, FinishedLemma DEF IInv, RecordsFinished
      <4>2. /\ fin.order = nextOrder /\ fin.seq = f.seq
            /\ recent[f.request] = None /\ RecordFinished(fin)
        BY <3>1 DEF FinishedOf, RecordsFinished
      <4> HIDE DEF fin
      <4>3. Held' # {}
        BY <4>1, <4>2, RecordedWindow DEF IInv
      <4>4. \A r \in Held' : recent'[r] = fin \/ (r \in Held /\ recent'[r] = recent[r])
        BY <4>1, <4>2, RecordedLemma DEF IInv, Held
      <4> QED
        BY <2>1, <2>5, <4>2, <4>3, <4>4
    <3>2. CASE FillsFinished(f) /\ recent' = [recent EXCEPT ![f.request].seq = f.seq]
      <4> DEFINE filled == [recent[f.request] EXCEPT !.seq = f.seq]
      <4>1. recent \in [Requests -> FinishedTurns \cup {None}] /\ recent[f.request] # None
        BY <3>2 DEF IInv, TypeOK, FillsFinished
      <4>2. filled \in FinishedTurns /\ filled.seq = f.seq /\ f.request \in Held
        BY <1>4, <4>1 DEF FinishedTurns, Held
      <4>3. \A r \in Requests : recent'[r] = IF r = f.request THEN filled ELSE recent[r]
        BY <1>4, <3>2, <4>1
      <4> HIDE DEF filled
      <4>4. Held' = Held
        BY <4>2, <4>3, NoneAssumption DEF Held
      <4>5. \A r \in Held' : recent'[r].seq = f.seq \/ (r \in Held /\ recent'[r] = recent[r])
        BY <4>2, <4>3 DEF Held
      <4> QED
        BY <2>1, <2>5, <4>4, <4>5
    <3>3. CASE recent' = recent
      BY <2>1, <2>5, <3>3 DEF Held
    <3> QED
      BY <3>1, <3>2, <3>3 DEF Recover, slot
  <2>7. Settled(h)'
    BY <1>6, <2>4, <2>6 DEF Settled
  <2> QED
    BY <1>1, <1>2, <2>7 DEF NewestIsSettled
<1> QED
  BY <1>5, <1>6

LEMMA NewestFirstStep == IInv /\ BooksInv /\ Window /\ RestoreInv /\ [Next]_vars => NewestFirst'
<1> SUFFICES ASSUME IInv, BooksInv, Window, Undisturbed, NewestFirst, [Next]_vars,
                    ~LiveRestore, todo' # {}
             PROVE  (/\ todo \subseteq CanonicalFacts
                     /\ (todo = CanonicalFacts /\ active = None /\ Held = {}) \/ NewestIsSettled)'
  BY DEF RestoreInv, NewestFirst
<1>1. ASSUME Restart
      PROVE  /\ (todo \subseteq CanonicalFacts)'
             /\ (todo = CanonicalFacts /\ active = None /\ Held = {})'
  BY <1>1 DEF Restart, environment, CanonicalFacts, Held
<1>2. ASSUME RecoverNext
      PROVE  (todo \subseteq CanonicalFacts)' /\ NewestIsSettled'
  <2>1. PICK f \in Newest(todo) : todo' = todo \ {f} /\ Recover(f)
    BY <1>2 DEF RecoverNext
  <2>2. canon' = canon /\ CanonicalFacts' = CanonicalFacts
    BY <1>2 DEF RecoverNext, environment, CanonicalFacts
  <2>3. /\ todo \subseteq CanonicalFacts
        /\ (todo = CanonicalFacts /\ active = None /\ Held = {}) \/ NewestIsSettled
    BY <2>1 DEF NewestFirst
  <2>4. CASE todo = CanonicalFacts /\ active = None /\ Held = {}
    BY <2>1, <2>2, <2>3, <2>4, FirstReplay
  <2>5. CASE NewestIsSettled
    BY <2>1, <2>2, <2>3, <2>5, LaterReplay
  <2> QED
    BY <2>1, <2>2, <2>3, <2>4, <2>5
<1>3. CASE todo # {}
  <2>1. ASSUME Idle
        PROVE  /\ (todo \subseteq CanonicalFacts)'
               /\ (todo = CanonicalFacts /\ active = None /\ Held = {})' \/ NewestIsSettled'
    <3>1. UNCHANGED <<active, recent, todo, canon>>
      BY <2>1 DEF Idle
    <3>2. Held' = Held /\ CanonicalFacts' = CanonicalFacts
      BY <3>1 DEF Held, CanonicalFacts
    <3>3. NewestIsSettled => NewestIsSettled'
      BY <3>1, <3>2 DEF NewestIsSettled, Settled
    <3> QED
      BY <1>3, <3>1, <3>2, <3>3 DEF NewestFirst
  <2> QED
    BY <1>1, <1>2, <1>3, <2>1, RestoreAlone
<1>4. CASE todo = {}
  <2>1. ASSUME todo' = todo PROVE FALSE
    BY <1>4, <2>1
  <2>2. ASSUME RecoverNext PROVE FALSE
    BY <1>4, <2>2 DEF RecoverNext, Newest
  <2>3. ASSUME Idle PROVE FALSE
    BY <2>1, <2>3 DEF Idle
  <2>4. ASSUME BeginRestore PROVE FALSE
    BY <2>4 DEF BeginRestore
  <2>5. Restart
    BY <2>1, <2>2, <2>3, <2>4, IdleSteps
    DEF Next, Start, SetStatus, Finish, Abort, ContinueCheck, ContinueFinish,
        ContinueTerminal, ContinueAccept, ClearState, ClearInputs, CanonAccept,
        CanonStatus, callers
  <2> QED
    BY <1>1, <2>5
<1> QED
  BY <1>3, <1>4

LEMMA RestoreHolds == Spec => [](IInv /\ BooksInv /\ Window /\ RestoreInv)
<1>1. Init => RestoreInv
  BY DEF Init, RestoreInv, Undisturbed, NewestFirst
<1>2. IInv /\ BooksInv /\ Window /\ RestoreInv /\ [Next]_vars => RestoreInv'
  BY UndisturbedStep, NewestFirstStep DEF RestoreInv
<1> QED
  BY <1>1, <1>2, BooksHold, WindowHolds, PTL DEF Spec

\* When the startup restore ends, the slot belongs to the newest canonical Turn
\* if that Turn is live, and to nobody if it has ended, whatever the facts are
\* and whatever the replay limit evicted meanwhile: a stale live fact never
\* covers a newer Turn.
THEOREM RestoreIsNewest == Spec => RestoreRevivesNewest
<1> DEFINE Hands(f) == IF f.status \in CanonicalLive
                       THEN active' # None /\ active'.turn = f.turn
                       ELSE active' = None
<1>1. ASSUME IInv, BooksInv, Window, RestoreInv, [Next]_vars,
             ~LiveRestore, todo # {}, todo' = {},
             NEW f \in CanonicalFacts, \A g \in CanonicalFacts : f.seq >= g.seq
      PROVE  Hands(f)
  <2>1. RecoverNext \/ Restart \/ Idle
    BY <1>1, RestoreAlone DEF RestoreInv
  <2>2. ~Idle /\ ~Restart
    BY <1>1 DEF Idle, Restart
  <2>3. PICK n \in Newest(todo) : todo' = todo \ {n} /\ Recover(n)
    BY <2>1, <2>2 DEF RecoverNext
  <2>4. canon' = canon /\ CanonicalFacts' = CanonicalFacts
    BY <2>1, <2>2 DEF RecoverNext, environment, CanonicalFacts
  <2>5. /\ todo \subseteq CanonicalFacts
        /\ (todo = CanonicalFacts /\ active = None /\ Held = {}) \/ NewestIsSettled
    BY <1>1 DEF RestoreInv, NewestFirst
  <2>6. NewestIsSettled'
    <3>1. CASE todo = CanonicalFacts /\ active = None /\ Held = {}
      BY <1>1, <2>3, <2>4, <3>1, FirstReplay
    <3>2. CASE NewestIsSettled
      BY <1>1, <2>3, <2>4, <2>5, <3>2, LaterReplay
    <3> QED
      BY <2>5, <3>1, <3>2
  <2>7. PICK h \in CanonicalFacts :
            (\A g \in CanonicalFacts : g.seq <= h.seq) /\ Settled(h)'
    BY <2>4, <2>6 DEF NewestIsSettled
  <2>8. f.seq \in Nat /\ h.seq \in Nat /\ f.seq <= h.seq /\ h.seq <= f.seq
    BY <1>1, <2>7, CanonicalNames
  <2>9. f = h
    BY <1>1, <2>7, <2>8, CanonicalNames
  <2> QED
    BY <2>7, <2>9 DEF Settled
<1>2. IInv /\ BooksInv /\ Window /\ RestoreInv /\ [Next]_vars =>
          [~LiveRestore /\ todo # {} /\ todo' = {} =>
              \A f \in CanonicalFacts :
                  (\A g \in CanonicalFacts : f.seq >= g.seq) => Hands(f)]_vars
  BY <1>1
<1> QED
  BY <1>2, RestoreHolds, PTL DEF Spec, RestoreRevivesNewest

-----------------------------------------------------------------------------
(* Continue agrees with the Turn it continues                              *)

\* A Turn has one record: the records of the index are filed by request, and a
\* Turn keeps its request.
LEMMA OneRecord ==
    ASSUME IInv, NEW q \in Held, NEW r \in Held, recent[q].turn = recent[r].turn
    PROVE  q = r
<1>1. /\ recent[q].request = q /\ born[recent[q].turn] = IdentityOf(recent[q])
      /\ recent[r].request = r /\ born[recent[r].turn] = IdentityOf(recent[r])
  BY DEF IInv, IdentityStable
<1>2. IdentityOf(recent[q]).request = recent[q].request
  BY DEF IdentityOf
<1>3. IdentityOf(recent[r]).request = recent[r].request
  BY DEF IdentityOf
<1> QED
  BY <1>1, <1>2, <1>3

\* Finish, called by Continue, records the status Continue was told.
LEMMA ContinueFinishAgrees ==
    ASSUME IInv, BooksInv, ContinueFinish
    PROVE  ContinueAgrees'
<1>1. cont # None /\ cont \in Continuations
  BY DEF ContinueFinish, IInv, TypeOK
<1>2. CASE /\ Release(cont.prev, cont.status)
           /\ cont' = [cont EXCEPT !.step = "accept"]
  <2>1. cont'.prev = cont.prev /\ cont'.status = cont.status
    BY <1>1, <1>2 DEF Continuations
  <2>2. /\ active' = None
        /\ active # None /\ active.turn = cont.prev.turn /\ active \in ActiveTurns
        /\ \A r \in Requests :
              \/ recent'[r] = None
              \/ r = active.request /\ recent'[r] = FinishedOf(active, cont.status)
              \/ r # active.request /\ recent'[r] = recent[r]
    BY <1>2, ReleaseBooks DEF BooksInv
  <2>3. FinishedOf(active, cont.status).status = cont.status
    BY DEF FinishedOf
  <2>4. \A r \in Requests : recent[r] # None => recent[r].turn # active.turn
    BY <2>2 DEF IInv, SlotExclusive, Held
  <2>5. \A r \in Requests : recent'[r] # None /\ recent'[r].turn = cont.prev.turn =>
            recent'[r].status = cont.status
    BY <2>2, <2>3, <2>4
  <2> QED
    BY <2>1, <2>2, <2>5 DEF ContinueAgrees, Held
<1>3. CASE /\ AlreadyFinished(cont.prev, cont.status)
           /\ cont' = [cont EXCEPT !.step = "accept"]
           /\ UNCHANGED coordinator
  <2>1. cont'.prev = cont.prev /\ cont'.status = cont.status
    BY <1>1, <1>3 DEF Continuations
  <2>2. /\ active' = active /\ recent' = recent /\ Held' = Held /\ active = None
    BY <1>3 DEF coordinator, slot, Held, AlreadyFinished
  <2>3. PICK q \in Held : AttemptOf(recent[q]) = cont.prev /\ recent[q].status = cont.status
    BY <1>3 DEF AlreadyFinished
  <2>4. recent[q].turn = cont.prev.turn
    <3>1. AttemptOf(recent[q]).turn = recent[q].turn
      BY DEF AttemptOf
    <3> QED
      BY <2>3, <3>1
  <2>5. \A r \in Held : recent[r].turn = cont.prev.turn => r = q
    BY <2>4, OneRecord
  <2> QED
    BY <2>1, <2>2, <2>3, <2>5 DEF ContinueAgrees
<1>4. CASE cont' = None
  BY <1>4 DEF ContinueAgrees
<1> QED
  BY <1>2, <1>3, <1>4 DEF ContinueFinish

\* terminal_status finds the record of the previous Turn, and there is only one.
LEMMA ContinueTerminalAgrees ==
    ASSUME IInv, ContinueTerminal
    PROVE  ContinueAgrees'
<1>1. cont # None /\ cont \in Continuations
  BY DEF ContinueTerminal, IInv, TypeOK
<1>2. active' = active /\ recent' = recent /\ Held' = Held
  BY DEF ContinueTerminal, coordinator, slot, Held
<1>3. CASE /\ HasTerminalStatus(cont.prev, cont.status)
           /\ cont' = [cont EXCEPT !.step = "accept"]
  <2>1. cont'.prev = cont.prev /\ cont'.status = cont.status
    BY <1>1, <1>3 DEF Continuations
  <2>2. PICK q \in Held : /\ recent[q].turn = cont.prev.turn
                          /\ recent[q].status = cont.status
    BY <1>3 DEF HasTerminalStatus
  <2>3. \A r \in Held : recent[r].turn = cont.prev.turn => r = q
    BY <2>2, OneRecord
  <2>4. active # None => active.turn # cont.prev.turn
    BY <2>2 DEF IInv, SlotExclusive
  <2> QED
    BY <1>2, <2>1, <2>2, <2>3, <2>4 DEF ContinueAgrees
<1>4. CASE cont' = None
  BY <1>4 DEF ContinueAgrees
<1> QED
  BY <1>3, <1>4 DEF ContinueTerminal

LEMMA AgreesStep ==
    ASSUME ~LiveRestore, IInv, BooksInv, Undisturbed, ContinueAgrees, [Next]_vars
    PROVE  ContinueAgrees'
<1>1. ASSUME cont' = cont,
             active' # None => active # None /\ active'.turn = active.turn,
             \A r \in Requests : recent'[r] # None => recent'[r] = recent[r]
      PROVE  ContinueAgrees'
  BY <1>1 DEF ContinueAgrees, Held
<1>2. ASSUME cont' = None PROVE ContinueAgrees'
  BY <1>2 DEF ContinueAgrees
<1>3. ASSUME cont' = cont, active' = active, recent' = recent PROVE ContinueAgrees'
  BY <1>1, <1>3
<1>4. ASSUME NEW att \in issued, NEW st \in Live, SetStatus(att, st)
      PROVE  ContinueAgrees'
  <2>1. active \in ActiveTurns /\ active # None
    BY <1>4 DEF SetStatus, Owns, IInv, TypeOK
  <2>2. active'.turn = active.turn /\ UNCHANGED <<cont, recent>>
    BY <1>4, <2>1 DEF SetStatus, ActiveTurns, callers
  <2> QED
    BY <1>1, <2>1, <2>2
<1>5. ASSUME NEW att \in issued, NEW st \in Terminal, Finish(att, st)
      PROVE  ContinueAgrees'
  <2>1. /\ active' = None
        /\ active # None /\ active \in ActiveTurns
        /\ \A r \in Requests :
              \/ recent'[r] = None
              \/ r = active.request /\ recent'[r] = FinishedOf(active, st)
              \/ r # active.request /\ recent'[r] = recent[r]
    BY <1>5, ReleaseBooks DEF Finish, BooksInv
  <2>2. FinishedOf(active, st).turn = active.turn /\ cont' = cont
    BY <1>5 DEF FinishedOf, Finish, callers
  <2>3. ASSUME cont # None, cont.step = "accept",
               NEW r \in Requests, recent'[r] # None, recent'[r].turn = cont.prev.turn
        PROVE  recent'[r].status = cont.status
    <3>1. active.turn # cont.prev.turn
      BY <2>1, <2>3 DEF ContinueAgrees
    <3>2. recent'[r] = recent[r]
      BY <2>1, <2>2, <2>3, <3>1
    <3> QED
      BY <2>3, <3>2 DEF ContinueAgrees, Held
  <2> QED
    BY <2>1, <2>2, <2>3 DEF ContinueAgrees, Held
<1>6. ASSUME NEW att, Abort(att) PROVE ContinueAgrees'
  BY <1>1, <1>6 DEF Abort
<1>7. ASSUME NEW att \in issued, NEW st \in Terminal, NEW adm \in Admissions,
             ContinueCheck(att, st, adm)
      PROVE  ContinueAgrees'
  <2>1. cont'.step # "accept"
    BY <1>7 DEF ContinueCheck
  <2> QED
    BY <2>1 DEF ContinueAgrees
<1>8. ASSUME NEW adm \in Admissions, Start(adm) PROVE ContinueAgrees'
  BY <1>2, <1>8 DEF Start, TurnLockFree
<1>9. CASE ContinueAccept
  BY <1>2, <1>9 DEF ContinueAccept
<1>10. CASE RecoverNext
  <2>1. todo # {} /\ cont' = cont
    BY <1>10 DEF RecoverNext, Newest
  <2> QED
    BY <1>2, <2>1 DEF Undisturbed
<1>11. CASE Restart \/ ClearState
  BY <1>2, <1>11 DEF Restart, ClearState, TurnLockFree
<1>12. CASE BeginRestore
  BY <1>12 DEF BeginRestore
<1>13. CASE \/ ClearInputs
            \/ \E id \in submitting : CanonAccept(id)
            \/ \E t \in Turns, st \in Reached : CanonStatus(t, st)
  BY <1>3, <1>13 DEF ClearInputs, CanonAccept, CanonStatus, coordinator, slot, callers
<1>14. ASSUME Idle PROVE ContinueAgrees'
  BY <1>3, <1>14 DEF Idle
<1> QED
  BY <1>4, <1>5, <1>6, <1>7, <1>8, <1>9, <1>10, <1>11, <1>12, <1>13, <1>14,
     ContinueFinishAgrees, ContinueTerminalAgrees, IdleSteps DEF Next

\* Between the critical sections of Continue the previous Turn neither comes
\* back into the slot nor gets another result, whatever other threads finish,
\* abort or admit meanwhile.  A restore that runs while commands are served
\* would void it, so the theorem is about processes that restore at startup
\* only, as the daemon does.
THEOREM ContinueIsAgreed ==
    ASSUME ~LiveRestore
    PROVE  Spec => []ContinueAgrees
<1>1. Init => ContinueAgrees
  BY DEF Init, ContinueAgrees
<1>2. IInv /\ BooksInv /\ RestoreInv /\ ContinueAgrees /\ [Next]_vars => ContinueAgrees'
  BY AgreesStep DEF RestoreInv
<1> QED
  BY <1>1, <1>2, RestoreHolds, PTL DEF Spec

=============================================================================
