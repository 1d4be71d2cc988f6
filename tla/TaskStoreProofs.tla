--------------------------- MODULE TaskStoreProofs ---------------------------
(***************************************************************************)
(* Proofs about TaskStore, for every task tree, every set of leases, every *)
(* retry bound, and with or without the snapshots RunnerManager writes and *)
(* checkpoints that fail behind their manifest.                            *)
(*                                                                         *)
(* The store validates a checkpoint on the dirty roots only, and links the *)
(* files of the other roots of the previous generation.  What makes that   *)
(* sound is Family: an agent never leaves the root of its first task, so   *)
(* nothing that is validated about a task mentions another root, and an    *)
(* image put together root by root from sound images is sound (Glue).      *)
(***************************************************************************)
EXTENDS TaskStore, TLAPS, WellFoundedInduction

\* Every activation of an agent is below the root of the agent's first task.
Family(ts) ==
    \A t \in Stored(ts) : Parent[t] # None => Root[AgentOf[t]] = Root[t]

\* An active lease belongs to the task's current recovery round.
Rounds(ts, ls) ==
    \A l \in Leases :
        ls[l] # None /\ ls[l].state = "active" => ls[l].round = ts[ls[l].task].retry

\* What restore_from_projection_directory validates, Family and Rounds.
Sound(ts, ls) ==
    Family(ts) /\ Consistent(ts, ls) /\ AgentHistory(ts) /\ Rounds(ts, ls)

\* The inductive invariant.
SnapFamily == snap # None => Family(snap.tasks) /\ Rounds(snap.tasks, snap.leases)
IInv ==
    /\ TypeOK
    /\ Sound(tasks, leases)
    /\ Sound(disk.tasks, disk.leases)
    /\ SnapFamily

-----------------------------------------------------------------------------
(* The tree *)

\* Root is constant along a line of ancestors, and a root is its own root.
LEMMA TreeFacts ==
    ASSUME NEW t \in Tasks
    PROVE  /\ Root[t] \in Roots
           /\ Root[Root[t]] = Root[t]
           /\ Parent[t] # None => Parent[t] \in Tasks /\ Root[Parent[t]] = Root[t]
           /\ \A u \in Line[t] : u \in Tasks /\ Root[u] = Root[t]
<1>1. Root[t] \in Tasks /\ Parent[Root[t]] = None /\ Root[t] \in Line[t]
  BY TreeAssumption
<1>2. Line[t] = Above[t] \cup {t}
  BY DEF Line
<1>3. \A u \in Above[t] : Root[u] = Root[t]
  BY TreeAssumption
<1>4. \A u \in Above[t] : u \in Tasks
  BY TreeAssumption DEF Above
<1>5. Parent[t] # None => Parent[t] \in Above[t]
  BY TreeAssumption DEF Above
<1> QED
  BY <1>1, <1>2, <1>3, <1>4, <1>5 DEF Roots

\* The cut to all roots is everything.
LEMMA WholeCut ==
    ASSUME NEW ts \in TaskMaps, NEW ls \in LeaseMaps
    PROVE  CutTasks(ts, Roots) = ts /\ CutLeases(ls, Roots) = ls
<1>1. \A t \in Tasks : Root[t] \in Roots
  BY TreeFacts
<1>2. CutTasks(ts, Roots) = ts
  BY <1>1 DEF CutTasks, TaskMaps
<1>3. \A l \in Leases : ls[l] # None => ls[l].task \in Tasks
  BY DEF LeaseMaps, LeaseRecords
<1>4. CutLeases(ls, Roots) = ls
  BY <1>1, <1>3 DEF CutLeases, LeaseMaps
<1> QED
  BY <1>2, <1>4

-----------------------------------------------------------------------------
(* Putting an image together root by root *)

\* The image (ts, ls) shows, of root x, a part of the image (s, k).
Shows(ts, ls, s, k, x) ==
    /\ \A t \in Tasks : Root[t] = x => ts[t] = s[t]
    /\ \A l \in Leases : ls[l] # None /\ Root[ls[l].task] = x => k[l] = ls[l]

\* An image in which every root comes from a sound image is sound: the files
\* of a projection directory may be of different ages.
LEMMA Glue ==
    ASSUME NEW ts \in TaskMaps, NEW ls \in LeaseMaps,
           \A x \in Roots : \E s \in TaskMaps, k \in LeaseMaps :
               Sound(s, k) /\ Shows(ts, ls, s, k, x)
    PROVE  Sound(ts, ls)
<1>1. Family(ts)
  <2> SUFFICES ASSUME NEW t \in Stored(ts), Parent[t] # None
               PROVE  Root[AgentOf[t]] = Root[t]
    BY DEF Family
  <2>1. t \in Tasks /\ ts[t] # None
    BY DEF Stored
  <2>2. PICK s \in TaskMaps, k \in LeaseMaps :
            Sound(s, k) /\ Shows(ts, ls, s, k, Root[t])
    BY <2>1, TreeFacts
  <2>3. t \in Stored(s)
    BY <2>1, <2>2 DEF Shows, Stored
  <2> QED
    BY <2>2, <2>3 DEF Sound, Family
<1>2. Consistent(ts, ls)
  <2>1. ASSUME NEW t \in Stored(ts)
        PROVE  /\ ts[Root[t]] # None
               /\ Parent[t] # None => ValidBinding(ts[t], t)
    <3>1. t \in Tasks /\ ts[t] # None
      BY DEF Stored
    <3>2. Root[t] \in Roots /\ Root[t] \in Tasks /\ Root[Root[t]] = Root[t]
      BY <3>1, TreeFacts DEF Roots
    <3>3. PICK s \in TaskMaps, k \in LeaseMaps :
              Sound(s, k) /\ Shows(ts, ls, s, k, Root[t])
      BY <3>2
    <3>4. s[t] = ts[t] /\ s[Root[t]] = ts[Root[t]]
      BY <3>1, <3>2, <3>3 DEF Shows
    <3>5. t \in Stored(s)
      BY <3>1, <3>4 DEF Stored
    <3> QED
      BY <3>3, <3>4, <3>5 DEF Sound, Consistent
  <2>2. ASSUME NEW l \in Leases, ls[l] # None
        PROVE  ts[ls[l].task] # None
    <3>1. ls[l].task \in Tasks
      BY <2>2 DEF LeaseMaps, LeaseRecords
    <3>2. PICK s \in TaskMaps, k \in LeaseMaps :
              Sound(s, k) /\ Shows(ts, ls, s, k, Root[ls[l].task])
      BY <3>1, TreeFacts
    <3>3. k[l] = ls[l] /\ s[ls[l].task] = ts[ls[l].task]
      BY <2>2, <3>1, <3>2 DEF Shows
    <3> QED
      BY <2>2, <3>2, <3>3 DEF Sound, Consistent
  <2>3. ASSUME NEW t \in Tasks
        PROVE  LeaseContract(ts, ls, t)
    <3>1. PICK s \in TaskMaps, k \in LeaseMaps :
              Sound(s, k) /\ Shows(ts, ls, s, k, Root[t])
      BY TreeFacts
    <3>2. s[t] = ts[t] /\ LeaseContract(s, k, t)
      BY <3>1 DEF Shows, Sound, Consistent
    <3>3. ActiveOf(ls, t) \subseteq ActiveOf(k, t)
      BY <3>1 DEF Shows, ActiveOf, Active
    <3> QED
      BY <3>2, <3>3 DEF LeaseContract
  <2> QED
    BY <2>1, <2>2, <2>3 DEF Consistent
<1>3. AgentHistory(ts)
  <2> SUFFICES ASSUME NEW t \in Stored(ts), Parent[t] # None
               PROVE  /\ ts[Parent[t]] # None
                      /\ ts[t].handed = "yes" => Parent[Parent[t]] = None
                      /\ \A u \in Stored(ts) :
                            AgentOf[u] = AgentOf[t] /\ ts[u].gen = ts[t].gen => u = t
                      /\ ts[t].prev # None =>
                            /\ ts[ts[t].prev] # None
                            /\ AgentOf[ts[t].prev] = AgentOf[t]
                            /\ ts[ts[t].prev].gen + 1 = ts[t].gen
                            /\ Continuable(ts[ts[t].prev])
                            /\ SameOwner(Parent[ts[t].prev], Parent[t])
    BY DEF AgentHistory
  <2>1. t \in Tasks /\ ts[t] # None
    BY DEF Stored
  <2>2. PICK s \in TaskMaps, k \in LeaseMaps :
            Sound(s, k) /\ Shows(ts, ls, s, k, Root[t])
    BY <2>1, TreeFacts
  <2>3. t \in Stored(s) /\ s[t] = ts[t]
    BY <2>1, <2>2 DEF Shows, Stored
  <2>4. Parent[t] \in Tasks /\ s[Parent[t]] = ts[Parent[t]]
    BY <2>1, <2>2, TreeFacts DEF Shows
  <2>5. ts[Parent[t]] # None /\ (ts[t].handed = "yes" => Parent[Parent[t]] = None)
    BY <2>2, <2>3, <2>4 DEF Sound, AgentHistory
  <2>6. ASSUME NEW u \in Stored(ts), AgentOf[u] = AgentOf[t], ts[u].gen = ts[t].gen
        PROVE  u = t
    <3>1. u \in Tasks /\ ts[u] # None /\ Parent[u] # None
      BY <2>1, <2>6, AgentAssumption DEF Stored
    <3>2. Root[u] = Root[t]
      BY <1>1, <2>6, <3>1 DEF Family
    <3>3. u \in Stored(s) /\ s[u] = ts[u]
      BY <2>2, <3>1, <3>2 DEF Shows, Stored
    <3> QED
      BY <2>2, <2>3, <2>6, <3>3 DEF Sound, AgentHistory
  <2>7. ASSUME ts[t].prev # None
        PROVE  /\ ts[ts[t].prev] # None
               /\ AgentOf[ts[t].prev] = AgentOf[t]
               /\ ts[ts[t].prev].gen + 1 = ts[t].gen
               /\ Continuable(ts[ts[t].prev])
               /\ SameOwner(Parent[ts[t].prev], Parent[t])
    <3> DEFINE p == ts[t].prev
    <3>1. p \in Tasks
      BY <2>1, <2>7 DEF TaskMaps, TaskRecords
    <3>2. /\ s[p] # None
          /\ AgentOf[p] = AgentOf[t]
          /\ s[p].gen + 1 = s[t].gen
          /\ Continuable(s[p])
          /\ SameOwner(Parent[p], Parent[t])
      BY <2>2, <2>3, <2>7 DEF Sound, AgentHistory
    <3>3. p \in Stored(s) /\ Parent[p] # None
      BY <2>1, <3>1, <3>2, AgentAssumption DEF Stored
    <3>4. Root[p] = Root[t]
      BY <2>2, <2>3, <3>2, <3>3 DEF Sound, Family
    <3>5. s[p] = ts[p]
      BY <2>2, <3>1, <3>4 DEF Shows
    <3> QED
      BY <2>3, <3>2, <3>5
  <2> QED
    BY <2>5, <2>6, <2>7
<1>4. Rounds(ts, ls)
  <2> SUFFICES ASSUME NEW l \in Leases, ls[l] # None, ls[l].state = "active"
               PROVE  ls[l].round = ts[ls[l].task].retry
    BY DEF Rounds
  <2>1. ls[l].task \in Tasks
    BY DEF LeaseMaps, LeaseRecords
  <2>2. PICK s \in TaskMaps, k \in LeaseMaps :
            Sound(s, k) /\ Shows(ts, ls, s, k, Root[ls[l].task])
    BY <2>1, TreeFacts
  <2>3. k[l] = ls[l] /\ s[ls[l].task] = ts[ls[l].task]
    BY <2>1, <2>2 DEF Shows
  <2> QED
    BY <2>2, <2>3 DEF Sound, Rounds
<1> QED
  BY <1>1, <1>2, <1>3, <1>4 DEF Sound

-----------------------------------------------------------------------------
(* Checkpoints *)

\* The candidate maps (ts, ls) change memory only below the dirty roots D.
Framed(ts, ls, D) ==
    /\ ts \in TaskMaps /\ ls \in LeaseMaps
    /\ Family(ts) /\ Rounds(ts, ls)
    /\ \A t \in Tasks : Root[t] \notin D => ts[t] = tasks[t]
    /\ \A l \in Leases :
          ls[l] # None /\ Root[ls[l].task] \notin D => ls[l] = leases[l]

\* What Accepts validates is sound by itself.
LEMMA CutSound ==
    ASSUME NEW ts \in TaskMaps, NEW ls \in LeaseMaps, NEW D,
           Family(ts), Rounds(ts, ls), Accepts(ts, ls, D)
    PROVE  /\ CutTasks(ts, D) \in TaskMaps
           /\ CutLeases(ls, D) \in LeaseMaps
           /\ Sound(CutTasks(ts, D), CutLeases(ls, D))
           /\ \A x \in D : Shows(ts, ls, CutTasks(ts, D), CutLeases(ls, D), x)
<1>1. CutTasks(ts, D) \in TaskMaps
  BY DEF CutTasks, TaskMaps
<1>2. CutLeases(ls, D) \in LeaseMaps
  BY DEF CutLeases, LeaseMaps
<1>3. Family(CutTasks(ts, D))
  BY DEF Family, CutTasks, Stored
<1>4. ASSUME NEW x \in D
      PROVE  Shows(ts, ls, CutTasks(ts, D), CutLeases(ls, D), x)
  BY <1>4 DEF Shows, CutTasks, CutLeases
<1>5. Rounds(CutTasks(ts, D), CutLeases(ls, D))
  <2>1. \A l \in Leases : ls[l] # None => ls[l].task \in Tasks
    BY DEF LeaseMaps, LeaseRecords
  <2> QED
    BY <2>1 DEF Rounds, CutTasks, CutLeases
<1> QED
  BY <1>1, <1>2, <1>3, <1>4, <1>5 DEF Sound, Accepts

\* The projection that checkpoint_snapshot_to_projection_directory writes.
LEMMA WrittenType ==
    ASSUME NEW ts \in TaskMaps, NEW ls \in LeaseMaps, NEW K, TypeOK
    PROVE  Written(ts, ls, K) \in Images
<1>1. disk.tasks \in TaskMaps /\ disk.leases \in LeaseMaps
  BY DEF TypeOK, Images
<1>2. [t \in Tasks |-> IF Root[t] \in K THEN disk.tasks[t] ELSE ts[t]] \in TaskMaps
  BY <1>1 DEF TaskMaps
<1>3. [l \in Leases |->
          IF disk.leases[l] # None /\ Root[disk.leases[l].task] \in K
          THEN disk.leases[l]
          ELSE IF ls[l] # None /\ Root[ls[l].task] \in K THEN None ELSE ls[l]]
        \in LeaseMaps
  BY <1>1 DEF LeaseMaps
<1> QED
  BY <1>2, <1>3 DEF Written, Images

LEMMA WrittenSound ==
    ASSUME IInv, NEW ts, NEW ls, NEW D, NEW K, Framed(ts, ls, D), Accepts(ts, ls, D)
    PROVE  Sound(ts, ls) /\ Sound(Written(ts, ls, K).tasks, Written(ts, ls, K).leases)
<1> DEFINE W == Written(ts, ls, K)
<1>1. ts \in TaskMaps /\ ls \in LeaseMaps /\ Family(ts) /\ Rounds(ts, ls)
  BY DEF Framed
<1>2. /\ tasks \in TaskMaps /\ leases \in LeaseMaps
      /\ disk.tasks \in TaskMaps /\ disk.leases \in LeaseMaps
      /\ W.tasks \in TaskMaps /\ W.leases \in LeaseMaps
  BY <1>1, WrittenType DEF IInv, TypeOK, Images
<1>3. /\ W.tasks = [t \in Tasks |-> IF Root[t] \in K THEN disk.tasks[t] ELSE ts[t]]
      /\ W.leases = [l \in Leases |->
            IF disk.leases[l] # None /\ Root[disk.leases[l].task] \in K
            THEN disk.leases[l]
            ELSE IF ls[l] # None /\ Root[ls[l].task] \in K THEN None ELSE ls[l]]
  BY DEF Written
<1>4. ASSUME NEW x \in Roots
      PROVE  \E s \in TaskMaps, k \in LeaseMaps :
                Sound(s, k) /\ Shows(ts, ls, s, k, x)
  <2>1. CASE x \in D
    BY <1>1, <2>1, CutSound
  <2>2. CASE x \notin D
    <3>1. Shows(ts, ls, tasks, leases, x)
      BY <2>2 DEF Shows, Framed
    <3> QED
      BY <1>2, <3>1 DEF IInv
  <2> QED
    BY <2>1, <2>2
<1>5. ASSUME NEW x \in Roots
      PROVE  \E s \in TaskMaps, k \in LeaseMaps :
                Sound(s, k) /\ Shows(W.tasks, W.leases, s, k, x)
  <2>1. CASE x \in K
    <3>1. Shows(W.tasks, W.leases, disk.tasks, disk.leases, x)
      BY <1>3, <2>1 DEF Shows
    <3> QED
      BY <1>2, <3>1 DEF IInv
  <2>2. CASE x \notin K
    <3>1. PICK s \in TaskMaps, k \in LeaseMaps :
              Sound(s, k) /\ Shows(ts, ls, s, k, x)
      BY <1>4
    <3>2. \A t \in Tasks : Root[t] = x => W.tasks[t] = s[t]
      BY <1>3, <2>2, <3>1 DEF Shows
    <3>3. \A l \in Leases :
              W.leases[l] # None /\ Root[W.leases[l].task] = x => W.leases[l] = ls[l]
      BY <1>3, <2>2
    <3>4. Shows(W.tasks, W.leases, s, k, x)
      BY <3>1, <3>2, <3>3 DEF Shows
    <3> QED
      BY <3>1, <3>4
  <2> QED
    BY <2>1, <2>2
<1> QED
  BY <1>1, <1>2, <1>4, <1>5, Glue

\* A committed checkpoint keeps the invariant, whatever the operation.
LEMMA Committed ==
    ASSUME IInv, NEW ts, NEW ls, NEW D,
           Framed(ts, ls, D), Commit(ts, ls, D),
           overdue' \subseteq Leases, snap' = snap,
           owed' \subseteq Roots, used' \subseteq Tasks,
           phase' \in {"up", "restored", "reconciled", "down"}
    PROVE  IInv'
<1>1. /\ Accepts(ts, ls, D)
      /\ tasks' = ts /\ leases' = ls
      /\ journal' = Covered
  BY DEF Commit, Persist
<1>7. PICK K : disk' = Written(ts, ls, K)
  BY DEF Commit, Persist
<1>2. ts \in TaskMaps /\ ls \in LeaseMaps /\ TypeOK
  BY DEF Framed, IInv
<1>3. TypeOK'
  <2>1. Covered \in [Roots -> {"none", "open", "covered"}]
    BY <1>2 DEF Covered, TypeOK
  <2> QED
    BY <1>1, <1>2, <1>7, <2>1, WrittenType DEF TypeOK
<1>4. Sound(ts, ls) /\ Sound(Written(ts, ls, K).tasks, Written(ts, ls, K).leases)
  BY <1>1, WrittenSound
<1>5. Sound(tasks, leases)' /\ Sound(disk.tasks, disk.leases)'
  BY <1>1, <1>4, <1>7 DEF Sound, Family, Consistent, AgentHistory, Rounds, Stored, LeaseContract,
                    ActiveOf, Active
<1>6. SnapFamily'
  BY DEF IInv, SnapFamily, Family, Rounds, Stored
<1> QED
  BY <1>3, <1>5, <1>6 DEF IInv

\* So does one that fails behind its manifest: what it wrote is sound although
\* memory does not follow.
LEMMA FailedLate ==
    ASSUME IInv, NEW ts, NEW ls, NEW D,
           Framed(ts, ls, D), LateError(ts, ls, D),
           overdue' \subseteq Leases, snap' = snap,
           owed' \subseteq Roots, used' \subseteq Tasks,
           phase' \in {"up", "restored", "reconciled", "down"}
    PROVE  IInv'
<1>1. /\ LateErrors
      /\ Accepts(ts, ls, D)
      /\ tasks' = tasks /\ leases' = leases
      /\ journal' = Covered
  BY DEF LateError, Persist
<1>7. PICK K : disk' = Written(ts, ls, K)
  BY DEF LateError, Persist
<1>2. ts \in TaskMaps /\ ls \in LeaseMaps /\ TypeOK
  BY DEF Framed, IInv
<1>3. TypeOK'
  <2>1. Covered \in [Roots -> {"none", "open", "covered"}]
    BY <1>2 DEF Covered, TypeOK
  <2> QED
    BY <1>1, <1>2, <1>7, <2>1, WrittenType DEF TypeOK
<1>4. Sound(Written(ts, ls, K).tasks, Written(ts, ls, K).leases)
  BY <1>1, WrittenSound
<1>5. Sound(tasks, leases)' /\ Sound(disk.tasks, disk.leases)'
  BY <1>1, <1>4, <1>7 DEF IInv, Sound, Family, Consistent, AgentHistory, Rounds, Stored,
                    LeaseContract, ActiveOf, Active
<1>6. SnapFamily'
  BY <1>1 DEF IInv, SnapFamily, Family, Rounds, Stored
<1> QED
  BY <1>3, <1>5, <1>6 DEF IInv

LEMMA Checkpointed ==
    ASSUME IInv, NEW ts, NEW ls, NEW D,
           Framed(ts, ls, D), Checkpoint(ts, ls, D),
           overdue' \subseteq Leases, snap' = snap,
           owed' \subseteq Roots, used' \subseteq Tasks,
           phase' \in {"up", "restored", "reconciled", "down"}
    PROVE  IInv'
BY Committed, FailedLate DEF Checkpoint

-----------------------------------------------------------------------------
(* Operations on memory only *)

LEMMA InsertRootStep ==
    ASSUME IInv, NEW r \in Tasks, InsertRoot(r)
    PROVE  IInv'
<1>1. /\ r \in Roots /\ Parent[r] = None /\ tasks[r] = None
      /\ tasks' = [tasks EXCEPT ![r] = Created(0, None)]
      /\ leases' = leases /\ disk' = disk /\ snap' = snap
  BY DEF InsertRoot, Roots
<1>2. TypeOK
  BY DEF IInv
<1>3. Created(0, None) \in TaskRecords /\ Created(0, None) # None
  <2>1. 0 \in 0..MaxRetry /\ 0 \in Nat
    BY BoundAssumption
  <2>2. Created(0, None) \in TaskRecords
    BY <2>1 DEF Created, TaskRecords, Live
  <2> QED
    BY <2>2, NoneAssumption
<1>4. /\ tasks' \in TaskMaps
      /\ tasks'[r] = Created(0, None)
      /\ \A t \in Tasks : t # r => tasks'[t] = tasks[t]
      /\ Stored(tasks') = Stored(tasks) \cup {r}
  BY <1>1, <1>2, <1>3 DEF TypeOK, TaskMaps, Stored
<1>5. TypeOK'
  BY <1>2, <1>4 DEF TypeOK, InsertRoot
<1>6. Root[r] = r /\ AgentOf[r] = None
  BY <1>1, TreeAssumption, AgentAssumption DEF Line, Above
<1>7. Sound(tasks, leases)
  BY DEF IInv
<1>8. Family(tasks')
  BY <1>1, <1>4, <1>7 DEF Sound, Family
<1>9. Consistent(tasks', leases)
  <2>1. \A l \in Leases : leases[l] # None =>
            leases[l].task \in Stored(tasks) /\ leases[l].task # r
    BY <1>1, <1>2, <1>7 DEF Sound, Consistent, Stored, TypeOK, LeaseMaps, LeaseRecords
  <2>2. \A t \in Tasks : LeaseContract(tasks', leases, t)
    <3> SUFFICES ASSUME NEW t \in Tasks
                 PROVE  LeaseContract(tasks', leases, t)
      OBVIOUS
    <3>1. CASE t = r
      BY <2>1, <3>1 DEF LeaseContract, ActiveOf, Active
    <3>2. CASE t # r
      BY <1>4, <1>7, <3>2 DEF LeaseContract, Sound, Consistent
    <3> QED
      BY <3>1, <3>2
  <2>3. \A t \in Stored(tasks') : /\ tasks'[Root[t]] # None
                                  /\ Parent[t] # None => ValidBinding(tasks'[t], t)
    <3> SUFFICES ASSUME NEW t \in Stored(tasks')
                 PROVE  /\ tasks'[Root[t]] # None
                        /\ Parent[t] # None => ValidBinding(tasks'[t], t)
      OBVIOUS
    <3>1. CASE t = r
      BY <1>1, <1>3, <1>4, <1>6, <3>1
    <3>2. CASE t # r
      <4>1. t \in Stored(tasks) /\ t \in Tasks /\ tasks'[t] = tasks[t]
        BY <1>4, <3>2 DEF Stored
      <4>2. tasks[Root[t]] # None /\ Root[t] \in Tasks
        BY <1>7, <4>1, TreeAssumption DEF Sound, Consistent
      <4> QED
        BY <1>1, <1>4, <1>7, <4>1, <4>2 DEF Sound, Consistent
    <3> QED
      BY <3>1, <3>2
  <2>4. \A l \in Leases : leases[l] # None => tasks'[leases[l].task] # None
    BY <1>4, <2>1 DEF Stored
  <2> QED
    BY <2>2, <2>3, <2>4 DEF Consistent
<1>10. Rounds(tasks', leases)
  <2>1. \A l \in Leases : leases[l] # None => tasks'[leases[l].task] = tasks[leases[l].task]
    BY <1>1, <1>2, <1>4, <1>7
    DEF Sound, Consistent, TypeOK, LeaseMaps, LeaseRecords
  <2> QED
    BY <1>7, <2>1 DEF Sound, Rounds
<1>11. AgentHistory(tasks')
  <2> SUFFICES ASSUME NEW t \in Stored(tasks'), Parent[t] # None
               PROVE  /\ tasks'[Parent[t]] # None
                      /\ tasks'[t].handed = "yes" => Parent[Parent[t]] = None
                      /\ \A u \in Stored(tasks') :
                            AgentOf[u] = AgentOf[t] /\ tasks'[u].gen = tasks'[t].gen
                                => u = t
                      /\ tasks'[t].prev # None =>
                            /\ tasks'[tasks'[t].prev] # None
                            /\ AgentOf[tasks'[t].prev] = AgentOf[t]
                            /\ tasks'[tasks'[t].prev].gen + 1 = tasks'[t].gen
                            /\ Continuable(tasks'[tasks'[t].prev])
                            /\ SameOwner(Parent[tasks'[t].prev], Parent[t])
    BY DEF AgentHistory
  <2>1. t \in Tasks /\ t \in Stored(tasks) /\ t # r /\ tasks'[t] = tasks[t]
    BY <1>1, <1>4 DEF Stored
  <2>2. Parent[t] \in Tasks /\ AgentOf[t] # None
    BY <2>1, TreeFacts, AgentAssumption
  <2>3. /\ tasks[Parent[t]] # None
        /\ tasks[t].handed = "yes" => Parent[Parent[t]] = None
        /\ \A u \in Stored(tasks) :
              AgentOf[u] = AgentOf[t] /\ tasks[u].gen = tasks[t].gen => u = t
        /\ tasks[t].prev # None =>
              /\ tasks[tasks[t].prev] # None
              /\ AgentOf[tasks[t].prev] = AgentOf[t]
              /\ tasks[tasks[t].prev].gen + 1 = tasks[t].gen
              /\ Continuable(tasks[tasks[t].prev])
              /\ SameOwner(Parent[tasks[t].prev], Parent[t])
    BY <1>7, <2>1 DEF Sound, AgentHistory
  <2>4. tasks'[Parent[t]] # None
    BY <1>1, <1>4, <2>2, <2>3
  <2>5. \A u \in Stored(tasks') :
            AgentOf[u] = AgentOf[t] /\ tasks'[u].gen = tasks'[t].gen => u = t
    BY <1>4, <1>6, <2>1, <2>2, <2>3 DEF Stored
  <2>6. tasks[t].prev # None => tasks[t].prev \in Tasks /\ tasks[t].prev # r
    BY <1>1, <1>2, <2>1, <2>3 DEF TypeOK, TaskMaps, TaskRecords, Stored
  <2> QED
    BY <1>4, <2>1, <2>3, <2>4, <2>5, <2>6
<1> QED
  BY <1>1, <1>5, <1>8, <1>9, <1>10, <1>11
  DEF IInv, Sound, SnapFamily, Family, Consistent, AgentHistory, Rounds, Stored, LeaseContract,
      ActiveOf, Active

\* Leases that change in memory only: nothing else of the image does.
LEMMA LeasesStep ==
    ASSUME IInv, NEW ls \in LeaseMaps, leases' = ls,
           overdue' \subseteq Leases,
           UNCHANGED <<tasks, disk, snap, journal, owed, used, phase>>,
           \A l \in Leases : ls[l] # None => tasks[ls[l].task] # None,
           \A t \in Tasks : LeaseContract(tasks, ls, t),
           Rounds(tasks, ls)
    PROVE  IInv'
<1>1. TypeOK'
  BY DEF IInv, TypeOK
<1>2. Sound(tasks, ls)
  BY DEF IInv, Sound, Consistent
<1>3. Sound(tasks, leases)' /\ Sound(disk.tasks, disk.leases)'
  BY <1>2 DEF IInv, Sound, Family, Consistent, AgentHistory, Rounds, Stored, LeaseContract,
              ActiveOf, Active
<1> QED
  BY <1>1, <1>3 DEF IInv, SnapFamily, Family, Rounds, Stored

LEMMA GrantedFacts ==
    ASSUME IInv, NEW l \in Leases, NEW t \in Stored(tasks)
    PROVE  /\ Granted(l, t) \in LeaseMaps
           /\ Granted(l, t)[l] # None
           /\ Granted(l, t)[l].task = t
           /\ \A m \in Leases : m # l => Granted(l, t)[m] = leases[m]
           /\ Rounds(tasks, Granted(l, t))
<1>1. t \in Tasks /\ tasks[t] \in TaskRecords /\ leases \in LeaseMaps
  BY DEF IInv, TypeOK, TaskMaps, Stored
<1>2. [task |-> t, round |-> tasks[t].retry, state |-> "active"] \in LeaseRecords
  BY <1>1 DEF TaskRecords, LeaseRecords
<1>3. /\ Granted(l, t) \in LeaseMaps
      /\ Granted(l, t)[l] # None
      /\ Granted(l, t)[l].task = t /\ Granted(l, t)[l].round = tasks[t].retry
      /\ \A m \in Leases : m # l => Granted(l, t)[m] = leases[m]
  BY <1>1, <1>2, NoneAssumption DEF Granted, LeaseMaps
<1>4. Rounds(tasks, leases)
  BY DEF IInv, Sound
<1> QED
  BY <1>3, <1>4 DEF Rounds

LEMMA GrantLeaseStep ==
    ASSUME IInv, NEW l \in Leases, NEW t \in Tasks, GrantLease(l, t)
    PROVE  IInv'
<1>1. /\ t \in Stored(tasks) /\ tasks[t].status = "running"
      /\ ActiveOf(leases, t) = {}
      /\ leases' = Granted(l, t)
  BY DEF GrantLease
<1>2. /\ Granted(l, t) \in LeaseMaps
      /\ Granted(l, t)[l] # None
      /\ Granted(l, t)[l].task = t
      /\ \A m \in Leases : m # l => Granted(l, t)[m] = leases[m]
      /\ Rounds(tasks, Granted(l, t))
  BY <1>1, GrantedFacts
<1>3. ASSUME NEW m \in Leases, Granted(l, t)[m] # None
      PROVE  tasks[Granted(l, t)[m].task] # None
  <2>1. CASE m = l
    BY <1>1, <1>2, <2>1 DEF Stored
  <2>2. CASE m # l
    BY <1>2, <1>3, <2>2 DEF IInv, Sound, Consistent
  <2> QED
    BY <2>1, <2>2
<1>4. ASSUME NEW u \in Tasks
      PROVE  LeaseContract(tasks, Granted(l, t), u)
  <2>1. LeaseContract(tasks, leases, u)
    BY DEF IInv, Sound, Consistent
  <2>2. CASE u = t
    <3>1. ActiveOf(Granted(l, t), t) \subseteq {l}
      BY <1>1, <1>2 DEF ActiveOf, Active
    <3> QED
      BY <1>1, <2>2, <3>1 DEF LeaseContract
  <2>3. CASE u # t
    <3>1. ActiveOf(Granted(l, t), u) \subseteq ActiveOf(leases, u)
      BY <1>2, <2>3 DEF ActiveOf, Active
    <3> QED
      BY <2>1, <3>1 DEF LeaseContract
  <2> QED
    BY <2>2, <2>3
<1> QED
  BY <1>1, <1>2, <1>3, <1>4, LeasesStep DEF GrantLease, IInv, TypeOK

LEMMA RevokeLeaseStep ==
    ASSUME IInv, NEW l \in Leases, RevokeLease(l)
    PROVE  IInv'
<1> DEFINE ls == [leases EXCEPT ![l].state = "revoked"]
<1>1. leases[l] # None /\ leases' = ls
  BY DEF RevokeLease, Active
<1>2. leases \in LeaseMaps /\ leases[l] \in LeaseRecords
  BY <1>1 DEF IInv, TypeOK, LeaseMaps
<1>3. /\ ls \in LeaseMaps
      /\ ls[l] = [leases[l] EXCEPT !.state = "revoked"]
      /\ \A m \in Leases : m # l => ls[m] = leases[m]
  BY <1>2 DEF LeaseMaps, LeaseRecords
<1>4. ls[l].state = "revoked" /\ ls[l].task = leases[l].task
  BY <1>2, <1>3 DEF LeaseRecords
<1>5. ASSUME NEW m \in Leases, ls[m] # None
      PROVE  tasks[ls[m].task] # None
  BY <1>1, <1>3, <1>4, <1>5 DEF IInv, Sound, Consistent
<1>6. ASSUME NEW u \in Tasks
      PROVE  LeaseContract(tasks, ls, u)
  <2>1. ActiveOf(ls, u) \subseteq ActiveOf(leases, u)
    BY <1>3, <1>4 DEF ActiveOf, Active
  <2> QED
    BY <2>1 DEF IInv, Sound, Consistent, LeaseContract
<1>7. Rounds(tasks, ls)
  BY <1>3, <1>4 DEF IInv, Sound, Rounds
<1> QED
  BY <1>1, <1>3, <1>5, <1>6, <1>7, LeasesStep DEF RevokeLease, IInv, TypeOK

\* Steps that leave the maps and the projection alone.
LEMMA QuietStep ==
    ASSUME IInv, UNCHANGED <<tasks, leases, disk>>,
           overdue' \subseteq Leases,
           snap' = snap \/ (LateWrites /\ snap' = [tasks |-> tasks, leases |-> leases]),
           journal' \in [Roots -> {"none", "open", "covered"}],
           owed' \subseteq Roots, used' = used,
           phase' \in {"up", "restored", "reconciled", "down"}
    PROVE  IInv'
<1>1. [tasks |-> tasks, leases |-> leases] \in Images
  BY DEF IInv, TypeOK, Images
<1>2. TypeOK'
  BY <1>1 DEF IInv, TypeOK
<1>3. SnapFamily'
  <2>1. CASE snap' = snap
    BY <2>1 DEF IInv, SnapFamily, Family, Rounds, Stored
  <2>2. CASE snap' = [tasks |-> tasks, leases |-> leases]
    BY <2>2 DEF IInv, SnapFamily, Sound, Family, Rounds, Stored
  <2> QED
    BY <2>1, <2>2
<1> QED
  BY <1>2, <1>3 DEF IInv, Sound, Family, Consistent, AgentHistory, Rounds, Stored, LeaseContract,
                    ActiveOf, Active

-----------------------------------------------------------------------------
(* Operations with a checkpoint *)

\* Candidate maps without a new task are framed once they are typed and local.
LEMMA FramedBy ==
    ASSUME IInv, NEW ts \in TaskMaps, NEW ls \in LeaseMaps, NEW D,
           \A t \in Tasks : ts[t] # None => tasks[t] # None,
           \A t \in Tasks : Root[t] \notin D => ts[t] = tasks[t],
           \A l \in Leases :
              ls[l] # None /\ Root[ls[l].task] \notin D => ls[l] = leases[l],
           Rounds(ts, ls)
    PROVE  Framed(ts, ls, D)
BY DEF Framed, IInv, Sound, Family, Stored

\* Whatever happens to tasks, their active leases stay in the current round as
\* long as the retry counts of leased tasks do not change.
LEMMA RoundsKept ==
    ASSUME IInv, NEW ts, NEW ls \in LeaseMaps,
           \A l \in Leases : ls[l] # None /\ ls[l].state = "active" =>
              ls[l] = leases[l] /\ ts[leases[l].task].retry = tasks[leases[l].task].retry
    PROVE  Rounds(ts, ls)
BY DEF IInv, Sound, Rounds

\* One stored task t gets the record x, the leases ls differ at l only.
LEMMA OneTask ==
    ASSUME IInv, NEW t \in Stored(tasks), NEW x \in TaskRecords,
           NEW ls \in LeaseMaps,
           \A l \in Leases :
              ls[l] # None /\ Root[ls[l].task] # Root[t] => ls[l] = leases[l],
           Rounds([tasks EXCEPT ![t] = x], ls)
    PROVE  Framed([tasks EXCEPT ![t] = x], ls, {Root[t]})
<1>1. t \in Tasks /\ tasks[t] # None /\ tasks \in TaskMaps
  BY DEF IInv, TypeOK, Stored
<1>2. [tasks EXCEPT ![t] = x] \in TaskMaps
  BY <1>1 DEF TaskMaps
<1>3. \A u \in Tasks : u # t => [tasks EXCEPT ![t] = x][u] = tasks[u]
  BY <1>1 DEF TaskMaps
<1> QED
  BY <1>1, <1>2, <1>3, FramedBy

LEMMA StatusRecord ==
    ASSUME IInv, NEW t \in Stored(tasks), NEW st \in Live \cup Terminal
    PROVE  /\ [tasks[t] EXCEPT !.status = st] \in TaskRecords
           /\ WithStatus(t, st) = [tasks EXCEPT ![t] = [tasks[t] EXCEPT !.status = st]]
<1>1. tasks[t] \in TaskRecords
  BY DEF IInv, TypeOK, TaskMaps, Stored
<1>2. [tasks[t] EXCEPT !.status = st] \in TaskRecords
  BY <1>1 DEF TaskRecords
<1>3. WithStatus(t, st) = [tasks EXCEPT ![t] = [tasks[t] EXCEPT !.status = st]]
  BY DEF WithStatus
<1> QED
  BY <1>2, <1>3

\* A candidate that only gives t a new status.
LEMMA StatusFramed ==
    ASSUME IInv, NEW t \in Stored(tasks), NEW st \in Live \cup Terminal,
           NEW ls \in LeaseMaps,
           \A l \in Leases :
              ls[l] # None /\ Root[ls[l].task] # Root[t] => ls[l] = leases[l],
           Rounds(tasks, ls)
    PROVE  Framed(WithStatus(t, st), ls, {Root[t]})
<1> DEFINE x == [tasks[t] EXCEPT !.status = st]
<1>1. x \in TaskRecords /\ WithStatus(t, st) = [tasks EXCEPT ![t] = x]
  BY StatusRecord
<1>2. tasks \in TaskMaps /\ t \in Tasks /\ tasks[t] \in TaskRecords
  BY DEF IInv, TypeOK, TaskMaps, Stored
<1>3. x.retry = tasks[t].retry
  BY <1>2 DEF TaskRecords
<1> HIDE DEF x
<1>4. \A u \in Tasks : [tasks EXCEPT ![t] = x][u].retry = tasks[u].retry
  BY <1>2, <1>3 DEF TaskMaps
<1>5. \A l \in Leases : ls[l] # None => ls[l].task \in Tasks
  BY DEF LeaseMaps, LeaseRecords
<1>6. Rounds([tasks EXCEPT ![t] = x], ls)
  BY <1>4, <1>5 DEF Rounds
<1>7. Framed([tasks EXCEPT ![t] = x], ls, {Root[t]})
  BY <1>1, <1>6, OneTask
<1> QED
  BY <1>1, <1>7

LEMMA InsertAgentStep ==
    ASSUME IInv, NEW t \in Tasks, InsertAgent(t)
    PROVE  IInv'
<1>1. PICK a \in Activations(t) : Checkpoint([tasks EXCEPT ![t] = a], leases, {Root[t]})
  BY DEF InsertAgent
<1> DEFINE ts == [tasks EXCEPT ![t] = a]
<1>2. /\ Parent[t] # None /\ tasks[t] = None
      /\ tasks \in TaskMaps /\ leases \in LeaseMaps
  BY DEF InsertAgent, Insertable, IInv, TypeOK
<1>3. \A h \in Heads(t) : /\ h \in Tasks /\ AgentOf[h] = AgentOf[t]
                          /\ h \in Stored(tasks)
                          /\ tasks[h].gen \in Nat
  BY <1>2 DEF Heads, Stored, TaskMaps, TaskRecords
<1>4. \/ AgentOf[t] = t /\ a = Created(1, None)
      \/ AgentOf[t] # t /\ \E h \in Heads(t) : a = Created(tasks[h].gen + 1, h)
  BY <1>1 DEF Activations
<1>5. a \in TaskRecords /\ a # None
  <2>1. \A g \in Nat, p \in Tasks \cup {None} : Created(g, p) \in TaskRecords
    <3>1. 0 \in 0..MaxRetry
      BY BoundAssumption
    <3> QED
      BY <3>1 DEF Created, TaskRecords, Live
  <2>2. a \in TaskRecords
    BY <1>3, <1>4, <2>1
  <2> QED
    BY <2>2, NoneAssumption
<1>6. /\ ts \in TaskMaps /\ ts[t] = a
      /\ \A u \in Tasks : u # t => ts[u] = tasks[u]
  BY <1>2, <1>5 DEF TaskMaps
<1>7. Root[AgentOf[t]] = Root[t]
  <2>1. CASE AgentOf[t] = t
    BY <2>1
  <2>2. CASE AgentOf[t] # t
    <3>1. PICK h \in Heads(t) : a = Created(tasks[h].gen + 1, h)
      BY <1>4, <2>2
    <3>2. AgentHistory(CutTasks(ts, {Root[t]}))
      BY <1>1 DEF Checkpoint, Commit, LateError, Persist, Accepts
    <3>3. CutTasks(ts, {Root[t]})[t] = a /\ t \in Stored(CutTasks(ts, {Root[t]}))
      BY <1>5, <1>6 DEF CutTasks, Stored
    <3>4. a.prev = h /\ h \in Tasks /\ h # None
      BY <1>3, <3>1, TreeAssumption DEF Created
    <3>5. CutTasks(ts, {Root[t]})[h] # None
      BY <1>2, <3>2, <3>3, <3>4 DEF AgentHistory
    <3>6. Root[h] = Root[t]
      BY <3>4, <3>5 DEF CutTasks
    <3>7. Parent[h] # None
      BY <1>2, <1>3, <3>1, AgentAssumption
    <3>8. Root[AgentOf[h]] = Root[h]
      BY <1>3, <3>1, <3>7 DEF IInv, Sound, Family
    <3> QED
      BY <1>3, <3>1, <3>6, <3>8
  <2> QED
    BY <2>1, <2>2
<1>8. Family(ts)
  BY <1>2, <1>6, <1>7 DEF Family, Stored, IInv, Sound
<1>9. Rounds(ts, leases)
  <2>1. \A l \in Leases : leases[l] # None => leases[l].task \in Tasks /\ leases[l].task # t
    BY <1>2 DEF IInv, Sound, Consistent, LeaseMaps, LeaseRecords
  <2>2. \A l \in Leases : leases[l] # None => ts[leases[l].task] = tasks[leases[l].task]
    BY <1>6, <2>1
  <2> HIDE DEF ts
  <2> QED
    BY <1>2, <2>2, RoundsKept
<1>10. Framed(ts, leases, {Root[t]})
  BY <1>2, <1>6, <1>8, <1>9 DEF Framed
<1> QED
  BY <1>1, <1>10, Checkpointed DEF InsertAgent, IInv, TypeOK

LEMMA TransferStep ==
    ASSUME IInv, NEW t \in Tasks, Transfer(t)
    PROVE  IInv'
<1> DEFINE x == [tasks[t] EXCEPT !.handed = "yes"]
<1>1. t \in Stored(tasks) /\ Checkpoint([tasks EXCEPT ![t].handed = "yes"], leases, {Root[t]})
  BY DEF Transfer, LiveIn
<1>2. tasks \in TaskMaps /\ tasks[t] \in TaskRecords /\ leases \in LeaseMaps
  BY <1>1 DEF IInv, TypeOK, TaskMaps, Stored
<1>3. x \in TaskRecords /\ x.retry = tasks[t].retry
  BY <1>2 DEF TaskRecords
<1>4. [tasks EXCEPT ![t].handed = "yes"] = [tasks EXCEPT ![t] = x]
  OBVIOUS
<1> HIDE DEF x
<1>5. \A u \in Tasks : [tasks EXCEPT ![t] = x][u].retry = tasks[u].retry
  BY <1>2, <1>3 DEF TaskMaps
<1>6. \A l \in Leases : leases[l] # None => leases[l].task \in Tasks
  BY <1>2 DEF LeaseMaps, LeaseRecords
<1>7. Rounds([tasks EXCEPT ![t] = x], leases)
  BY <1>2, <1>5, <1>6, RoundsKept
<1>8. Framed([tasks EXCEPT ![t] = x], leases, {Root[t]})
  BY <1>1, <1>2, <1>3, <1>7, OneTask
<1> QED
  BY <1>1, <1>4, <1>8, Checkpointed DEF Transfer, IInv, TypeOK

LEMMA RemoveTaskStep ==
    ASSUME IInv, NEW t \in Tasks, RemoveTask(t)
    PROVE  IInv'
<1>1. tasks \in TaskMaps /\ leases \in LeaseMaps
  BY DEF IInv, TypeOK
<1>2. [tasks EXCEPT ![t] = None] \in TaskMaps /\ Dropped({t}) \in LeaseMaps
  BY <1>1 DEF TaskMaps, LeaseMaps, Dropped
<1>3. \A u \in Tasks : [tasks EXCEPT ![t] = None][u] # None => tasks[u] # None
  BY <1>1 DEF TaskMaps
<1>4. \A l \in Leases : Dropped({t})[l] # None => Dropped({t})[l] = leases[l]
  BY DEF Dropped
<1>5. \A u \in Tasks : Root[u] \in Roots
  BY TreeFacts
<1>6. Rounds([tasks EXCEPT ![t] = None], Dropped({t}))
  <2>1. \A l \in Leases : Dropped({t})[l] # None =>
            leases[l].task \in Tasks /\ leases[l].task # t
    BY <1>1 DEF Dropped, LeaseMaps, LeaseRecords
  <2>2. \A u \in Tasks : u # t => [tasks EXCEPT ![t] = None][u] = tasks[u]
    BY <1>1 DEF TaskMaps
  <2> QED
    BY <1>2, <1>4, <2>1, <2>2, RoundsKept
<1>7. Framed([tasks EXCEPT ![t] = None], Dropped({t}), Roots)
  BY <1>2, <1>3, <1>4, <1>5, <1>6, FramedBy
<1> QED
  BY <1>7, Checkpointed DEF RemoveTask, IInv, TypeOK

LEMMA RemoveMissionStep ==
    ASSUME IInv, RemoveMission
    PROVE  IInv'
<1>1. Empty.tasks \in TaskMaps /\ Empty.leases \in LeaseMaps
  BY DEF Empty, TaskMaps, LeaseMaps
<1>2. /\ \A u \in Tasks : Empty.tasks[u] = None
      /\ \A l \in Leases : Empty.leases[l] = None
  BY DEF Empty
<1>3. \A u \in Tasks : Root[u] \in Roots
  BY TreeFacts
<1>4. Framed(Empty.tasks, Empty.leases, Roots)
  BY <1>1, <1>2, <1>3, FramedBy DEF Rounds
<1> QED
  BY <1>4, Checkpointed DEF RemoveMission, IInv, TypeOK

LEMMA ClaimStep ==
    ASSUME IInv, NEW l \in Leases, NEW t \in Tasks, NEW s \in Tasks, Claim(l, t, s)
    PROVE  IInv'
<1>1. /\ t \in Stored(tasks)
      /\ Checkpoint(WithStatus(t, "running"), Granted(l, t), {Root[t]})
  BY DEF Claim, Claimable, WithStatus
<1>2. /\ Granted(l, t) \in LeaseMaps
      /\ Granted(l, t)[l].task = t
      /\ \A m \in Leases : m # l => Granted(l, t)[m] = leases[m]
      /\ Rounds(tasks, Granted(l, t))
  BY <1>1, GrantedFacts
<1>3. Framed(WithStatus(t, "running"), Granted(l, t), {Root[t]})
  <2>1. "running" \in Live \cup Terminal
    BY DEF Live
  <2> QED
    BY <1>1, <1>2, <2>1, StatusFramed
<1> QED
  BY <1>1, <1>3, Checkpointed DEF Claim, IInv, TypeOK

LEMMA CompleteLeaseStep ==
    ASSUME IInv, NEW l \in Leases, CompleteLease(l)
    PROVE  IInv'
<1> DEFINE t == leases[l].task
           ls == [leases EXCEPT ![l].state = "completed"]
<1>1. leases[l] # None /\ Checkpoint(WithStatus(t, "completed"), ls, {Root[t]})
  BY DEF CompleteLease
<1>2. leases \in LeaseMaps /\ leases[l] \in LeaseRecords /\ t \in Tasks
  BY <1>1 DEF IInv, TypeOK, LeaseMaps, LeaseRecords
<1>3. t \in Stored(tasks)
  BY <1>1, <1>2 DEF IInv, Sound, Consistent, Stored
<1>4. /\ ls \in LeaseMaps
      /\ ls[l].task = t
      /\ ls[l].state = "completed"
      /\ \A m \in Leases : m # l => ls[m] = leases[m]
  BY <1>2 DEF LeaseMaps, LeaseRecords
<1>5. Framed(WithStatus(t, "completed"), ls, {Root[t]})
  <2>1. "completed" \in Live \cup Terminal
    BY DEF Terminal
  <2>2. Rounds(tasks, ls)
    BY <1>4 DEF IInv, Sound, Rounds
  <2> HIDE DEF ls, t
  <2> QED
    BY <1>3, <1>4, <2>1, <2>2, StatusFramed
<1> QED
  BY <1>1, <1>5, Checkpointed DEF CompleteLease, IInv, TypeOK

\* complete_task, update_status_checked: one status, no lease.
LEMMA OneStatusStep ==
    ASSUME IInv, NEW t \in Stored(tasks), NEW st \in Live \cup Terminal,
           Checkpoint(WithStatus(t, st), leases, {Root[t]}),
           UNCHANGED <<overdue, snap, owed, used, phase>>
    PROVE  IInv'
<1>1. leases \in LeaseMaps /\ Rounds(tasks, leases)
  BY DEF IInv, TypeOK, Sound
<1>2. Framed(WithStatus(t, st), leases, {Root[t]})
  BY <1>1, StatusFramed
<1> QED
  BY <1>2, Checkpointed DEF IInv, TypeOK

\* set_subtree_terminal and the other ways to end tasks.
LEMMA EndAllStep ==
    ASSUME IInv, NEW S, S \subseteq Tasks, NEW st \in Terminal, EndAll(S, st)
    PROVE  IInv'
<1> DEFINE E == Endable(S)
           D == {Root[t] : t \in S}
<1>1. /\ Checkpoint(Ended(E, st), Revoked(E), D)
      /\ UNCHANGED <<overdue, snap, owed, used, phase>>
  BY DEF EndAll
<1>2. tasks \in TaskMaps /\ leases \in LeaseMaps
  BY DEF IInv, TypeOK
<1>3. \A t \in E : t \in S /\ t \in Tasks /\ tasks[t] # None /\ tasks[t] \in TaskRecords
  BY <1>2 DEF Endable, LiveIn, Stored, TaskMaps
<1> HIDE DEF E
<1>4. \A x \in TaskRecords : /\ [x EXCEPT !.status = st] \in TaskRecords
                              /\ [x EXCEPT !.status = st].retry = x.retry
  BY DEF TaskRecords
<1>5. Ended(E, st) \in TaskMaps
  BY <1>2, <1>3, <1>4 DEF Ended, TaskMaps
<1>6. \A t \in Tasks : /\ Ended(E, st)[t] # None => tasks[t] # None
                       /\ Root[t] \notin D => Ended(E, st)[t] = tasks[t]
  BY <1>3 DEF Ended
<1>7. \A x \in LeaseRecords : /\ [x EXCEPT !.state = "revoked"] \in LeaseRecords
                              /\ [x EXCEPT !.state = "revoked"].task = x.task
  BY DEF LeaseRecords
<1>8. \A l \in Active(leases) : leases[l] \in LeaseRecords
  BY <1>2 DEF Active, LeaseMaps
<1>9. Revoked(E) \in LeaseMaps
  BY <1>2, <1>7, <1>8 DEF Revoked, LeaseMaps
<1>10. ASSUME NEW l \in Leases, Revoked(E)[l] # None,
              Root[Revoked(E)[l].task] \notin D
       PROVE  Revoked(E)[l] = leases[l]
  <2>1. CASE l \in Active(leases) /\ leases[l].task \in E
    <3>1. Revoked(E)[l] = [leases[l] EXCEPT !.state = "revoked"]
      BY <2>1 DEF Revoked
    <3>2. Revoked(E)[l].task = leases[l].task
      BY <1>7, <1>8, <2>1, <3>1
    <3> QED
      BY <1>3, <1>10, <2>1, <3>2
  <2>2. CASE ~(l \in Active(leases) /\ leases[l].task \in E)
    BY <2>2 DEF Revoked
  <2> QED
    BY <2>1, <2>2
<1>11. Rounds(Ended(E, st), Revoked(E))
  <2>1. \A t \in Tasks : Ended(E, st)[t].retry = tasks[t].retry
    BY <1>3, <1>4 DEF Ended
  <2>2. \A x \in LeaseRecords : [x EXCEPT !.state = "revoked"].state = "revoked"
    BY DEF LeaseRecords
  <2>3. \A l \in Leases : Revoked(E)[l].state = "active" => Revoked(E)[l] = leases[l]
    BY <1>8, <2>2 DEF Revoked
  <2>4. \A l \in Leases : leases[l] # None => leases[l].task \in Tasks
    BY <1>2 DEF LeaseMaps, LeaseRecords
  <2> QED
    BY <1>9, <2>1, <2>3, <2>4, RoundsKept
<1> HIDE DEF D
<1>12. Framed(Ended(E, st), Revoked(E), D)
  BY <1>5, <1>6, <1>9, <1>10, <1>11, FramedBy
<1> QED
  BY <1>1, <1>12, Checkpointed DEF IInv, TypeOK

LEMMA TransitionStep ==
    ASSUME IInv, NEW t \in Tasks, NEW from \in Live \cup Terminal,
           NEW to \in Live \cup Terminal, TransitionRecovery(t, from, to)
    PROVE  IInv'
<1> DEFINE x == [tasks[t] EXCEPT !.status = to,
                                 !.retry = IF to \in Live THEN @ + 1 ELSE @]
<1>1. /\ t \in Stored(tasks)
      /\ ActiveOf(leases, t) = {}
      /\ to \in Live => tasks[t].retry < MaxRetry
      /\ Checkpoint(Recovered(t, to), leases, {Root[t]})
      /\ UNCHANGED <<overdue, snap, owed, used, phase>>
  BY DEF TransitionRecovery
<1>2. tasks[t] \in TaskRecords /\ leases \in LeaseMaps
  BY <1>1 DEF IInv, TypeOK, TaskMaps, Stored
<1>3. tasks[t].retry \in 0..MaxRetry
  BY <1>2 DEF TaskRecords
<1>4. to \in Live => tasks[t].retry + 1 \in 0..MaxRetry
  BY <1>1, <1>3, BoundAssumption
<1>5. x \in TaskRecords
  BY <1>2, <1>4 DEF TaskRecords
<1>6. Recovered(t, to) = [tasks EXCEPT ![t] = x]
  BY <1>1 DEF Recovered, IInv, TypeOK, TaskMaps, Stored
<1> HIDE DEF x
<1>7. Rounds([tasks EXCEPT ![t] = x], leases)
  <2>1. \A u \in Tasks : u # t => [tasks EXCEPT ![t] = x][u] = tasks[u]
    BY DEF IInv, TypeOK, TaskMaps
  <2>2. \A l \in Leases : leases[l] # None /\ leases[l].state = "active" =>
            leases[l].task \in Tasks /\ leases[l].task # t
    BY <1>1, <1>2 DEF LeaseMaps, LeaseRecords, ActiveOf, Active
  <2> QED
    BY <1>2, <2>1, <2>2, RoundsKept
<1>8. Framed([tasks EXCEPT ![t] = x], leases, {Root[t]})
  BY <1>1, <1>2, <1>5, <1>7, OneTask
<1> QED
  BY <1>1, <1>6, <1>8, Checkpointed DEF IInv, TypeOK

LEMMA ReopenScopeStep ==
    ASSUME IInv, NEW s \in Tasks, NEW E \in SUBSET Tasks, ReopenScope(s, E)
    PROVE  IInv'
<1> DEFINE ts == [t \in Tasks |->
                     IF t \in E
                     THEN [tasks[t] EXCEPT !.status = "pending", !.retry = @ + 1]
                     ELSE tasks[t]]
<1>1. /\ E \subseteq Members(s)
      /\ \A t \in Members(s) : ActiveOf(leases, t) = {}
      /\ \A t \in E : tasks[t].retry < MaxRetry
      /\ Checkpoint(ts, leases, {Root[s]})
      /\ UNCHANGED <<overdue, snap, owed, used, phase>>
  BY DEF ReopenScope
<1>2. tasks \in TaskMaps /\ leases \in LeaseMaps
  BY DEF IInv, TypeOK
<1>3. \A t \in E : t \in Tasks /\ tasks[t] # None /\ s \in Line[t]
  BY <1>1 DEF Members, Subtree, Stored
<1>4. \A t \in E : tasks[t] \in TaskRecords /\ tasks[t].retry + 1 \in 0..MaxRetry
  <2> SUFFICES ASSUME NEW t \in E
               PROVE  tasks[t] \in TaskRecords /\ tasks[t].retry + 1 \in 0..MaxRetry
    OBVIOUS
  <2>1. tasks[t] \in TaskRecords
    BY <1>2, <1>3 DEF TaskMaps
  <2>2. tasks[t].retry \in 0..MaxRetry
    BY <2>1 DEF TaskRecords
  <2>3. tasks[t].retry < MaxRetry
    BY <1>1
  <2>4. tasks[t].retry + 1 \in 0..MaxRetry
    BY <2>2, <2>3, BoundAssumption
  <2> QED
    BY <2>1, <2>4
<1>5. \A t \in E :
         [tasks[t] EXCEPT !.status = "pending", !.retry = @ + 1] \in TaskRecords
  BY <1>4 DEF TaskRecords, Live
<1>6. ts \in TaskMaps
  BY <1>2, <1>3, <1>5 DEF TaskMaps
<1>7. \A t \in E : Root[t] = Root[s]
  BY <1>3, TreeFacts
<1>8. \A t \in Tasks : /\ ts[t] # None => tasks[t] # None
                       /\ Root[t] \notin {Root[s]} => ts[t] = tasks[t]
  BY <1>3, <1>7
<1>9. Rounds(ts, leases)
  <2>1. \A t \in Tasks : t \notin E => ts[t] = tasks[t]
    OBVIOUS
  <2>2. \A l \in Leases : leases[l] # None /\ leases[l].state = "active" =>
            leases[l].task \in Tasks /\ leases[l].task \notin E
    BY <1>1, <1>2 DEF LeaseMaps, LeaseRecords, ActiveOf, Active
  <2> HIDE DEF ts
  <2> QED
    BY <1>2, <2>1, <2>2, RoundsKept
<1> HIDE DEF ts
<1>10. Framed(ts, leases, {Root[s]})
  BY <1>2, <1>6, <1>8, <1>9, FramedBy
<1> QED
  BY <1>1, <1>10, Checkpointed DEF IInv, TypeOK

-----------------------------------------------------------------------------
(* Snapshots and startup *)

LEMMA WriteSnapshotStep ==
    ASSUME IInv, WriteSnapshot
    PROVE  IInv'
<1>1. /\ snap # None
      /\ Accepts(snap.tasks, snap.leases, Roots)
      /\ disk' = snap /\ snap' = None
      /\ journal' = Covered
      /\ UNCHANGED <<tasks, leases, overdue, owed, used, phase>>
  BY DEF WriteSnapshot
<1>3. snap \in Images /\ snap.tasks \in TaskMaps /\ snap.leases \in LeaseMaps
  BY <1>1 DEF IInv, TypeOK, Images
<1>4. Sound(snap.tasks, snap.leases)
  BY <1>1, <1>3, WholeCut DEF IInv, SnapFamily, Sound, Accepts
<1>5. TypeOK'
  <2>1. Covered \in [Roots -> {"none", "open", "covered"}]
    BY DEF Covered, IInv, TypeOK
  <2> QED
    BY <1>1, <1>3, <2>1 DEF IInv, TypeOK
<1>6. Sound(disk.tasks, disk.leases)'
  BY <1>1, <1>4 DEF Sound, Family, Consistent, AgentHistory, Rounds, Stored, LeaseContract,
                    ActiveOf, Active
<1>7. Sound(tasks, leases)'
  BY <1>1 DEF IInv, Sound, Family, Consistent, AgentHistory, Rounds, Stored, LeaseContract,
              ActiveOf, Active
<1> QED
  BY <1>1, <1>5, <1>6, <1>7 DEF IInv, SnapFamily

LEMMA RestartStep ==
    ASSUME IInv, Restart
    PROVE  IInv'
<1>1. /\ tasks' = disk.tasks /\ leases' = disk.leases
      /\ overdue' = {} /\ snap' = None /\ phase' = "restored"
      /\ UNCHANGED <<disk, journal, owed, used>>
  BY DEF Restart
<1>2. TypeOK'
  BY <1>1 DEF IInv, TypeOK, Images
<1>3. Sound(tasks, leases)' /\ Sound(disk.tasks, disk.leases)'
  BY <1>1 DEF IInv, Sound, Family, Consistent, AgentHistory, Rounds, Stored, LeaseContract,
              ActiveOf, Active
<1>4. SnapFamily'
  BY <1>1 DEF SnapFamily
<1> QED
  BY <1>2, <1>3, <1>4 DEF IInv

LEMMA ReconcileStep ==
    ASSUME IInv, NEW W \in SUBSET Tasks, Reconcile(W)
    PROVE  IInv'
<1> DEFINE I   == Interrupted(W)
           D   == {Root[t] : t \in I}
           hit == UNION {Members(s) : s \in {u \in Tasks :
                     \E t \in I : ScopeRoot(tasks, t, u)}}
           ts  == [t \in Tasks |-> IF t \in hit \cap LiveIn(tasks)
                                   THEN [tasks[t] EXCEPT !.status = "failed"]
                                   ELSE tasks[t]]
           ls  == [l \in Leases |-> IF l \in Active(leases)
                                    THEN [leases[l] EXCEPT !.state = "revoked"]
                                    ELSE leases[l]]
<1>1. /\ phase' \in {"reconciled", "down"}
      /\ UNCHANGED <<overdue, snap, owed, used>>
      /\ \/ UNCHANGED <<tasks, leases, disk, journal>>
         \/ Checkpoint(ts, ls, D)
  BY DEF Reconcile, Checkpoint
<1>2. CASE UNCHANGED <<tasks, leases, disk, journal>>
  BY <1>1, <1>2, QuietStep DEF IInv, TypeOK
<1>3. CASE Checkpoint(ts, ls, D)
  <2>1. tasks \in TaskMaps /\ leases \in LeaseMaps
    BY DEF IInv, TypeOK
  <2>2. \A t \in hit : Root[t] \in D
    <3> SUFFICES ASSUME NEW s \in Tasks, NEW i \in I, ScopeRoot(tasks, i, s),
                        NEW t \in Members(s)
                 PROVE  Root[t] \in D
      OBVIOUS
    <3>1. i \in Tasks /\ t \in Tasks /\ s \in Line[t]
      BY DEF Interrupted, Members, Subtree, Stored
    <3>2. Root[s] = Root[t]
      BY <3>1, TreeFacts
    <3>3. s \in Line[i] \/ s = Root[i]
      BY DEF ScopeRoot
    <3>4. Root[s] = Root[i]
      BY <3>1, <3>3, TreeFacts
    <3> QED
      BY <3>2, <3>4
  <2>3. \A x \in TaskRecords : [x EXCEPT !.status = "failed"] \in TaskRecords
    BY DEF TaskRecords, Terminal
  <2> HIDE DEF hit, I
  <2>4. \A t \in LiveIn(tasks) : tasks[t] # None /\ tasks[t] \in TaskRecords
    BY <2>1 DEF LiveIn, Stored, TaskMaps
  <2>5. ts \in TaskMaps
    BY <2>1, <2>3, <2>4 DEF TaskMaps
  <2>6. \A t \in Tasks : /\ ts[t] # None => tasks[t] # None
                         /\ Root[t] \notin D => ts[t] = tasks[t]
    BY <2>2, <2>4
  <2>7. \A x \in LeaseRecords : /\ [x EXCEPT !.state = "revoked"] \in LeaseRecords
                                /\ [x EXCEPT !.state = "revoked"].task = x.task
    BY DEF LeaseRecords
  <2>8. \A l \in Active(leases) : l \in Leases /\ leases[l] \in LeaseRecords
    BY <2>1 DEF Active, LeaseMaps
  <2>9. ls \in LeaseMaps
    BY <2>1, <2>7, <2>8 DEF LeaseMaps
  <2>10. \A l \in Active(leases) : leases[l].task \in I
    <3> SUFFICES ASSUME NEW l \in Active(leases)
                 PROVE  leases[l].task \in I
      OBVIOUS
    <3>1. leases[l].task \in Tasks /\ leases[l] # None
      BY <2>8, NoneAssumption DEF LeaseRecords, Active
    <3>2. leases[l].task \in Stored(tasks)
      BY <2>8, <3>1 DEF IInv, Sound, Consistent, Stored
    <3>3. l \in ActiveOf(leases, leases[l].task)
      BY DEF ActiveOf
    <3> QED
      BY <3>2, <3>3 DEF I, Interrupted
  <2>11. ASSUME NEW l \in Leases, ls[l] # None, Root[ls[l].task] \notin D
         PROVE  ls[l] = leases[l]
    <3>1. CASE l \in Active(leases)
      <4>1. ls[l].task = leases[l].task
        BY <2>7, <2>8, <3>1
      <4> QED
        BY <2>10, <2>11, <3>1, <4>1
    <3>2. CASE l \notin Active(leases)
      BY <3>2
    <3> QED
      BY <3>1, <3>2
  <2>12. Rounds(ts, ls)
    <3>1. \A x \in LeaseRecords : [x EXCEPT !.state = "revoked"].state # "active"
      BY DEF LeaseRecords
    <3>2. \A l \in Leases : ls[l] = None \/ ls[l].state # "active"
      BY <2>8, <3>1 DEF Active
    <3> HIDE DEF ls
    <3> QED
      BY <3>2 DEF Rounds
  <2> HIDE DEF ts, ls, D
  <2>13. Framed(ts, ls, D)
    BY <2>5, <2>6, <2>9, <2>11, <2>12, FramedBy
  <2> QED
    BY <1>1, <1>3, <2>13, Checkpointed DEF IInv, TypeOK
<1> QED
  BY <1>1, <1>2, <1>3

LEMMA RestoreAcceptedStep ==
    ASSUME IInv, RestoreAccepted
    PROVE  IInv'
<1> DEFINE ts == [t \in Tasks |-> IF t \in Missing THEN Created(0, None) ELSE tasks[t]]
<1>1. /\ phase' \in {"up", "down"}
      /\ UNCHANGED <<overdue, snap, owed, used>>
      /\ \/ UNCHANGED <<tasks, leases, disk, journal>>
         \/ Checkpoint(ts, leases, Roots)
  BY DEF RestoreAccepted, Checkpoint
<1>2. CASE UNCHANGED <<tasks, leases, disk, journal>>
  BY <1>1, <1>2, QuietStep DEF IInv, TypeOK
<1>3. CASE Checkpoint(ts, leases, Roots)
  <2>1. tasks \in TaskMaps /\ leases \in LeaseMaps
    BY DEF IInv, TypeOK
  <2>2. Created(0, None) \in TaskRecords
    <3>1. 0 \in 0..MaxRetry
      BY BoundAssumption
    <3> QED
      BY <3>1 DEF Created, TaskRecords, Live
  <2>3. ts \in TaskMaps
    BY <2>1, <2>2 DEF TaskMaps
  <2>4. \A t \in Missing : Parent[t] = None
    BY DEF Missing, Roots
  <2>5. Family(ts)
    BY <2>4 DEF Family, Stored, IInv, Sound
  <2>6. \A t \in Tasks : Root[t] \in Roots
    BY TreeFacts
  <2>7. \A l \in Leases : leases[l] # None => leases[l].task \in Tasks
    BY <2>1 DEF LeaseMaps, LeaseRecords
  <2>8. Rounds(ts, leases)
    <3>1. \A l \in Leases : leases[l] # None => leases[l].task \notin Missing
      BY DEF Missing, IInv, Sound, Consistent
    <3>2. \A l \in Leases : leases[l] # None => ts[leases[l].task] = tasks[leases[l].task]
      BY <2>7, <3>1
    <3> HIDE DEF ts
    <3> QED
      BY <2>1, <3>2, RoundsKept
  <2>9. Framed(ts, leases, Roots)
    BY <2>1, <2>3, <2>5, <2>6, <2>7, <2>8 DEF Framed
  <2> QED
    BY <1>1, <1>3, <2>9, Checkpointed DEF IInv, TypeOK
<1> QED
  BY <1>1, <1>2, <1>3

-----------------------------------------------------------------------------
(* The invariant *)

LEMMA Initial == Init => IInv
<1> SUFFICES ASSUME Init PROVE IInv
  OBVIOUS
<1>1. /\ tasks = [t \in Tasks |-> None] /\ leases = [l \in Leases |-> None]
      /\ disk.tasks = [t \in Tasks |-> None] /\ disk.leases = [l \in Leases |-> None]
      /\ snap = None
  BY DEF Init, Empty
<1>2. Empty \in Images
  BY DEF Empty, Images, TaskMaps, LeaseMaps
<1>3. TypeOK
  BY <1>1, <1>2 DEF Init, TypeOK, TaskMaps, LeaseMaps
<1>4. Sound([t \in Tasks |-> None], [l \in Leases |-> None])
  BY DEF Sound, Family, Consistent, AgentHistory, Rounds, Stored, LeaseContract, ActiveOf, Active
<1> QED
  BY <1>1, <1>3, <1>4 DEF IInv, SnapFamily

LEMMA Inductive == IInv /\ [Next]_vars => IInv'
<1> SUFFICES ASSUME IInv, [Next]_vars PROVE IInv'
  OBVIOUS
<1>1. CASE UNCHANGED vars
  BY <1>1, QuietStep DEF vars, store, IInv, TypeOK
<1>2. ASSUME NEW r \in Tasks, InsertRoot(r) \/ Accept(r)
      PROVE  IInv'
  <2>1. CASE InsertRoot(r)
    BY <2>1, InsertRootStep
  <2>2. CASE Accept(r)
    <3>1. r \in Roots
      BY <2>2 DEF Accept
    <3>2. journal' \in [Roots -> {"none", "open", "covered"}] /\ owed' \subseteq Roots
      BY <2>2, <3>1 DEF Accept, IInv, TypeOK
    <3> QED
      BY <2>2, <3>2, QuietStep DEF Accept, store, IInv, TypeOK
  <2> QED
    BY <1>2, <2>1, <2>2
<1>3. ASSUME NEW t \in Tasks, InsertAgent(t) \/ Transfer(t) \/ RemoveTask(t)
      PROVE  IInv'
  BY <1>3, InsertAgentStep, TransferStep, RemoveTaskStep
<1>4. CASE RemoveMission
  BY <1>4, RemoveMissionStep
<1>5. ASSUME NEW l \in Leases, NEW t \in Tasks, NEW s \in Tasks, Claim(l, t, s)
      PROVE  IInv'
  BY <1>5, ClaimStep
<1>6. ASSUME NEW l \in Leases, NEW t \in Tasks, GrantLease(l, t)
      PROVE  IInv'
  BY <1>6, GrantLeaseStep
<1>7. ASSUME NEW l \in Leases, RevokeLease(l) \/ Elapse(l) \/ CompleteLease(l)
      PROVE  IInv'
  <2>1. CASE Elapse(l)
    BY <2>1, QuietStep DEF Elapse, IInv, TypeOK
  <2> QED
    BY <1>7, <2>1, RevokeLeaseStep, CompleteLeaseStep
<1>8. ASSUME NEW l \in Leases, NEW s \in Tasks, Heartbeat(l, s) \/ ExpireLease(l, s)
      PROVE  IInv'
  <2>1. CASE Heartbeat(l, s)
    BY <2>1, QuietStep DEF Heartbeat, IInv, TypeOK
  <2>2. CASE ExpireLease(l, s)
    <3>1. l \in Active(leases) /\ EndAll({leases[l].task}, "failed")
      BY <2>2 DEF ExpireLease
    <3>2. {leases[l].task} \subseteq Tasks
      BY <3>1 DEF Active, IInv, TypeOK, LeaseMaps, LeaseRecords
    <3> QED
      BY <3>1, <3>2, EndAllStep DEF Terminal
  <2> QED
    BY <1>8, <2>1, <2>2
<1>9. ASSUME NEW t \in Tasks, CompleteTask(t) \/ UpdateStatus(t) \/ Kill(t)
      PROVE  IInv'
  <2>1. CASE CompleteTask(t)
    BY <2>1, OneStatusStep DEF CompleteTask, Terminal
  <2>2. CASE UpdateStatus(t)
    <3>1. PICK st \in {tasks[t].status, "running"} :
              Checkpoint(WithStatus(t, st), leases, {Root[t]})
      BY <2>2 DEF UpdateStatus
    <3>2. t \in Stored(tasks) /\ st \in Live \cup Terminal
      BY <2>2 DEF UpdateStatus, LiveIn, Live
    <3> QED
      BY <2>2, <3>1, <3>2, OneStatusStep DEF UpdateStatus
  <2>3. CASE Kill(t)
    BY <2>3, EndAllStep DEF Kill, Terminal
  <2> QED
    BY <1>9, <2>1, <2>2, <2>3
<1>10. ASSUME NEW l \in Leases, NEW st \in {"failed", "killed"}, EndByLease(l, st)
       PROVE  IInv'
  <2>1. l \in Active(leases) /\ EndAll({leases[l].task}, st)
    BY <1>10 DEF EndByLease
  <2>2. {leases[l].task} \subseteq Tasks
    BY <2>1 DEF Active, IInv, TypeOK, LeaseMaps, LeaseRecords
  <2> QED
    BY <2>1, <2>2, EndAllStep DEF Terminal
<1>11. \A s \in Tasks : Members(s) \subseteq Tasks /\ Subtree(s) \subseteq Tasks
                        /\ Orphans(s) \subseteq Tasks
  BY DEF Members, Subtree, Orphans, Stored
<1>12. ASSUME NEW t \in Tasks, NEW st \in {"failed", "killed"},
              EndUnleased(t, st) \/ StopScope(t, st) \/ StopTree(t, st)
       PROVE  IInv'
  <2>1. \E S \in SUBSET Tasks : EndAll(S, st)
    BY <1>11, <1>12 DEF EndUnleased, StopScope, StopTree
  <2> QED
    BY <2>1, EndAllStep DEF Terminal
<1>13. ASSUME NEW s \in Tasks, FailUnrunnable(s) \/ CleanOrphans(s)
       PROVE  IInv'
  <2>1. \E S \in SUBSET Tasks, st \in {"failed", "killed"} : EndAll(S, st)
    BY <1>11, <1>13 DEF FailUnrunnable, CleanOrphans
  <2> QED
    BY <2>1, EndAllStep DEF Terminal
<1>14. ASSUME NEW t \in Tasks,
              ReopenFailed(t) \/ StartFailedRoot(t) \/ ReopenCompletedRoot(t)
       PROVE  IInv'
  <2>1. \E from, to \in Live \cup Terminal : TransitionRecovery(t, from, to)
    BY <1>14 DEF ReopenFailed, StartFailedRoot, ReopenCompletedRoot, Live, Terminal
  <2> QED
    BY <2>1, TransitionStep
<1>15. ASSUME NEW s \in Tasks, NEW E \in SUBSET Tasks, ReopenScope(s, E)
       PROVE  IInv'
  BY <1>15, ReopenScopeStep
<1>16. CASE TakeSnapshot
  BY <1>16, QuietStep DEF TakeSnapshot, store, IInv, TypeOK
<1>17. CASE WriteSnapshot
  BY <1>17, WriteSnapshotStep
<1>18. CASE Restart
  BY <1>18, RestartStep
<1>19. ASSUME NEW W \in SUBSET Doubtful, Reconcile(W)
       PROVE  IInv'
  <2>1. W \in SUBSET Tasks
    BY DEF Doubtful, Stored
  <2> QED
    BY <1>19, <2>1, ReconcileStep
<1>20. CASE RestoreAccepted
  BY <1>20, RestoreAcceptedStep
<1> QED
  BY <1>1, <1>2, <1>3, <1>4, <1>5, <1>6, <1>7, <1>8, <1>9, <1>10, <1>12, <1>13, <1>14,
     <1>15, <1>16, <1>17, <1>18, <1>19, <1>20 DEF Next

LEMMA Invariance == Spec => []IInv
BY Initial, Inductive, PTL DEF Spec

\* Every reachable state has the declared shape; in particular retry_count
\* never passes its bound and an image on disk is always a full one.
THEOREM TypeCorrect == Spec => []TypeOK
<1>1. IInv => TypeOK
  BY DEF IInv
<1> QED
  BY <1>1, Invariance, PTL

\* However claims, results, cancellations, reopenings, transfers, snapshots and
\* restarts interleave: at most one active lease per task, on a running task.
THEOREM LeasesAreSound == Spec => []LeaseSound
<1>1. IInv => LeaseSound
  BY DEF IInv, Sound, Consistent, LeaseSound
<1> QED
  BY <1>1, Invariance, PTL

\* The projection on disk always passes the validation at startup, although a
\* checkpoint only validates the dirty roots, and a late snapshot or an operation
\* that failed behind its manifest may have left root files of different ages
\* side by side.
THEOREM AlwaysRestorable == Spec => []Restorable
<1>1. IInv => Restorable
  <2> SUFFICES ASSUME IInv PROVE Restorable
    OBVIOUS
  <2>1. disk.tasks \in TaskMaps /\ disk.leases \in LeaseMaps
    BY DEF IInv, TypeOK, Images
  <2> QED
    BY <2>1, WholeCut DEF IInv, Sound, Accepts, Restorable
<1> QED
  BY <1>1, Invariance, PTL

\* A result that ends a task was computed in the task's current recovery round:
\* a reopened task has no active lease left from before, in memory or in any
\* image the store may be restored from, so what an execution from before a
\* reopening reports is dropped (complete_lease_and_task, retry_count).
THEOREM ResultsAreCurrent == Spec => ResultOfThisRound
<1>1. IInv => \A l \in Leases :
                  leases[l] # None /\ leases[l].round # tasks[leases[l].task].retry
                     => ~CompleteLease(l)
  BY DEF IInv, Sound, Rounds, CompleteLease, AcceptsResult
<1> QED
  BY <1>1, Invariance, PTL DEF ResultOfThisRound

-----------------------------------------------------------------------------
(* Agents and scopes *)

LEMMA LeastNatural ==
    ASSUME NEW S, S \subseteq Nat, S # {}
    PROVE  \E m \in S : \A n \in S : m <= n
<1> DEFINE R == {ss \in Nat \X Nat : ss[1] < ss[2]}
<1>1. IsWellFoundedOn(R, Nat)
  BY NatLessThanWellFounded DEF OpToRel
<1>2. \A m, n \in Nat : n < m => <<n, m>> \in R
  OBVIOUS
<1> HIDE DEF R
<1>3. PICK m \in S : \A n \in S : <<n, m>> \notin R
  BY <1>1, WFMin
<1>4. \A n \in S : ~ (n < m)
  BY <1>2, <1>3
<1> QED
  BY <1>3, <1>4

\* The activations of an agent form one chain: what precedes an activation is
\* reached from it over predecessors, each of which has completed.
LEMMA ChainCompleted ==
    ASSUME NEW ts \in TaskMaps, NEW ls \in LeaseMaps, Sound(ts, ls),
           NEW t \in Stored(ts), AgentOf[t] # None,
           NEW u \in Stored(ts), AgentOf[u] = AgentOf[t], ts[t].gen < ts[u].gen
    PROVE  ts[t].status = "completed"
<1> DEFINE Later(v) == AgentOf[v] = AgentOf[t] /\ ts[t].gen < ts[v].gen
           G == {ts[v].gen : v \in {w \in Stored(ts) : Later(w)}}
<1>1. \A v \in Stored(ts) : v \in Tasks /\ ts[v] \in TaskRecords /\ ts[v].gen \in Nat
  BY DEF Stored, TaskMaps, TaskRecords
<1>2. G \subseteq Nat /\ G # {}
  BY <1>1
<1>3. PICK m \in G : \A n \in G : m <= n
  <2> HIDE DEF G
  <2> QED
    BY <1>2, LeastNatural
<1>4. PICK v \in Stored(ts) : Later(v) /\ ts[v].gen = m
  BY <1>3
<1>5. \A w \in Stored(ts) : Later(w) => ts[v].gen <= ts[w].gen
  BY <1>3, <1>4
<1>6. Parent[t] # None /\ Parent[v] # None
  BY <1>1, <1>4, AgentAssumption
<1>7. ValidBinding(ts[t], t) /\ ValidBinding(ts[v], v)
  BY <1>6 DEF Sound, Consistent
<1>8. ts[v].gen > 1
  BY <1>1, <1>4, <1>7 DEF ValidBinding
<1> DEFINE p == ts[v].prev
<1>9. p # None /\ p \in Tasks
  BY <1>1, <1>7, <1>8 DEF ValidBinding, TaskRecords
<1>10. /\ ts[p] # None
       /\ AgentOf[p] = AgentOf[v]
       /\ ts[p].gen + 1 = ts[v].gen
       /\ ts[p].status = "completed"
  BY <1>6, <1>9 DEF Sound, AgentHistory, Continuable
<1>11. p \in Stored(ts)
  BY <1>9, <1>10 DEF Stored
<1>12. ts[p].gen < ts[v].gen
  BY <1>1, <1>10, <1>11
<1> HIDE DEF p
<1>13. ~Later(p)
  BY <1>1, <1>5, <1>11, <1>12
<1>14. ts[p].gen = ts[t].gen
  BY <1>1, <1>4, <1>10, <1>11, <1>13
<1>15. p = t
  BY <1>4, <1>6, <1>10, <1>11, <1>14 DEF Sound, AgentHistory
<1> QED
  BY <1>10, <1>15

\* Every activation of an agent but the newest has completed, although an
\* activation may fail and be reopened, be removed, or come back from an image
\* older than memory
\* (validate_agent_activation_insert, validate_agent_history).
THEOREM OneActivationLives == Spec => []OneLiveActivation
<1>1. IInv => OneLiveActivation
  BY ChainCompleted DEF IInv, TypeOK, OneLiveActivation
<1> QED
  BY <1>1, Invariance, PTL

\* What ends a set of tasks changes no other task.
LEMMA EndsOnly ==
    ASSUME NEW S, NEW st, EndAll(S, st), NEW t \in Tasks, t \notin S,
           tasks \in TaskMaps
    PROVE  tasks'[t] = tasks[t]
<1>1. tasks' = Ended(Endable(S), st) \/ tasks' = tasks
  BY DEF EndAll, Checkpoint, Commit, LateError
<1>2. t \notin Endable(S)
  BY DEF Endable
<1> QED
  BY <1>1, <1>2 DEF Ended

\* The cut subtree of the root of a scope is in the scope.
LEMMA MembersInScope ==
    ASSUME NEW s \in Tasks, ScopeRoot(tasks, s, s), NEW t \in Members(s)
    PROVE  ScopeRoot(tasks, t, s)
<1>1. /\ t \in Tasks /\ s \in Line[t]
      /\ \A u \in Line[t] \ Line[s] : ~IsHanded(tasks, u)
  BY DEF Members, Subtree, Stored
<1>2. CASE IsHanded(tasks, s)
  BY <1>1, <1>2 DEF ScopeRoot
<1>3. CASE ~IsHanded(tasks, s)
  <2>1. s = Root[s] /\ \A u \in Line[s] : ~IsHanded(tasks, u)
    BY <1>3 DEF ScopeRoot
  <2>2. s = Root[t]
    BY <1>1, <2>1, TreeFacts
  <2> QED
    BY <1>1, <2>1, <2>2 DEF ScopeRoot
<1> QED
  BY <1>2, <1>3

\* Stopping a scope, failing what it cannot run, cleaning up below its ended
\* tasks and letting one of its leases expire leave the tasks of every other
\* scope alone, also across a transfer made at any time before
\* (collect_subtree_ids_in_scope, execution_scope_root).
THEOREM ScopesAreApart == Spec => ScopesAreIsolated
<1> DEFINE Apart == \A s \in Stored(tasks) :
               ScopeRoot(tasks, s, s) /\ ReachesOutside(s) => ~ScopeStep(s)
<1>1. IInv => Apart
  <2> SUFFICES ASSUME IInv, NEW s \in Stored(tasks), ScopeRoot(tasks, s, s),
                      ScopeStep(s), NEW t \in Stored(tasks), ~ScopeRoot(tasks, t, s)
               PROVE  tasks'[t] = tasks[t]
    BY DEF ReachesOutside
  <2>1. s \in Tasks /\ t \in Tasks /\ tasks \in TaskMaps
    BY DEF Stored, IInv, TypeOK
  <2>2. t \notin Members(s) /\ t \notin Orphans(s)
    BY <2>1, MembersInScope DEF Orphans
  <2>3. CASE \E st \in {"failed", "killed"} : StopScope(s, st)
    BY <2>1, <2>2, <2>3, EndsOnly DEF StopScope
  <2>4. CASE FailUnrunnable(s)
    BY <2>1, <2>2, <2>4, EndsOnly DEF FailUnrunnable
  <2>5. CASE CleanOrphans(s)
    BY <2>1, <2>2, <2>5, EndsOnly DEF CleanOrphans
  <2>6. ASSUME NEW l \in Leases, ExpireLease(l, s)
        PROVE  tasks'[t] = tasks[t]
    <3>1. t \notin {leases[l].task} /\ EndAll({leases[l].task}, "failed")
      BY <2>6 DEF ExpireLease
    <3> QED
      BY <2>1, <3>1, EndsOnly
  <2> QED
    BY <2>3, <2>4, <2>5, <2>6 DEF ScopeStep
<1> QED
  BY <1>1, Invariance, PTL DEF ScopesAreIsolated

=============================================================================
