--------------------------- MODULE ConvLocks_proofs ---------------------------
(* Theorems about ConvLocks: the reference-counted map of locks is a mutex    *)
(* per conversation, runners leave no entry behind, and no gate lets more     *)
(* rounds run than its limit.                                                 *)
EXTENDS ConvLocks, FiniteSetTheorems, TLAPS

USE DEF locks, gates

-----------------------------------------------------------------------------
(* Types *)

LEMMA TypeInit == Init => TypeOK
  BY LimitAssumption, TaskAssumption DEF Init, TypeOK, Steps

LEMMA TypeStep == TypeOK /\ [Next]_vars => TypeOK'
  <1> SUFFICES ASSUME TypeOK, [Next]_vars PROVE TypeOK'
      OBVIOUS
  <1> USE DEF TypeOK, Steps, Goto, Refer
  <1>1. ASSUME NEW t \in Task, Start(t) \/ TaskStep(t) PROVE TypeOK'
    <2>1. CASE Start(t)
        BY <2>1 DEF Start
    <2>2. CASE ReferToEntry(t)
        BY <2>2, TaskAssumption DEF ReferToEntry
    <2>3. CASE ReferToNew(t)
        BY <2>3, TaskAssumption DEF ReferToNew, Fresh
    <2>4. CASE TakeLock(t)
        BY <2>4, TaskAssumption DEF TakeLock
    <2>5. CASE TryLock(t)
        BY <2>5 DEF TryLock
    <2>6. CASE Unlock(t)
        BY <2>6, TaskAssumption DEF Unlock
    <2>7. CASE DropRef(t)
        BY <2>7 DEF DropRef
    <2>8. CASE Release(t)
        BY <2>8, TaskAssumption DEF Release, Removable, ReferringTo
    <2>9. CASE Snapshot(t)
        BY <2>9, LimitAssumption DEF Snapshot
    <2>10. CASE TakePermit(t)
        BY <2>10 DEF TakePermit, HasPermit, Holding
    <2>11. CASE EndRound(t)
        BY <2>11, LimitAssumption DEF EndRound
    <2>12. CASE LeaveLoop(t)
        BY <2>12 DEF LeaveLoop
    <2> QED BY <1>1, <2>1, <2>2, <2>3, <2>4, <2>5, <2>6, <2>7, <2>8, <2>9, <2>10,
          <2>11, <2>12 DEF TaskStep
  <1>2. ASSUME NEW n \in Limit, Reload(n) PROVE TypeOK'
      BY <1>2, LimitAssumption DEF Reload
  <1>3. CASE UNCHANGED vars
      BY <1>3 DEF vars
  <1> QED BY <1>1, <1>2, <1>3 DEF Next

\* Every variable keeps its type.
THEOREM LocksTypeCorrect == Spec => []TypeOK
  BY TypeInit, TypeStep, PTL DEF Spec

-----------------------------------------------------------------------------
(* The locks *)

\* A task has a clone of a lock from acquire_conv_lock to the end of its use.
Referring == {"lock", "loop", "queue", "round", "unlock", "drop"}
HasRef == \A t \in Task : ref[t] # NoLock <=> pc[t] \in Referring

\* The guard of a lock is with the task that works under it, and with no other.
OwnerInside == \A t \in Task : pc[t] \in Inside => owner[ref[t]] = t
OwnedInside == \A l \in Lock : owner[l] # Nobody => pc[owner[l]] \in Inside /\ ref[owner[l]] = l

\* Two conversations never share a lock, and the map holds only locks made.
EntriesDiffer ==
    \A c, d \in Conv : entry[c] # NoLock => entry[c] \in used /\ (entry[c] = entry[d] => c = d)

LockInv == HasRef /\ OwnerInside /\ OwnedInside /\ EntriesDiffer /\ OneLockPerConv

LEMMA LockStep == TypeOK /\ LockInv /\ [Next]_vars => LockInv'
  <1> SUFFICES ASSUME TypeOK, LockInv, [Next]_vars PROVE LockInv'
      OBVIOUS
  <1> USE DEF TypeOK, Steps, Goto, Refer, Inside, Referring, LockInv, HasRef,
        OwnerInside, OwnedInside, EntriesDiffer, OneLockPerConv
  <1>1. ASSUME NEW t \in Task, Start(t) \/ TaskStep(t) PROVE LockInv'
    <2>1. CASE Start(t)
        BY <2>1 DEF Start
    <2>2. CASE ReferToEntry(t)
        BY <2>2, TaskAssumption DEF ReferToEntry
    <2>3. CASE ReferToNew(t)
        <3> DEFINE f == Fresh
        <3>1. f \in Lock /\ f \notin used /\ f # NoLock
            BY <2>3, TaskAssumption DEF ReferToNew, Fresh
        <3>2. /\ entry' = [entry EXCEPT ![ConvOf[t]] = f] /\ used' = used \cup {f}
              /\ ref' = [ref EXCEPT ![t] = f] /\ pc' = [pc EXCEPT ![t] = "lock"] /\ owner' = owner
              /\ pc[t] = "refer" /\ entry[ConvOf[t]] = NoLock
            BY <2>3, Zenon DEF ReferToNew
        <3>. ConvOf[t] \in Conv
            BY TaskAssumption
        <3> HIDE DEF f
        <3>3. HasRef'
            BY <3>1, <3>2
        <3>4. OwnerInside'
            BY <3>1, <3>2
        <3>5. \A l \in Lock : owner[l] # Nobody => owner[l] # t
            BY <3>2
        <3>6. OwnedInside'
            BY <3>1, <3>2, <3>5
        <3>7. EntriesDiffer'
            BY <3>1, <3>2
        <3>8. OneLockPerConv'
            BY <3>1, <3>2
        <3> QED BY <3>3, <3>4, <3>6, <3>7, <3>8
    <2>4. CASE TakeLock(t)
        BY <2>4, TaskAssumption DEF TakeLock
    <2>5. CASE TryLock(t)
        BY <2>5 DEF TryLock
    <2>6. CASE Unlock(t)
        BY <2>6, TaskAssumption DEF Unlock
    <2>7. CASE DropRef(t)
        BY <2>7, TaskAssumption DEF DropRef
    <2>8. CASE Release(t)
        BY <2>8, TaskAssumption DEF Release, Removable, ReferringTo
    <2>9. CASE Snapshot(t)
        BY <2>9 DEF Snapshot
    <2>10. CASE TakePermit(t)
        BY <2>10 DEF TakePermit, HasPermit, Holding
    <2>11. CASE EndRound(t)
        BY <2>11 DEF EndRound
    <2>12. CASE LeaveLoop(t)
        BY <2>12 DEF LeaveLoop
    <2> QED BY <1>1, <2>1, <2>2, <2>3, <2>4, <2>5, <2>6, <2>7, <2>8, <2>9, <2>10,
          <2>11, <2>12 DEF TaskStep
  <1>2. ASSUME NEW n \in Limit, Reload(n) PROVE LockInv'
      BY <1>2 DEF Reload
  <1>3. CASE UNCHANGED vars
      BY <1>3 DEF vars
  <1> QED BY <1>1, <1>2, <1>3 DEF Next

LEMMA LeakStep == TypeOK /\ LockInv /\ RunnersLeakNothing /\ [Next]_vars => RunnersLeakNothing'
  <1> SUFFICES ASSUME TypeOK, LockInv, RunnersLeakNothing,
        [Next]_vars PROVE RunnersLeakNothing'
      OBVIOUS
  <1> USE DEF TypeOK, Steps, Goto, Refer, Referring, RunnersLeakNothing
  <1>k. ASSUME NEW t \in Task, NEW step, pc' = [pc EXCEPT ![t] = step], entry' = entry,
               \/ pc[t] \in {"idle", "refer"} \/ step \notin {"idle", "refer", "done"}
               \/ step = "done" /\ t \notin Runner
        PROVE  RunnersLeakNothing'
    <2> SUFFICES ASSUME NEW c \in Conv, entry[c] # NoLock
                 PROVE  \E u \in Task : ConvOf[u] = c
                          /\ (pc'[u] \notin {"idle", "refer",
                                "done"} \/ (pc'[u] = "done" /\ u \notin Runner))
        BY <1>k
    <2>1. PICK u \in Task : ConvOf[u] = c
              /\ (pc[u] \notin {"idle", "refer",
                    "done"} \/ (pc[u] = "done" /\ u \notin Runner))
        OBVIOUS
    <2>2. pc'[u] = IF u = t THEN step ELSE pc[u]
        BY <1>k
    <2> QED BY <1>k, <2>1, <2>2
  <1>1. ASSUME NEW t \in Task, Start(t) \/ TaskStep(t) PROVE RunnersLeakNothing'
    <2>1. CASE Start(t)
        BY <2>1, <1>k DEF Start, locks
    <2>2. CASE ReferToEntry(t)
        BY <2>2, <1>k DEF ReferToEntry
    <2>3. CASE ReferToNew(t)
        BY <2>3, TaskAssumption DEF ReferToNew, Fresh
    <2>4. CASE TakeLock(t)
        BY <2>4, <1>k DEF TakeLock
    <2>5. CASE TryLock(t)
        BY <2>5, <1>k DEF TryLock, locks
    <2>6. CASE Unlock(t)
        BY <2>6, <1>k DEF Unlock
    <2>7. CASE DropRef(t)
        BY <2>7, <1>k DEF DropRef
    <2>8. CASE Release(t)
        <3>0. /\ pc[t] = "release" /\ pc' = [pc EXCEPT ![t] = "done"]
              /\ entry' = IF Removable(ConvOf[t]) THEN [entry EXCEPT ![ConvOf[t]] = NoLock] ELSE entry
            BY <2>8 DEF Release
        <3> SUFFICES ASSUME NEW c \in Conv, entry'[c] # NoLock
                     PROVE  \E u \in Task : ConvOf[u] = c
                              /\ (pc'[u] \notin {"idle", "refer",
                                    "done"} \/ (pc'[u] = "done" /\ u \notin Runner))
            OBVIOUS
        <3>1. entry[c] = entry'[c]
            BY <3>0, TaskAssumption
        <3>2. PICK u \in Task : ConvOf[u] = c
                  /\ (pc[u] \notin {"idle", "refer",
                        "done"} \/ (pc[u] = "done" /\ u \notin Runner))
            BY <3>1
        <3>3. CASE u # t
            BY <3>0, <3>2, <3>3
        <3>4. CASE u = t
          <4>1. ~Removable(c)
              BY <3>0, <3>1, <3>2, <3>4, TaskAssumption
          <4>2. PICK v \in Task : ref[v] = entry[c]
              BY <3>1, <4>1 DEF Removable, ReferringTo
          <4>3. entry[ConvOf[v]] = entry[c] /\ ConvOf[v] \in Conv
              BY <3>1, <4>2, TaskAssumption DEF LockInv, OneLockPerConv
          <4>4. ConvOf[v] = c
              BY <3>1, <4>3 DEF LockInv, EntriesDiffer
          <4>5. pc[v] \in Referring
              BY <3>1, <4>2 DEF LockInv, HasRef
          <4> QED BY <3>0, <4>4, <4>5
        <3> QED BY <3>3, <3>4
    <2>9. CASE Snapshot(t)
        BY <2>9, <1>k DEF Snapshot, locks
    <2>10. CASE TakePermit(t)
        BY <2>10, <1>k DEF TakePermit, locks
    <2>11. CASE EndRound(t)
        BY <2>11, <1>k DEF EndRound, locks
    <2>12. CASE LeaveLoop(t)
        BY <2>12, <1>k DEF LeaveLoop, locks
    <2> QED BY <1>1, <2>1, <2>2, <2>3, <2>4, <2>5, <2>6, <2>7, <2>8, <2>9, <2>10,
          <2>11, <2>12 DEF TaskStep
  <1>2. ASSUME NEW n \in Limit, Reload(n) PROVE RunnersLeakNothing'
      BY <1>2 DEF Reload
  <1>3. CASE UNCHANGED vars
      BY <1>3 DEF vars
  <1> QED BY <1>1, <1>2, <1>3 DEF Next

LEMMA LockInit == Init => LockInv /\ RunnersLeakNothing
  BY TaskAssumption DEF Init, LockInv, HasRef, OwnerInside, OwnedInside, EntriesDiffer, OneLockPerConv,
     RunnersLeakNothing, Referring, Inside

IInv == TypeOK /\ LockInv /\ RunnersLeakNothing

\* Who refers to which lock and owns it: the invariant behind the mutex.
THEOREM LocksInvariantHolds == Spec => []IInv
  <1>1. Init => IInv
      BY TypeInit, LockInit DEF IInv
  <1>2. IInv /\ [Next]_vars => IInv'
      BY TypeStep, LockStep, LeakStep DEF IInv
  <1> QED BY <1>1, <1>2, PTL DEF Spec

\* Whoever refers to a lock of a conversation refers to the one in the map: the
\* removal in release_conv_lock never leaves a second lock object in use.
THEOREM OneLockPerConvHolds == Spec => []OneLockPerConv
  <1>1. IInv => OneLockPerConv
      BY DEF IInv, LockInv
  <1> QED BY <1>1, LocksInvariantHolds, PTL

\* Runners, however they overlap, leave no entry in conv_locks.
THEOREM RunnersLeakNothingHolds == Spec => []RunnersLeakNothing
  <1>1. IInv => RunnersLeakNothing
      BY DEF IInv
  <1> QED BY <1>1, LocksInvariantHolds, PTL

-----------------------------------------------------------------------------
(* The locks implement a mutex per conversation *)

\* Two tasks that work on one conversation are one task.
LEMMA OneInside ==
  ASSUME TypeOK, LockInv, NEW t \in Task, NEW u \in Task,
         pc[t] \in Inside, pc[u] \in Inside, ConvOf[t] = ConvOf[u]
  PROVE  t = u
  <1>1. ref[t] = entry[ConvOf[t]] /\ ref[u] = entry[ConvOf[u]]
      BY DEF LockInv, HasRef, OneLockPerConv, Inside, Referring
  <1>2. owner[ref[t]] = t /\ owner[ref[u]] = u
      BY DEF LockInv, OwnerInside
  <1> QED BY <1>1, <1>2

Insiders == {t \in Task : pc[t] \in Inside}

\* Taking a lock enters, giving it back leaves, and nothing else is visible.
LEMMA MutexStep ==
  TypeOK /\ LockInv /\ TypeOK' /\ LockInv' /\ [Next]_vars => [Mutex!Next]_Insiders
  <1> SUFFICES ASSUME TypeOK, LockInv, TypeOK', LockInv', [Next]_vars
               PROVE  [Mutex!Next]_Insiders
      OBVIOUS
  <1> USE DEF TypeOK, Insiders, Inside, Steps, Goto
  <1>1. ASSUME NEW t \in Task, Start(t) \/ TaskStep(t)
        PROVE  [Mutex!Next]_Insiders
    <2>1. CASE TakeLock(t)
      <3>1. t \notin Insiders /\ Insiders' = Insiders \cup {t}
          BY <2>1 DEF TakeLock
      <3>2. \A u \in Insiders : ConvOf[u] # ConvOf[t]
        <4> SUFFICES ASSUME NEW u \in Insiders, ConvOf[u] = ConvOf[t] PROVE FALSE
            OBVIOUS
        <4>1. ref[t] # NoLock /\ ref[u] # NoLock
            BY <2>1 DEF TakeLock, LockInv, HasRef, Referring
        <4>2. ref[t] = ref[u]
            BY <4>1 DEF LockInv, OneLockPerConv
        <4>3. owner[ref[u]] = u
            BY DEF LockInv, OwnerInside
        <4> QED BY <2>1, <4>2, <4>3, TaskAssumption DEF TakeLock
      <3>3. Mutex!Enter(t)
          BY <3>1, <3>2 DEF Mutex!Enter
      <3> QED BY <3>3 DEF Mutex!Next
    <2>2. CASE Unlock(t)
      <3>1. t \in Insiders /\ Insiders' = Insiders \ {t}
          BY <2>2 DEF Unlock
      <3>2. Mutex!Leave(t)
          BY <3>1 DEF Mutex!Leave
      <3> QED BY <3>2 DEF Mutex!Next
    <2>3. CASE Start(t) \/ ReferToEntry(t) \/ ReferToNew(t) \/ TryLock(t) \/ DropRef(t)
               \/ Release(t)
        BY <2>3 DEF Start, ReferToEntry, ReferToNew, TryLock, DropRef, Release
    <2>4. CASE Snapshot(t) \/ TakePermit(t) \/ EndRound(t) \/ LeaveLoop(t)
        BY <2>4 DEF Snapshot, TakePermit, EndRound, LeaveLoop
    <2> QED BY <1>1, <2>1, <2>2, <2>3, <2>4 DEF TaskStep
  <1>2. ASSUME NEW n \in Limit, Reload(n) PROVE [Mutex!Next]_Insiders
      BY <1>2 DEF Reload
  <1>3. CASE UNCHANGED vars
      BY <1>3 DEF vars
  <1> QED BY <1>1, <1>2, <1>3 DEF Next

\* The locks in the map behave as one mutex of each conversation.
THEOREM ImplementsMutexHolds == Spec => ImplementsMutex
  <1>1. Init => Insiders = {}
      BY DEF Init, Insiders, Inside
  <1>2. Init => Mutex!Init
      BY <1>1 DEF Mutex!Init, Insiders
  <1>3. IInv /\ IInv' /\ [Next]_vars => [Mutex!Next]_Insiders
      BY MutexStep DEF IInv
  <1> QED BY <1>2, <1>3, LocksInvariantHolds, PTL DEF Spec, ImplementsMutex, Mutex!Spec, Insiders

-----------------------------------------------------------------------------
(* The gates *)

\* A round has asked at a gate that was in force, and holds a permit of it
\* unless the gate has no limit; nobody else holds a permit.
PermitHeld ==
    \A t \in Task :
        /\ asked[t] <= gate
        /\ pc[t] \in {"queue", "round"} => asked[t] > 0
        /\ IF pc[t] = "round" /\ limit[asked[t]] # 0 THEN permit[t] = asked[t] ELSE permit[t] = 0
        /\ pc[t] = "queue" => limit[asked[t]] # 0
PermitsBounded == \A g \in 1 .. MaxReloads + 1 : limit[g] # 0 => Cardinality(Holding(g)) <= limit[g]

LEMMA HeldInit == Init => PermitHeld /\ PermitsBounded
  <1> SUFFICES ASSUME Init PROVE PermitHeld /\ PermitsBounded
      OBVIOUS
  <1>1. PermitHeld
      BY DEF Init, PermitHeld
  <1>2. \A g \in 1 .. MaxReloads + 1 : Holding(g) = {}
      BY LimitAssumption DEF Init, Holding
  <1>3. \A g \in 1 .. MaxReloads + 1 : Cardinality(Holding(g)) = 0 /\ limit[g] \in Nat
      BY <1>2, FS_EmptySet, LimitAssumption DEF Init
  <1>4. PermitsBounded
      BY <1>3 DEF PermitsBounded
  <1> QED BY <1>1, <1>4


LEMMA HeldStep == TypeOK /\ PermitHeld /\ [Next]_vars => PermitHeld'
  <1> SUFFICES ASSUME TypeOK, PermitHeld, [Next]_vars PROVE PermitHeld'
      OBVIOUS
  <1> USE DEF TypeOK, Steps, Goto, PermitHeld
  <1>1. ASSUME NEW t \in Task, Start(t) \/ TaskStep(t) PROVE PermitHeld'
    <2>1. CASE Snapshot(t)
        BY <2>1, LimitAssumption DEF Snapshot
    <2>2. CASE TakePermit(t)
        BY <2>2, LimitAssumption DEF TakePermit, HasPermit, Holding
    <2>3. CASE EndRound(t)
        BY <2>3, LimitAssumption DEF EndRound
    <2>4. CASE Start(t) \/ ReferToEntry(t) \/ ReferToNew(t) \/ TakeLock(t)
          \/ TryLock(t) \/ Unlock(t) \/ DropRef(t) \/ Release(t) \/ LeaveLoop(t)
        BY <2>4 DEF Start, ReferToEntry, ReferToNew, TakeLock, TryLock, Unlock, DropRef,
              Release, LeaveLoop
    <2> QED BY <1>1, <2>1, <2>2, <2>3, <2>4 DEF TaskStep
  <1>2. ASSUME NEW n \in Limit, Reload(n) PROVE PermitHeld'
      BY <1>2, LimitAssumption DEF Reload
  <1>3. CASE UNCHANGED vars
      BY <1>3 DEF vars
  <1> QED BY <1>1, <1>2, <1>3 DEF Next

LEMMA BoundedStep == TypeOK /\ PermitHeld /\ PermitsBounded /\ [Next]_vars => PermitsBounded'
  <1> SUFFICES ASSUME TypeOK, PermitHeld, PermitsBounded, [Next]_vars PROVE PermitsBounded'
      OBVIOUS
  <1> USE DEF TypeOK, PermitsBounded
  <1>1. ASSUME NEW t \in Task, Start(t) \/ TaskStep(t) PROVE PermitsBounded'
    <2>1. CASE TakePermit(t)
        <3> SUFFICES ASSUME NEW g \in 1 .. MaxReloads + 1, limit[g] # 0
                     PROVE  Cardinality(Holding(g)') <= limit[g]
            BY <2>1 DEF TakePermit
        <3>1. CASE g # asked[t]
          <4>1. Holding(g)' = Holding(g)
              BY <3>1, <2>1 DEF TakePermit, Holding, PermitHeld
          <4> QED BY <4>1
        <3>2. CASE g = asked[t]
          <4>1. Holding(g)' = Holding(g) \cup {t}
              BY <3>2, <2>1 DEF TakePermit, Holding
          <4>2. IsFiniteSet(Holding(g))
              BY FS_Subset, TaskAssumption DEF Holding
          <4>3. Cardinality(Holding(g)) \in Nat
              BY <4>2, FS_CardinalityType
          <4>4. Cardinality(Holding(g) \cup {t}) = IF t \in Holding(g) THEN Cardinality(Holding(g))
                                                   ELSE Cardinality(Holding(g)) + 1
              BY <4>2, FS_AddElement
          <4>5. Cardinality(Holding(g)) < limit[g] /\ limit[g] \in Nat
              BY <3>2, <2>1, LimitAssumption DEF TakePermit, HasPermit
          <4>6. Cardinality(Holding(g) \cup {t}) \in Nat
              BY <4>2, FS_AddElement, FS_CardinalityType
          <4> QED BY <4>1, <4>3, <4>4, <4>5, <4>6
        <3> QED BY <3>1, <3>2
    <2>2. CASE EndRound(t)
        <3> SUFFICES ASSUME NEW g \in 1 .. MaxReloads + 1, limit[g] # 0
                     PROVE  Cardinality(Holding(g)') <= limit[g]
            BY <2>2 DEF EndRound
        <3>1. Holding(g)' \subseteq Holding(g)
            BY <2>2 DEF EndRound, Holding
        <3>2. IsFiniteSet(Holding(g))
            BY FS_Subset, TaskAssumption DEF Holding
        <3>3. Cardinality(Holding(g)') <= Cardinality(Holding(g))
            BY <3>1, <3>2, FS_Subset
        <3>4. Cardinality(Holding(g)') \in Nat /\ Cardinality(Holding(g)) \in Nat
            BY <3>1, <3>2, FS_Subset, FS_CardinalityType
        <3>5. limit[g] \in Nat /\ Cardinality(Holding(g)) <= limit[g]
            BY LimitAssumption
        <3> QED BY <3>3, <3>4, <3>5
    <2>3. CASE Start(t) \/ ReferToEntry(t) \/ ReferToNew(t) \/ TakeLock(t)
          \/ TryLock(t) \/ Unlock(t) \/ DropRef(t) \/ Release(t) \/ Snapshot(t) \/ LeaveLoop(t)
        <3>1. limit' = limit /\ \A g \in 1 .. MaxReloads + 1 : Holding(g)' = Holding(g)
            BY <2>3 DEF Start, ReferToEntry, ReferToNew, TakeLock, TryLock, Unlock, DropRef,
               Release, Snapshot, LeaveLoop, Holding
        <3> QED BY <3>1
    <2> QED BY <1>1, <2>1, <2>2, <2>3 DEF TaskStep
  <1>2. ASSUME NEW n \in Limit, Reload(n) PROVE PermitsBounded'
    <2> SUFFICES ASSUME NEW g \in 1 .. MaxReloads + 1, limit'[g] # 0
                 PROVE  Cardinality(Holding(g)') <= limit'[g]
        OBVIOUS
    <2>1. Holding(g)' = Holding(g)
        BY <1>2 DEF Reload, Holding
    <2>2. CASE g # gate + 1
        BY <2>1, <2>2, <1>2 DEF Reload
    <2>3. CASE g = gate + 1
      <3>1. Holding(g) = {}
          BY <2>3, LimitAssumption DEF Holding, PermitHeld
      <3>2. limit'[g] \in Nat
          BY <1>2, LimitAssumption, <2>3 DEF Reload
      <3> QED BY <2>1, <3>1, <3>2, FS_EmptySet
    <2> QED BY <2>2, <2>3
  <1>3. CASE UNCHANGED vars
      <2>1. limit' = limit /\ \A g \in 1 .. MaxReloads + 1 : Holding(g)' = Holding(g)
          BY <1>3 DEF vars, Holding
      <2> QED BY <2>1
  <1> QED BY <1>1, <1>2, <1>3 DEF Next

GateInv == TypeOK /\ PermitHeld /\ PermitsBounded

\* A round in a limited gate has its permit, and there are no more of them than
\* the limit, however often the gate is replaced.
THEOREM GateInvariantHolds == Spec => []GateInv
  <1>1. Init => GateInv
      BY TypeInit, HeldInit DEF GateInv
  <1>2. GateInv /\ [Next]_vars => GateInv'
      BY TypeStep, HeldStep, BoundedStep DEF GateInv
  <1> QED BY <1>1, <1>2, PTL DEF Spec

\* No gate ever has more rounds than its limit, replaced or not.
THEOREM GateIsRespectedHolds == Spec => []GateIsRespected
  <1>1. ASSUME GateInv PROVE GateIsRespected
    <2> SUFFICES ASSUME NEW g \in 1 .. MaxReloads + 1, limit[g] # 0
                 PROVE  Cardinality({t \in Task : pc[t] = "round" /\ asked[t] = g}) <= limit[g]
        BY DEF GateIsRespected
    <2> DEFINE R == {t \in Task : pc[t] = "round" /\ asked[t] = g}
    <2>1. R \subseteq Holding(g)
        BY <1>1 DEF GateInv, PermitHeld, Holding
    <2>2. IsFiniteSet(Holding(g))
        BY FS_Subset, TaskAssumption DEF Holding
    <2>3. Cardinality(R) <= Cardinality(Holding(g))
        BY <2>1, <2>2, FS_Subset
    <2>4. Cardinality(Holding(g)) <= limit[g]
        BY <1>1 DEF GateInv, PermitsBounded
    <2>5. Cardinality(R) \in Nat /\ Cardinality(Holding(g)) \in Nat
        BY <2>1, <2>2, FS_Subset, FS_CardinalityType
    <2>6. limit[g] \in Nat
        BY <1>1, LimitAssumption DEF GateInv, TypeOK
    <2> QED BY <2>3, <2>4, <2>5, <2>6
  <1> QED BY <1>1, GateInvariantHolds, PTL

-----------------------------------------------------------------------------
(* Locks and permits together *)

\* A round that waits at a full gate waits for a round that goes on.
LEMMA FullGate ==
  ASSUME GateInv, NEW t \in Task, pc[t] = "queue", Blocked(t)
  PROVE  \E v \in WaitsFor(t) : AtWork(v)
  <1> DEFINE g == asked[t]
  <1>1. g \in 1 .. MaxReloads + 1 /\ limit[g] \in Nat /\ limit[g] # 0
    <2>1. g \in 0 .. MaxReloads + 1 /\ g > 0 /\ limit[g] # 0
        BY DEF GateInv, TypeOK, PermitHeld
    <2>2. g \in 1 .. MaxReloads + 1
        BY <2>1, LimitAssumption
    <2> QED BY <2>1, <2>2, LimitAssumption DEF GateInv, TypeOK
  <1>2. ~(Cardinality(Holding(g)) < limit[g])
      BY DEF Blocked, HasPermit
  <1>3. Holding(g) # {}
      BY <1>1, <1>2, FS_EmptySet
  <1>4. PICK v \in Task : permit[v] = g
      BY <1>3 DEF Holding
  <1>5. pc[v] = "round"
      BY <1>1, <1>4 DEF GateInv, PermitHeld
  <1>6. AtWork(v)
      BY <1>5 DEF AtWork, Blocked, Inside
  <1>7. v \in WaitsFor(t)
      BY <1>4 DEF WaitsFor, Holding
  <1> QED BY <1>6, <1>7

\* The lock of a conversation is held while its round waits for a permit, and no
\* circle comes of it, whatever the number of conversations, the limits and the
\* reloads: there is always a task that goes on at the end of a wait.
THEOREM NoDeadlockHolds == Spec => []NoDeadlock
  <1>1. ASSUME IInv, GateInv, NEW t \in Task, Blocked(t)
        PROVE  \E u \in WaitsFor(t) : AtWork(u) \/ \E v \in WaitsFor(u) : AtWork(v)
    <2>1. CASE pc[t] = "queue"
        BY <1>1, <2>1, FullGate
    <2>2. CASE pc[t] = "lock"
      <3> DEFINE u == owner[ref[t]]
      <3>1. ref[t] \in Lock /\ u \in Task /\ u # Nobody
          BY <1>1, <2>2 DEF IInv, TypeOK, LockInv, HasRef, Referring, Blocked
      <3>2. pc[u] \in Inside
          BY <1>1, <3>1 DEF IInv, LockInv, OwnedInside
      <3>3. u \in WaitsFor(t)
          BY <2>2 DEF WaitsFor
      <3>4. CASE Blocked(u)
        <4>1. pc[u] = "queue"
            BY <3>2, <3>4 DEF Blocked, Inside
        <4>2. \E v \in WaitsFor(u) : AtWork(v)
            BY <1>1, <3>1, <3>4, <4>1, FullGate
        <4> QED BY <3>3, <4>2
      <3>5. CASE ~Blocked(u)
          BY <3>2, <3>3, <3>5 DEF AtWork
      <3> QED BY <3>4, <3>5
    <2> QED BY <1>1, <2>1, <2>2 DEF Blocked
  <1>2. IInv /\ GateInv => NoDeadlock
      BY <1>1 DEF NoDeadlock
  <1> QED BY <1>2, LocksInvariantHolds, GateInvariantHolds, PTL

=============================================================================
