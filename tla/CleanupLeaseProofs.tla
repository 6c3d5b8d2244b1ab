-------------------------- MODULE CleanupLeaseProofs --------------------------
(***************************************************************************)
(* Proofs about CleanupLease, for any number of processes, paths, bundles  *)
(* and faults.  The lease excludes because a process in a pass owns the    *)
(* flock (Owned); a pass deletes what it judged because nobody else's pass *)
(* can have removed it (Judged).                                           *)
(***************************************************************************)
EXTENDS CleanupLease, TLAPS

USE DEF files, pass, stop

\* The five acts of a loop that is not disturbed, and what can disturb it.
Disturbed(p) == \/ AcquireRaises(p) \/ DeleteFails(p) \/ GiveUp(p) \/ ReleaseFails(p)
                \/ Crash(p) \/ Restart(p) \/ AskToStop(p) \/ Cancel(p) \/ CancelLost(p)

\* The steps of the system, grouped by what they can disturb.
LEMMA NextCases ==
  ASSUME Next
  PROVE  \/ \E x \in Paths : Write(x) \/ Drop(x) \/ Expire(x)
         \/ \E p \in Procs : \/ Acquire(p) \/ Delete(p) \/ Finish(p) \/ Release(p)
                             \/ \E x \in Paths : Look(p, x)
                             \/ Disturbed(p)
  BY DEF Next, Step, Disturbed

\* The initial state has its shape.
LEMMA InitType == Init => TypeOK
  BY NoneAssumption, BoundAssumption DEF Init, TypeOK, Ids, Points

\* Request handlers and time keep the shape of the state.
LEMMA HandlersType ==
  ASSUME TypeOK, NEW x \in Paths, Write(x) \/ Drop(x) \/ Expire(x)
  PROVE  TypeOK'
  <1> USE BoundAssumption DEF TypeOK, Ids
  <1>1. CASE Write(x)
    <2>1. count + 1 \in 1..MaxBundles
      BY <1>1 DEF Write
    <2>2. bundle' \in [Paths -> {0} \cup Ids] /\ count' \in 0..MaxBundles
      BY <1>1, <2>1 DEF Write
    <2>3. QED
      BY <1>1, <2>2 DEF Write
  <1>2. CASE Drop(x)
    <2>1. bundle[x] \in Ids
      BY <1>2 DEF Drop
    <2>2. bundle' \in [Paths -> {0} \cup Ids] /\ handled' \subseteq Ids
      BY <1>2, <2>1 DEF Drop
    <2>3. QED
      BY <1>2, <2>2 DEF Drop
  <1>3. CASE Expire(x)
    <2>1. bundle[x] \in Ids
      BY <1>3 DEF Expire
    <2>2. old' \subseteq Ids
      BY <1>3, <2>1 DEF Expire
    <2>3. QED
      BY <1>3, <2>2 DEF Expire
  <1>4. QED
    BY <1>1, <1>2, <1>3

\* The steps of an undisturbed pass keep the shape of the state.
LEMMA PassType ==
  ASSUME TypeOK, NEW p \in Procs,
         \/ Acquire(p) \/ Delete(p) \/ Finish(p) \/ Release(p)
         \/ \E x \in Paths : Look(p, x)
  PROVE  TypeOK'
  <1> USE DEF TypeOK, Goto, Points
  <1>1. CASE Acquire(p)
    <2>1. {x \in Paths : bundle[x] # 0} \in SUBSET Paths
      OBVIOUS
    <2>2. pc' \in [Procs -> Points] /\ holder' \in Procs \cup {None}
      BY <1>1 DEF Acquire, Begin
    <2>3. due' \in [Procs -> SUBSET Ids] /\ todo' \in [Procs -> SUBSET Paths]
      BY <1>1, <2>1 DEF Acquire, Begin
    <2>4. lease' \in [Procs -> BOOLEAN]
      BY <1>1 DEF Acquire
    <2>5. QED
      BY <1>1, <2>2, <2>3, <2>4 DEF Acquire, Begin
  <1>2. CASE Delete(p)
    <2>1. target[p] \in Paths \X Ids
      BY <1>2 DEF Delete
    <2>2. target[p][1] \in Paths /\ target[p][2] \in Ids
      BY <2>1
    <2>3. bundle[target[p][1]] \in {0} \cup Ids
      BY <2>2
    <2>4. wrong' \subseteq Ids \X Ids
      BY <1>2, <2>2, <2>3 DEF Delete
    <2>5. bundle' \in [Paths -> {0} \cup Ids]
      BY <1>2, <2>2 DEF Delete
    <2>6. QED
      BY <1>2, <2>4, <2>5 DEF Delete
  <1>3. CASE Finish(p)
    BY <1>3 DEF Finish
  <1>4. CASE Release(p)
    BY <1>4 DEF Release
  <1>5. CASE \E x \in Paths : Look(p, x)
    BY <1>5 DEF Look
  <1>6. QED
    BY <1>1, <1>2, <1>3, <1>4, <1>5

\* Failures, crashes and shutdowns keep the shape of the state.
LEMMA DisturbedType ==
  ASSUME TypeOK, NEW p \in Procs, Disturbed(p)
  PROVE  TypeOK'
  <1> USE BoundAssumption DEF TypeOK, Goto, Points, Fault, Ends
  <1>1. CASE AcquireRaises(p)
    BY <1>1 DEF AcquireRaises
  <1>2. CASE DeleteFails(p)
    BY <1>2 DEF DeleteFails
  <1>3. CASE GiveUp(p)
    BY <1>3 DEF GiveUp
  <1>4. CASE ReleaseFails(p)
    BY <1>4 DEF ReleaseFails
  <1>5. CASE Crash(p)
    BY <1>5 DEF Crash
  <1>6. CASE Restart(p)
    BY <1>6 DEF Restart
  <1>7. CASE AskToStop(p)
    BY <1>7 DEF AskToStop
  <1>8. CASE Cancel(p)
    BY <1>8 DEF Cancel
  <1>9. CASE CancelLost(p)
    BY <1>9 DEF CancelLost
  <1>10. QED
    BY <1>1, <1>2, <1>3, <1>4, <1>5, <1>6, <1>7, <1>8, <1>9 DEF Disturbed

\* Every step keeps the shape of the state.
LEMMA TypeStep == TypeOK /\ [Next]_vars => TypeOK'
  <1> SUFFICES ASSUME TypeOK, [Next]_vars PROVE TypeOK'
    OBVIOUS
  <1>1. CASE Next
    BY <1>1, NextCases, HandlersType, PassType, DisturbedType
  <1>2. CASE UNCHANGED vars
    BY <1>2 DEF TypeOK, vars
  <1>3. QED
    BY <1>1, <1>2

\* The cleanup loops, the lease and the bundles keep their shape: a pass only
\* ever sets out to delete a bundle that it has seen.
THEOREM TypeCorrect == Spec => []TypeOK
  BY InitType, TypeStep, PTL DEF Spec

-----------------------------------------------------------------------------
(* Exclusion: a process in a pass owns the lock.                            *)

Owned == \A p \in Procs : InPass(p) => holder = p

\* The lock has one owner, so one process is in a pass.
LEMMA OwnedExcludes == Owned => OneSweeper
  BY DEF Owned, OneSweeper

\* No step puts a process into a pass without the lock, or takes the lock from it.
LEMMA OwnedStep == TypeOK /\ Owned /\ [Next]_vars => Owned'
  <1> SUFFICES ASSUME TypeOK, Owned, [Next]_vars PROVE Owned'
    OBVIOUS
  <1> USE NoneAssumption DEF TypeOK, Owned, InPass, Goto, Fault, Ends
  <1>1. ASSUME NEW x \in Paths, Write(x) \/ Drop(x) \/ Expire(x) PROVE Owned'
    BY <1>1 DEF Write, Drop, Expire
  <1>2. ASSUME NEW p \in Procs, Acquire(p) PROVE Owned'
    BY <1>2 DEF Acquire, Begin
  <1>3. ASSUME NEW p \in Procs, Delete(p) \/ Finish(p) \/ \E x \in Paths : Look(p, x)
        PROVE  Owned'
    BY <1>3 DEF Delete, Finish, Look
  <1>4. ASSUME NEW p \in Procs, Release(p) \/ ReleaseFails(p) PROVE Owned'
    BY <1>4 DEF Release, ReleaseFails
  <1>5. ASSUME NEW p \in Procs, AcquireRaises(p) \/ DeleteFails(p) \/ GiveUp(p) PROVE Owned'
    BY <1>5 DEF AcquireRaises, DeleteFails, GiveUp
  <1>6. ASSUME NEW p \in Procs, Crash(p) \/ Cancel(p) PROVE Owned'
    BY <1>6 DEF Crash, Cancel
  <1>7. ASSUME NEW p \in Procs, Restart(p) \/ AskToStop(p) \/ CancelLost(p) PROVE Owned'
    BY <1>7 DEF Restart, AskToStop, CancelLost
  <1>8. CASE UNCHANGED vars
    BY <1>8 DEF vars
  <1>9. QED
    BY <1>1, <1>2, <1>3, <1>4, <1>5, <1>6, <1>7, <1>8, NextCases DEF Disturbed

\* At most one process is in a cleanup pass, through crashes, restarts,
\* shutdowns and failing system calls of acquire_lease and release_lease.
THEOREM SweepersExclude == Spec => []OneSweeper
  <1>1. Init => Owned
    BY DEF Init, Owned, InPass
  <1>2. QED
    BY <1>1, OwnedStep, OwnedExcludes, TypeCorrect, PTL DEF Spec

-----------------------------------------------------------------------------
(* What a pass is about to delete is what it judged, unless a handler       *)
(* removed that.                                                            *)

Judged == \A p \in Procs : pc[p] = "delete" =>
            \/ bundle[target[p][1]] = target[p][2]
            \/ target[p][2] \in handled

\* No step but a handler's changes what a pass is about to delete.
LEMMA JudgedStep ==
  TypeOK /\ Owned /\ Judged /\ SparesFresh /\ [Next]_vars => Judged' /\ SparesFresh'
  <1> SUFFICES ASSUME TypeOK, Owned, Judged, SparesFresh, [Next]_vars
               PROVE  Judged' /\ SparesFresh'
    OBVIOUS
  <1> USE DEF Judged, SparesFresh, Goto, Fault, Ends
  <1>1. ASSUME NEW x \in Paths, Write(x) \/ Drop(x) \/ Expire(x)
        PROVE  Judged' /\ SparesFresh'
    <2>1. SparesFresh'
      BY <1>1 DEF Write, Drop, Expire
    <2>2. ASSUME NEW p \in Procs, pc[p] = "delete"
          PROVE  /\ target[p] \in Paths \X Ids
                 /\ target[p][1] \in Paths /\ target[p][2] \in Ids
      BY <2>2 DEF TypeOK
    <2>3. Judged'
      BY <1>1, <2>2, BoundAssumption DEF Write, Drop, Expire, TypeOK, Ids
    <2>4. QED
      BY <2>1, <2>3
  <1>2. ASSUME NEW p \in Procs, Delete(p) PROVE Judged' /\ SparesFresh'
    <2>1. \A q \in Procs : pc'[q] # "delete"
      BY <1>2 DEF Delete, TypeOK, Owned, InPass
    <2>2. SparesFresh'
      <3>1. CASE bundle[target[p][1]] = target[p][2]
        BY <1>2, <3>1 DEF Delete
      <3>2. CASE target[p][2] \in handled
        BY <1>2, <3>2 DEF Delete
      <3>3. QED
        BY <1>2, <3>1, <3>2 DEF Delete
    <2>3. QED
      BY <2>1, <2>2
  <1>3. ASSUME NEW p \in Procs, NEW x \in Paths, Look(p, x)
        PROVE  Judged' /\ SparesFresh'
    <2>1. SparesFresh'
      BY <1>3 DEF Look
    <2>2. Judged'
      BY <1>3 DEF Look, TypeOK
    <2>3. QED
      BY <2>1, <2>2
  <1>4. ASSUME NEW p \in Procs, Acquire(p) \/ Finish(p) \/ Release(p) \/ ReleaseFails(p)
        PROVE  Judged' /\ SparesFresh'
    BY <1>4 DEF Acquire, Begin, Finish, Release, ReleaseFails, TypeOK
  <1>5. ASSUME NEW p \in Procs, AcquireRaises(p) \/ DeleteFails(p) \/ GiveUp(p)
        PROVE  Judged' /\ SparesFresh'
    BY <1>5 DEF AcquireRaises, DeleteFails, GiveUp, TypeOK
  <1>6. ASSUME NEW p \in Procs, Crash(p) \/ Cancel(p) PROVE Judged' /\ SparesFresh'
    BY <1>6 DEF Crash, Cancel, TypeOK
  <1>7. ASSUME NEW p \in Procs, Restart(p) \/ AskToStop(p) \/ CancelLost(p)
        PROVE  Judged' /\ SparesFresh'
    BY <1>7 DEF Restart, AskToStop, CancelLost, TypeOK
  <1>8. CASE UNCHANGED vars
    BY <1>8 DEF vars
  <1>9. QED
    BY <1>1, <1>2, <1>3, <1>4, <1>5, <1>6, <1>7, <1>8, NextCases DEF Disturbed

\* No two cleanup passes together delete a bundle that was not expired: one that
\* hits another bundle than it judged does so only behind a request handler.
THEOREM FreshBundlesSpared == Spec => []SparesFresh
  <1>1. Init => Owned /\ Judged /\ SparesFresh
    BY DEF Init, Owned, InPass, Judged, SparesFresh
  <1>2. QED
    BY <1>1, OwnedStep, JudgedStep, TypeCorrect, PTL DEF Spec
=============================================================================
