------------------------- MODULE ActionWorkerProofs -------------------------
(***************************************************************************)
(* Proofs about ActionWorker for every set of pids and of exit codes.      *)
(* IInv is the inductive invariant: it says who holds the lock, that the   *)
(* recorded pid names an unreaped child except between waitpid and the     *)
(* store that forgets it, and what the flags mean.  Liveness stays with    *)
(* TLC.                                                                    *)
(***************************************************************************)
EXTENDS ActionWorker, TLAPS

(* Each thread is inside a critical section exactly when it holds the lock. *)
LockInv ==
    /\ lock = "caller" <=> caller \in CallerHolds
    /\ lock = "monitor" <=> monitor \in MonitorHolds
    /\ released <=> caller = "gone"

(* Which processes are the worker's, and what its pid fields name. *)
ChildInv ==
    /\ caller = "record" <=> forked # NoPid
    /\ caller = "record" => pid = NoPid /\ proc[forked] \in OwnChild
    /\ monitor \in {"reap", "publish"} => pid # NoPid
    /\ pid # NoPid =>
        /\ grouped
        /\ (proc[pid] \in OwnChild <=> monitor # "publish")
    /\ monitor = "freed" => pid = NoPid /\ released
    /\ NoOrphan

(* What the flags say of the child. *)
FlagInv ==
    /\ busy <=> (pid # NoPid /\ ~stopped)
    /\ busy \/ caller = "record" => ~pending

IInv == TypeOK /\ LockInv /\ ChildInv /\ FlagInv /\ ~stray /\ ~missed

-----------------------------------------------------------------------------
LEMMA InitIInv == Init => IInv
  BY PidAssumption, CodeAssumption
  DEF Init, IInv, TypeOK, LockInv, ChildInv, FlagInv, NoOrphan, OwnChild,
      CallerHolds, MonitorHolds, Operations

(* stop_child, called by whoever holds the lock outside the window between
   waitpid and the store that forgets the pid. *)
Stopping ==
    /\ busy' \in BOOLEAN /\ pending' \in BOOLEAN
    /\ result' \in Codes \union {Stopped} /\ stopped' \in BOOLEAN
    /\ stray' \in BOOLEAN /\ missed' \in BOOLEAN
    /\ ~stray' /\ ~missed'
    /\ busy' <=> (pid # NoPid /\ ~stopped')
    /\ busy' => ~pending'

LEMMA StopChildIInv ==
    ASSUME IInv, StopChild, monitor # "publish", caller # "record"
    PROVE  Stopping
  BY DEF IInv, StopChild, Stopping, TypeOK, ChildInv, FlagInv, history

LEMMA CallerIInv == IInv /\ Caller => IInv'
  <1> SUFFICES ASSUME IInv, Caller PROVE IInv'
    OBVIOUS
  <1> USE PidAssumption, CodeAssumption
      DEF IInv, TypeOK, LockInv, ChildInv, FlagInv, NoOrphan, OwnChild,
          CallerHolds, MonitorHolds, Operations, jobVars, kernelVars, history,
          CallerUnlock
  <1>1. ASSUME NEW op \in Operations, CallerLock(op) PROVE IInv'
    BY <1>1 DEF CallerLock
  <1>2. CASE StartRejected
    BY <1>2 DEF StartRejected
  <1>3. CASE StartFailed
    BY <1>3 DEF StartFailed
  <1>4. ASSUME NEW p \in Pids, StartFork(p) PROVE IInv'
    BY <1>4 DEF StartFork
  <1>5. CASE StartRecord
    BY <1>5 DEF StartRecord, SignalMonitor
  <1>6. CASE Poll
    BY <1>6 DEF Poll
  <1>7. CASE Cancel
    <2>1. caller = "cancel" /\ lock = "caller" /\ StopChild
      BY <1>7 DEF Cancel
    <2>2. monitor # "publish"
      BY <2>1
    <2>3. Stopping
      BY <2>1, <2>2, StopChildIInv
    <2>4. TypeOK'
      BY <1>7, <2>1, <2>3 DEF Cancel, Stopping
    <2>5. LockInv'
      BY <1>7, <2>1 DEF Cancel
    <2>6. ChildInv'
      BY <1>7, <2>1 DEF Cancel
    <2>7. FlagInv'
      BY <1>7, <2>1, <2>3 DEF Cancel, Stopping
    <2>8. QED
      BY <2>3, <2>4, <2>5, <2>6, <2>7 DEF Stopping
  <1>8. CASE Free
    <2>1. caller = "free" /\ lock = "caller" /\ StopChild
      BY <1>8 DEF Free
    <2>2. monitor # "publish"
      BY <2>1
    <2>3. Stopping
      BY <2>1, <2>2, StopChildIInv
    <2>4. TypeOK'
      BY <1>8, <2>1, <2>3 DEF Free, SignalMonitor, Stopping
    <2>5. LockInv'
      BY <1>8, <2>1 DEF Free, SignalMonitor
    <2>6. ChildInv'
      BY <1>8, <2>1 DEF Free, SignalMonitor
    <2>7. FlagInv'
      BY <1>8, <2>1, <2>3 DEF Free, Stopping
    <2>8. QED
      BY <2>3, <2>4, <2>5, <2>6, <2>7 DEF Stopping
  <1>9. QED
    BY <1>1, <1>2, <1>3, <1>4, <1>5, <1>6, <1>7, <1>8 DEF Caller

LEMMA MonitorIInv == IInv /\ Monitor => IInv'
  <1> SUFFICES ASSUME IInv, Monitor PROVE IInv'
    OBVIOUS
  <1> USE PidAssumption, CodeAssumption
      DEF IInv, TypeOK, LockInv, ChildInv, FlagInv, NoOrphan, OwnChild,
          CallerHolds, MonitorHolds, Operations, jobVars, kernelVars, history
  <1>1. CASE MonitorLock
    BY <1>1 DEF MonitorLock
  <1>2. CASE MonitorWait
    BY <1>2 DEF MonitorWait
  <1>3. CASE MonitorDestroy
    BY <1>3 DEF MonitorDestroy
  <1>4. CASE MonitorDeadline
    <2>1. monitor = "test" /\ lock = "monitor" /\ caller # "record"
      BY <1>4 DEF MonitorDeadline
    <2>2. CASE released \/ expired
      <3>1. Stopping
        BY <1>4, <2>1, <2>2, StopChildIInv DEF MonitorDeadline
      <3>2. TypeOK'
        BY <1>4, <2>1, <3>1 DEF MonitorDeadline, Stopping
      <3>3. LockInv' /\ ChildInv'
        BY <1>4, <2>1 DEF MonitorDeadline
      <3>4. FlagInv'
        BY <1>4, <2>1, <3>1 DEF MonitorDeadline, Stopping
      <3>5. QED
        BY <3>1, <3>2, <3>3, <3>4 DEF Stopping
    <2>3. CASE ~(released \/ expired)
      BY <1>4, <2>1, <2>3 DEF MonitorDeadline
    <2>4. QED
      BY <2>2, <2>3
  <1>5. CASE MonitorNotYet
    BY <1>5 DEF MonitorNotYet
  <1>6. CASE MonitorReap
    BY <1>6 DEF MonitorReap
  <1>7. CASE MonitorPublish
    BY <1>7 DEF MonitorPublish
  <1>8. QED
    BY <1>1, <1>2, <1>3, <1>4, <1>5, <1>6, <1>7 DEF Monitor

LEMMA EnvironmentIInv ==
    IInv /\ (SpuriousWake \/ Kernel \/ DeadlinePasses) => IInv'
  <1> SUFFICES ASSUME IInv, SpuriousWake \/ Kernel \/ DeadlinePasses
               PROVE  IInv'
    OBVIOUS
  <1> USE PidAssumption
      DEF IInv, TypeOK, LockInv, ChildInv, FlagInv, NoOrphan, OwnChild,
          CallerHolds, MonitorHolds, Operations, jobVars, kernelVars, history
  <1>1. CASE SpuriousWake
    BY <1>1 DEF SpuriousWake
  <1>2. ASSUME NEW p \in Pids, ChildExit(p) PROVE IInv'
    BY <1>2 DEF ChildExit
  <1>3. ASSUME NEW p \in Pids, ChildSetpgid(p) PROVE IInv'
    BY <1>3 DEF ChildSetpgid
  <1>4. ASSUME NEW p \in Pids, ForeignStart(p) PROVE IInv'
    BY <1>4 DEF ForeignStart
  <1>5. ASSUME NEW p \in Pids, ForeignExit(p) PROVE IInv'
    BY <1>5 DEF ForeignExit
  <1>6. CASE DeadlinePasses
    BY <1>6 DEF DeadlinePasses
  <1>7. QED
    BY <1>1, <1>2, <1>3, <1>4, <1>5, <1>6 DEF Kernel

LEMMA StutterIInv == IInv /\ UNCHANGED vars => IInv'
  BY DEF IInv, TypeOK, LockInv, ChildInv, FlagInv, NoOrphan, OwnChild,
         vars, jobVars, kernelVars, history

(* Everything below follows from this: IInv holds in every reachable state,
   whatever the interleaving of the two threads, the kernel and the clock. *)
THEOREM Inductive == Spec => []IInv
  <1>1. IInv /\ [Next]_vars => IInv'
    BY CallerIInv, MonitorIInv, EnvironmentIInv, StutterIInv DEF Next
  <1>2. QED
    BY InitIInv, <1>1, PTL DEF Spec

(* The variables of action_worker.c keep their types. *)
THEOREM TypeCorrect == Spec => []TypeOK
  <1>1. IInv => TypeOK
    BY DEF IInv
  <1>2. QED
    BY <1>1, Inductive, PTL

(* A reaped pid is never signalled (the comment on stop_child). *)
THEOREM OnlyOwnChildSignalledThm == Spec => []OnlyOwnChildSignalled
  <1>1. IInv => OnlyOwnChildSignalled
    BY DEF IInv, OnlyOwnChildSignalled
  <1>2. QED
    BY <1>1, Inductive, PTL

(* Both parent and child set the process group (aw_start): it exists
   whenever stop_child signals it. *)
THEOREM GroupExistsThm == Spec => []GroupExistsWhenSignalled
  <1>1. IInv => GroupExistsWhenSignalled
    BY DEF IInv, GroupExistsWhenSignalled
  <1>2. QED
    BY <1>1, Inductive, PTL

(* The monitor frees the struct (aw_free's deferred cleanup) only when the
   caller has let go of it and no child is left. *)
THEOREM FreedOnlyWhenUnusedThm == Spec => []FreedOnlyWhenUnused
  <1>1. IInv => FreedOnlyWhenUnused
    BY PidAssumption
    DEF IInv, FreedOnlyWhenUnused, LockInv, ChildInv, NoOrphan, TypeOK,
        CallerHolds, MonitorHolds, Operations
  <1>2. QED
    BY <1>1, Inductive, PTL

(* No child process is ever out of the worker's sight. *)
THEOREM NoOrphanThm == Spec => []NoOrphan
  <1>1. IInv => NoOrphan
    BY DEF IInv, ChildInv
  <1>2. QED
    BY <1>1, Inductive, PTL

(* aw_busy, aw_poll and aw_start tell one story of the command: it runs, or
   its completion waits, never both. *)
THEOREM BusyOrPendingThm == Spec => []BusyOrPending
  <1>1. IInv => BusyOrPending
    BY DEF IInv, FlagInv, BusyOrPending
  <1>2. QED
    BY <1>1, Inductive, PTL

-----------------------------------------------------------------------------
(* The safety part of ImplementsActionJob: every step of the two threads,
   the kernel and the clock is a step of ActionJob, or changes nothing its
   caller can see. *)
JobSafety == Job!Init /\ [][Job!Next]_(Job!vars)

LEMMA StepRefines == IInv /\ [Next]_vars => [Job!Next]_(Job!vars)
  <1> SUFFICES ASSUME IInv, [Next]_vars PROVE [Job!Next]_(Job!vars)
    OBVIOUS
  <1> USE DEF IInv, FlagInv, jobVars, kernelVars, history, CallerUnlock,
              Job!Next, Job!Start, Job!Complete, Job!Finish, Job!Collect,
              Job!vars, phaseBar
  <1>1. ASSUME NEW op \in Operations, CallerLock(op)
        PROVE  UNCHANGED Job!vars
    BY <1>1 DEF CallerLock
  <1>2. CASE StartRejected \/ StartFailed
    BY <1>2 DEF StartRejected, StartFailed
  <1>3. ASSUME NEW p \in Pids, StartFork(p) PROVE UNCHANGED Job!vars
    BY <1>3 DEF StartFork
  <1>4. CASE StartRecord
    <2>1. ~busy /\ ~pending
      BY <1>4 DEF StartRecord, ChildInv
    <2>2. QED
      BY <1>4, <2>1 DEF StartRecord
  <1>5. CASE Poll
    BY <1>5 DEF Poll, TypeOK
  <1>6. ASSUME StopChild PROVE [Job!Next]_(Job!vars)
    BY <1>6 DEF StopChild
  <1>7. CASE Cancel \/ Free
    BY <1>6, <1>7 DEF Cancel, Free
  <1>8. CASE MonitorLock \/ MonitorWait \/ MonitorDestroy \/ MonitorNotYet
             \/ MonitorReap
    BY <1>8 DEF MonitorLock, MonitorWait, MonitorDestroy, MonitorNotYet,
                MonitorReap
  <1>9. CASE MonitorDeadline
    BY <1>6, <1>9 DEF MonitorDeadline
  <1>10. CASE MonitorPublish
    BY <1>10 DEF MonitorPublish, ChildInv, TypeOK
  <1>11. CASE SpuriousWake \/ Kernel \/ DeadlinePasses
    BY <1>11 DEF SpuriousWake, Kernel, ChildExit, ChildSetpgid, ForeignStart,
                 ForeignExit, DeadlinePasses
  <1>12. CASE UNCHANGED vars
    BY <1>12 DEF vars
  <1>13. QED
    BY <1>1, <1>2, <1>3, <1>4, <1>5, <1>7, <1>8, <1>9, <1>10, <1>11, <1>12
    DEF Next, Caller, Monitor

THEOREM RefinesActionJob == Spec => JobSafety
  <1>1. Init => Job!Init
    BY CodeAssumption DEF Init, Job!Init, phaseBar
  <1>2. QED
    BY <1>1, StepRefines, Inductive, PTL DEF Spec, JobSafety
==============================================================================
