---------------------------- MODULE ActionWorker ----------------------------
(***************************************************************************)
(* action_worker.c: the one background command (the Wi-Fi script) of the   *)
(* control centre.  Two threads share a struct behind one mutex: the       *)
(* caller, which is the UI loop (aw_start, aw_poll, aw_cancel, aw_free),   *)
(* and a detached monitor, which alone reaps the child and finally frees   *)
(* the struct.  The kernel's process table is modelled too, with pids that *)
(* other processes reuse once they are reaped, because the comment on      *)
(* stop_child promises that a reaped pid is never signalled.               *)
(*                                                                         *)
(* The mutex is explicit: the steps of a critical section are separate     *)
(* actions, so a child may exit, a pid be reused or the deadline pass      *)
(* between any two of them.                                                *)
(***************************************************************************)
CONSTANTS
    Pids,       \* process ids the kernel hands out
    NoPid,      \* w->pid = 0
    Codes,      \* exit statuses of a child that was not stopped
    Success,    \* the exit status 0, also the calloc'ed result
    Stopped     \* the result -1 of a child the worker stopped

ASSUME PidAssumption == NoPid \notin Pids
ASSUME CodeAssumption == Success \in Codes /\ Stopped \notin Codes

VARIABLES
    lock,       \* holder of w->lock: "free", "caller" or "monitor"
    pid,        \* w->pid
    busy,       \* w->busy
    pending,    \* w->pending
    result,     \* w->result
    stopped,    \* w->stopped
    released,   \* w->released
    expired,    \* the monotonic clock has reached w->deadline (or failed)
    caller,     \* where the caller's thread is
    forked,     \* the pid fork() returned, before it is recorded
    monitor,    \* where the monitor's thread is
    proc,       \* the kernel's process table
    exitCode,   \* status of the zombie child
    grouped,    \* the child leads a process group of its own
    stray,      \* history: a signal hit a pid that is not the worker's child
    missed      \* history: a group signal found no group to end

jobVars == <<pid, busy, pending, result, stopped, released>>
kernelVars == <<proc, exitCode, grouped>>
history == <<stray, missed>>
vars == <<lock, jobVars, expired, caller, forked, monitor, kernelVars,
          history>>

Operations == {"start", "poll", "cancel", "free"}
CallerHolds == Operations \union {"record"}
MonitorHolds == {"test", "reap", "publish"}
OwnChild == {"running", "zombie"}

Init ==
    /\ lock = "free"
    /\ pid = NoPid /\ busy = FALSE /\ pending = FALSE /\ result = Success
    /\ stopped = FALSE /\ released = FALSE /\ expired = FALSE
    /\ caller = "idle" /\ forked = NoPid
    /\ monitor = "loop"
    /\ proc = [p \in Pids |-> "none"] /\ exitCode = Success
    /\ grouped = FALSE
    /\ stray = FALSE /\ missed = FALSE

(* Defect: a stopped command still counts as busy. *)
StopChildStillBusy ==
    IF pid = NoPid \/ stopped
    THEN UNCHANGED <<busy, pending, result, stopped, history>>
    ELSE /\ stray' = (stray \/ proc[pid] \notin OwnChild)
         /\ missed' = (missed \/ ~grouped)
         /\ stopped' = TRUE
         /\ result' = Stopped /\ pending' = TRUE
         /\ UNCHANGED busy

(* stop_child: signal the child's group and the child, and report it
   stopped.  Nothing happens without a child or when it was stopped before. *)
StopChild ==
    IF pid = NoPid \/ stopped
    THEN UNCHANGED <<busy, pending, result, stopped, history>>
    ELSE /\ stray' = (stray \/ proc[pid] \notin OwnChild)
         /\ missed' = (missed \/ ~grouped)
         /\ stopped' = TRUE /\ busy' = FALSE
         /\ result' = Stopped /\ pending' = TRUE

(* pthread_cond_signal: the monitor, if it waits, contends for the lock. *)
SignalMonitor == monitor' = IF monitor = "wait" THEN "loop" ELSE monitor

-----------------------------------------------------------------------------
(* The caller's thread. *)

CallerLock(op) ==
    /\ caller = "idle" /\ lock = "free"
    /\ caller' = op /\ lock' = "caller"
    /\ UNCHANGED <<jobVars, expired, forked, monitor, kernelVars, history>>

CallerUnlock == caller' = "idle" /\ lock' = "free"

(* aw_start refuses: a child is unreaped or a completion is not polled. *)
StartRejected ==
    /\ caller = "start" /\ (pid # NoPid \/ pending)
    /\ CallerUnlock
    /\ UNCHANGED <<jobVars, expired, forked, monitor, kernelVars, history>>

(* aw_start fails: no resource limit, clock, descriptor list or fork. *)
StartFailed ==
    /\ caller = "start" /\ pid = NoPid /\ ~pending
    /\ CallerUnlock
    /\ UNCHANGED <<jobVars, expired, forked, monitor, kernelVars, history>>

(* Defect: only an unpolled completion refuses a new command. *)
StartForkOverChild(p) ==
    /\ caller = "start" /\ ~pending
    /\ proc[p] = "none"
    /\ proc' = [proc EXCEPT ![p] = "running"]
    /\ forked' = p /\ expired' = FALSE
    /\ caller' = "record"
    /\ grouped' = FALSE
    /\ UNCHANGED <<lock, jobVars, monitor, exitCode, history>>

StartFork(p) ==
    /\ caller = "start" /\ pid = NoPid /\ ~pending
    /\ proc[p] = "none"
    /\ proc' = [proc EXCEPT ![p] = "running"]
    /\ forked' = p /\ expired' = FALSE
    /\ caller' = "record"
    /\ grouped' = FALSE
    /\ UNCHANGED <<lock, jobVars, monitor, exitCode, history>>

(* Defect: only the child sets its process group. *)
StartRecordUngrouped ==
    /\ caller = "record"
    /\ pid' = forked /\ busy' = TRUE /\ stopped' = FALSE
    /\ forked' = NoPid
    /\ SignalMonitor /\ CallerUnlock
    /\ UNCHANGED <<pending, result, released, expired, kernelVars, history>>

StartRecord ==
    /\ caller = "record"
    /\ grouped' = TRUE    \* setpgid(pid, pid), here or in the child
    /\ pid' = forked /\ busy' = TRUE /\ stopped' = FALSE
    /\ forked' = NoPid
    /\ SignalMonitor /\ CallerUnlock
    /\ UNCHANGED <<pending, result, released, expired, proc, exitCode, history>>

Poll ==
    /\ caller = "poll"
    /\ pending' = FALSE
    /\ CallerUnlock
    /\ UNCHANGED <<pid, busy, result, stopped, released, expired, forked,
                   monitor, kernelVars, history>>

Cancel ==
    /\ caller = "cancel"
    /\ StopChild /\ CallerUnlock
    /\ UNCHANGED <<pid, released, expired, forked, monitor, kernelVars>>

(* Defect: aw_free does not wake the monitor. *)
FreeUnsignalled ==
    /\ caller = "free"
    /\ StopChild /\ released' = TRUE
    /\ caller' = "gone" /\ lock' = "free"
    /\ UNCHANGED <<pid, expired, forked, monitor, kernelVars>>

(* aw_free: the caller never touches the worker again. *)
Free ==
    /\ caller = "free"
    /\ StopChild /\ released' = TRUE
    /\ SignalMonitor
    /\ caller' = "gone" /\ lock' = "free"
    /\ UNCHANGED <<pid, expired, forked, kernelVars>>

Caller ==
    \/ \E op \in Operations : CallerLock(op)
    \/ StartRejected
    \/ StartFailed
    \/ \E p \in Pids : StartFork(p)
    \/ StartRecord
    \/ Poll
    \/ Cancel
    \/ Free

-----------------------------------------------------------------------------
(* The monitor's thread. *)

MonitorLock ==
    /\ monitor = "loop" /\ lock = "free"
    /\ monitor' = "test" /\ lock' = "monitor"
    /\ UNCHANGED <<jobVars, expired, caller, forked, kernelVars, history>>

(* pthread_cond_wait releases the lock until it is signalled. *)
MonitorWait ==
    /\ monitor = "test" /\ pid = NoPid /\ ~released
    /\ monitor' = "wait" /\ lock' = "free"
    /\ UNCHANGED <<jobVars, expired, caller, forked, kernelVars, history>>

(* POSIX lets a condition wait return without a signal. *)
SpuriousWake ==
    /\ monitor = "wait"
    /\ monitor' = "loop"
    /\ UNCHANGED <<lock, jobVars, expired, caller, forked, kernelVars, history>>

(* Defect: a released worker is freed although its child is not reaped. *)
MonitorDestroyEarly ==
    /\ monitor = "test" /\ released
    /\ monitor' = "freed" /\ lock' = "free"
    /\ UNCHANGED <<jobVars, expired, caller, forked, kernelVars, history>>

(* Unlock, destroy the condition and the mutex, free the struct. *)
MonitorDestroy ==
    /\ monitor = "test" /\ pid = NoPid /\ released
    /\ monitor' = "freed" /\ lock' = "free"
    /\ UNCHANGED <<jobVars, expired, caller, forked, kernelVars, history>>

MonitorDeadline ==
    /\ monitor = "test" /\ pid # NoPid
    /\ IF released \/ expired
       THEN StopChild
       ELSE UNCHANGED <<busy, pending, result, stopped, history>>
    /\ monitor' = "reap"
    /\ UNCHANGED <<lock, pid, released, expired, caller, forked, kernelVars>>

(* waitpid(WNOHANG) on a child that still runs: sleep and come back. *)
MonitorNotYet ==
    /\ monitor = "reap" /\ proc[pid] # "zombie"
    /\ monitor' = "loop" /\ lock' = "free"
    /\ UNCHANGED <<jobVars, expired, caller, forked, kernelVars, history>>

(* waitpid reaps: from here on the kernel may give the pid to anyone. *)
MonitorReap ==
    /\ monitor = "reap" /\ proc[pid] = "zombie"
    /\ proc' = [proc EXCEPT ![pid] = "none"]
    /\ monitor' = "publish"
    /\ UNCHANGED <<lock, jobVars, expired, caller, forked, exitCode, grouped,
                   history>>

(* Defects: the raw wait status is published; the reaped pid is kept; the
   exit status replaces the result of a command that was stopped. *)
MonitorPublishRaw ==
    /\ monitor = "publish"
    /\ IF stopped
       THEN UNCHANGED <<result, pending, busy>>
       ELSE result' = <<exitCode>> /\ pending' = TRUE /\ busy' = FALSE
    /\ pid' = NoPid
    /\ monitor' = "loop" /\ lock' = "free"
    /\ UNCHANGED <<stopped, released, expired, caller, forked, kernelVars,
                   history>>

MonitorPublishKeepPid ==
    /\ monitor = "publish"
    /\ IF stopped
       THEN UNCHANGED <<result, pending, busy>>
       ELSE result' = exitCode /\ pending' = TRUE /\ busy' = FALSE
    /\ monitor' = "loop" /\ lock' = "free"
    /\ UNCHANGED <<pid, stopped, released, expired, caller, forked,
                   kernelVars, history>>

MonitorPublishAlways ==
    /\ monitor = "publish"
    /\ result' = exitCode /\ pending' = TRUE /\ busy' = FALSE
    /\ pid' = NoPid
    /\ monitor' = "loop" /\ lock' = "free"
    /\ UNCHANGED <<stopped, released, expired, caller, forked, kernelVars,
                   history>>

MonitorPublish ==
    /\ monitor = "publish"
    /\ IF stopped
       THEN UNCHANGED <<result, pending, busy>>
       ELSE result' = exitCode /\ pending' = TRUE /\ busy' = FALSE
    /\ pid' = NoPid
    /\ monitor' = "loop" /\ lock' = "free"
    /\ UNCHANGED <<stopped, released, expired, caller, forked, kernelVars,
                   history>>

Monitor ==
    \/ MonitorLock \/ MonitorWait \/ MonitorDestroy \/ MonitorDeadline
    \/ MonitorNotYet \/ MonitorReap \/ MonitorPublish

-----------------------------------------------------------------------------
(* The kernel and the clock. *)

(* The child exits by itself or by the signal.  A killed child may stay
   for ever in uninterruptible driver work, so nothing forces this step. *)
ChildExit(p) ==
    /\ proc[p] = "running"
    /\ proc' = [proc EXCEPT ![p] = "zombie"]
    /\ exitCode' \in Codes
    /\ UNCHANGED <<lock, jobVars, expired, caller, forked, monitor, grouped,
                   history>>

(* The child calls setpgid(0, 0) before it executes the command. *)
ChildSetpgid(p) ==
    /\ p = forked /\ proc[p] = "running" /\ ~grouped
    /\ grouped' = TRUE
    /\ UNCHANGED <<lock, jobVars, expired, caller, forked, monitor, proc,
                   exitCode, history>>

ForeignStart(p) ==
    /\ proc[p] = "none"
    /\ proc' = [proc EXCEPT ![p] = "foreign"]
    /\ UNCHANGED <<lock, jobVars, expired, caller, forked, monitor, exitCode,
                   grouped, history>>

ForeignExit(p) ==
    /\ proc[p] = "foreign"
    /\ proc' = [proc EXCEPT ![p] = "none"]
    /\ UNCHANGED <<lock, jobVars, expired, caller, forked, monitor, exitCode,
                   grouped, history>>

DeadlinePasses ==
    /\ pid # NoPid /\ ~expired
    /\ expired' = TRUE
    /\ UNCHANGED <<lock, jobVars, caller, forked, monitor, kernelVars, history>>

Kernel ==
    \E p \in Pids :
        ChildExit(p) \/ ChildSetpgid(p) \/ ForeignStart(p) \/ ForeignExit(p)

Next == Caller \/ Monitor \/ SpuriousWake \/ Kernel \/ DeadlinePasses

(***************************************************************************)
(* Fairness.  Both threads keep running; the clock advances.  The monitor  *)
(* gets the lock although the caller takes it every frame, because each    *)
(* holds it for microseconds and sleeps in between: strong fairness.  A    *)
(* caller that has taken the lock gives it back; when it takes the lock is *)
(* its own affair.  Nothing is assumed of the child, not even when killed. *)
(***************************************************************************)
CallerSection ==
    \/ StartRejected \/ StartFailed \/ \E p \in Pids : StartFork(p)
    \/ StartRecord \/ Poll \/ Cancel \/ Free

Fairness ==
    /\ WF_vars(CallerSection)
    /\ SF_vars(MonitorLock)
    /\ WF_vars(MonitorWait \/ MonitorDestroy \/ MonitorDeadline
               \/ MonitorNotYet \/ MonitorReap \/ MonitorPublish)
    /\ WF_vars(DeadlinePasses)

Spec == Init /\ [][Next]_vars
FairSpec == Spec /\ Fairness

-----------------------------------------------------------------------------
TypeOK ==
    /\ lock \in {"free", "caller", "monitor"}
    /\ pid \in Pids \union {NoPid}
    /\ busy \in BOOLEAN /\ pending \in BOOLEAN
    /\ result \in Codes \union {Stopped}
    /\ stopped \in BOOLEAN /\ released \in BOOLEAN /\ expired \in BOOLEAN
    /\ caller \in CallerHolds \union {"idle", "gone"}
    /\ forked \in Pids \union {NoPid}
    /\ monitor \in MonitorHolds \union {"loop", "wait", "freed"}
    /\ proc \in [Pids -> OwnChild \union {"none", "foreign"}]
    /\ exitCode \in Codes
    /\ grouped \in BOOLEAN /\ stray \in BOOLEAN /\ missed \in BOOLEAN

(* "The lock serializes signals with waitpid: a reaped PID is never
   signalled" (action_worker.c:28), whatever else reuses the pid. *)
OnlyOwnChildSignalled == ~stray

(* The group signal reaches what the command started: whichever of parent
   and child was scheduled first, the group exists when it is sent. *)
GroupExistsWhenSignalled == ~missed

(* aw_free's contract: the monitor frees the struct only after the caller
   has let go of it, with no child left that nobody would reap. *)
FreedOnlyWhenUnused ==
    monitor = "freed" =>
        /\ caller = "gone" /\ pid = NoPid /\ lock = "free"
        /\ \A p \in Pids : proc[p] \notin OwnChild

(* Thread failure or a stop never orphans a child: every child process is
   the one the struct records or is about to record, so one at most. *)
NoOrphan ==
    \A p \in Pids : proc[p] \in OwnChild => p = pid \/ p = forked

(* aw_busy, aw_poll and aw_start agree: a command is running, or it waits
   to be polled, or neither; never both. *)
BusyOrPending == ~(busy /\ pending) /\ (busy => pid # NoPid /\ ~stopped)

(* The caller's view of the worker, for the refinement. *)
phaseBar == IF busy THEN "running" ELSE IF pending THEN "finished" ELSE "idle"
Job == INSTANCE ActionJob WITH phase <- phaseBar, outcome <- result

(* Every start has exactly one completion, carrying the child's own status
   or -1, never overwritten before it is polled, and it always comes: the
   deadline ends a child that does not, even one that cannot be killed. *)
ImplementsActionJob == Job!Spec

(* After aw_free the struct is reclaimed, unless a killed child stays in
   the kernel for ever. *)
Reclaimed ==
    [](released => <>(monitor = "freed" \/ [](\E p \in Pids : proc[p] = "running")))
==============================================================================
