----------------------------- MODULE ApmSuspend -----------------------------
(***************************************************************************)
(* apm.c's suspend() and check_events composed with the device broadcast  *)
(* of kernel/pm.c.  ApmCore decides when a process calls pm_send_all and   *)
(* what it does with the result; PmDevices walks the real device list,     *)
(* device by device, under pm_devs_lock.  The two share nothing but the    *)
(* call and its return value:                                              *)
(*   - a process entering suspend() (pc "suspend", "crit_suspend",         *)
(*     "rel_suspend") calls pm_send_all(PM_SUSPEND, 3), apm.c:1193;        *)
(*   - after the BIOS call it calls pm_send_all(PM_RESUME, 0), apm.c:1216  *)
(*     (pc "resume", "rel_resume");                                        *)
(*   - kapmd handling a BIOS resume notification calls                     *)
(*     pm_send_all(PM_RESUME, 0), apm.c:1325 (pc "resume_ev").             *)
(* down(&pm_devs_lock) sleeps only when the lock is held: a caller that    *)
(* finds it free starts its walk in the same step as the code leading to   *)
(* the call.  pm_send_all's return, and the code after it up to the next   *)
(* sleep, is one step; so is suspend()'s up(), BIOS call and down() for    *)
(* PM_RESUME, since nothing runs in between on a non-preemptive kernel.    *)
(***************************************************************************)
EXTENDS Naturals, Sequences, FiniteSets

CONSTANTS
    Clients, Privileged, Readers, Kapmd, APM_MAX_EVENTS, BiosEvents,
    MaxBiosEvents, MaxIoctls,                                 \* see ApmCore
    Devices, Callbacks, NoCallback, Callback, Types, DevType,
    Unlocked, PM_UNKNOWN_DEV, PM_SUSPEND, PM_RESUME, PM_OTHER \* see PmDevices

VARIABLES
    users, pc, queue, as_suspends_pending, as_standbys_pending,
    suspends_read, standbys_read, suspend_wait, suspends_pending,
    standbys_pending, waiting_for_resume, ignore_normal_resume,
    ignore_bounce, bounce_elapsed, kevent, bios_notes, bios_budget,
    ioctl_budget, echo_due, bios_refused, \* ApmCore
    pm_devs, pm_devs_lock, dstate, dprev,
    pm_pc, pm_cur, pm_req, pm_status, pm_ret,
    snap, undoFailed,                          \* PmDevices
    cb_failed   \* history: a PM_RESUME or rollback callback has failed

Apm == INSTANCE ApmCore

\* apm.c passes the state 3 with PM_SUSPEND and uses plain pm_send_all.
AllSel == [kind |-> "all"]

Dev == INSTANCE PmDevices
         WITH Callers <- Apm!Procs, PowerStates <- {0, 3}, Selections <- {AllSel},
              pc <- pm_pc, cur <- pm_cur, req <- pm_req, status <- pm_status,
              ret <- pm_ret

apmVars == <<users, pc, queue, as_suspends_pending, as_standbys_pending,
             suspends_read, standbys_read, suspend_wait, suspends_pending,
             standbys_pending, waiting_for_resume, ignore_normal_resume,
             ignore_bounce, bounce_elapsed, kevent, bios_notes, bios_budget,
             ioctl_budget, echo_due, bios_refused>>
devVars == <<pm_devs, pm_devs_lock, dstate, dprev, pm_pc, pm_cur, pm_req,
             pm_status, pm_ret, snap, undoFailed>>
vars == <<apmVars, devVars, cb_failed>>

Init == Apm!Init /\ Dev!Init /\ cb_failed = FALSE
-----------------------------------------------------------------------------
(* The calls of pm_send_all.                                               *)

SuspendCall == {"suspend", "crit_suspend", "rel_suspend"}
ResumeCall  == {"resume", "rel_resume", "resume_ev"}
CallPcs     == SuspendCall \cup ResumeCall

\* The arguments apm.c passes at each call site.
Rqst(q) == IF q \in SuspendCall THEN PM_SUSPEND ELSE PM_RESUME
Data(q) == IF q \in SuspendCall THEN 3 ELSE 0

\* pm_send_all's down(&pm_devs_lock) when p reaches the call (lines 1193,
\* 1325 of apm.c; 240 of pm.c): the walk starts if the lock is free, and
\* otherwise p sleeps on the semaphore.
Call(p) ==
    IF pm_devs_lock = Unlocked
    THEN Dev!SendAllBegin(p, Rqst(pc'[p]), Data(pc'[p]), AllSel)
    ELSE UNCHANGED devVars

\* The process, if any, that an ApmCore step brings to a call.
Enter ==
    LET callers == {p \in Apm!Procs : pc'[p] \in CallPcs /\ pc[p] \notin CallPcs}
    IN IF callers = {} THEN UNCHANGED devVars ELSE \E p \in callers : Call(p)

\* Every ApmCore step that does not return from pm_send_all: kapmd's poll
\* and check_events, the clients' file operations.
ApmStep ==
    /\ \/ Apm!Poll \/ Apm!Tick \/ Apm!NoEvent
       \/ \E e \in Apm!Events : \/ Apm!CheckStandby(e) \/ Apm!CheckSuspend(e)
                                \/ Apm!CheckResume(e) \/ Apm!CheckOther(e)
       \/ \E c \in Clients : \/ Apm!Open(c) \/ Apm!Read(c) \/ Apm!IoctlStandby(c)
                             \/ Apm!IoctlSuspend(c) \/ Apm!IoctlWoken(c)
                             \/ Apm!IoctlSignalled(c) \/ Apm!Release(c)
    /\ Enter
    /\ UNCHANGED cb_failed

\* A caller asleep in down() gets the semaphore after up().
Down(p) ==
    /\ pc[p] \in CallPcs /\ pm_pc[p] = "idle"
    /\ Dev!SendAllBegin(p, Rqst(pc[p]), Data(pc[p]), AllSel)
    /\ UNCHANGED <<apmVars, cb_failed>>

\* One device of the walk, or of pm_undo_all after a veto.
Walk(p) ==
    /\ \/ Dev!SendAllSkip(p) \/ Dev!SendAllAccept(p)
       \/ pm_req[p].rqst = PM_SUSPEND /\ Dev!SendAllVeto(p)
       \/ Dev!UndoStep(p)
    /\ cb_failed' = (cb_failed \/ undoFailed' # {})
    /\ UNCHANGED apmVars
-----------------------------------------------------------------------------
(* Returns from pm_send_all.                                               *)

\* A vetoed PM_SUSPEND returns to suspend(1): up(), `goto out'.
SuspendVetoed(p) ==
    /\ Dev!UndoDone(p)
    /\ Apm!SuspendVeto(p)
    /\ UNCHANGED cb_failed

\* Mutation: suspend() that ignores pm_send_all's result and calls the
\* BIOS after a veto also when vetoable.
SuspendSleptVetoIgnored(p) ==
    /\ pc[p] \in SuspendCall
    /\ \/ pm_pc[p] = "send" /\ pm_cur[p] > Len(pm_devs)
       \/ pm_pc[p] = "undo" /\ pm_cur[p] = 0
    /\ Apm!SuspendBios(p)
    /\ pm_pc' = [pm_pc EXCEPT ![p] = "send"]
    /\ pm_cur' = [pm_cur EXCEPT ![p] = 1]
    /\ pm_req' = [pm_req EXCEPT ![p] = [rqst |-> PM_RESUME, data |-> 0, sel |-> AllSel]]
    /\ pm_status' = [pm_status EXCEPT ![p] = Dev!Ok]
    /\ pm_ret' = [pm_ret EXCEPT ![p] = IF pm_pc[p] = "undo" THEN pm_status[p] ELSE Dev!Ok]
    /\ snap' = dstate /\ undoFailed' = {}
    /\ UNCHANGED <<pm_devs, pm_devs_lock, dstate, dprev, cb_failed>>

\* PM_SUSPEND returns 0, or a veto to suspend(0): up(), the BIOS call
\* (lines 1203-1215), and at once pm_send_all(PM_RESUME)'s down(): p keeps
\* pm_devs_lock and walks the list again from its head.
SuspendSlept(p) ==
    /\ pc[p] \in SuspendCall
    /\ \/ pm_pc[p] = "send" /\ pm_cur[p] > Len(pm_devs)
       \/ pm_pc[p] = "undo" /\ pm_cur[p] = 0 /\ pc[p] = "crit_suspend"
    /\ Apm!SuspendBios(p)
    /\ pm_pc' = [pm_pc EXCEPT ![p] = "send"]
    /\ pm_cur' = [pm_cur EXCEPT ![p] = 1]
    /\ pm_req' = [pm_req EXCEPT ![p] = [rqst |-> PM_RESUME, data |-> 0, sel |-> AllSel]]
    /\ pm_status' = [pm_status EXCEPT ![p] = Dev!Ok]
    /\ pm_ret' = [pm_ret EXCEPT ![p] = IF pm_pc[p] = "undo" THEN pm_status[p] ELSE Dev!Ok]
    /\ snap' = dstate /\ undoFailed' = {}
    /\ UNCHANGED <<pm_devs, pm_devs_lock, dstate, dprev, cb_failed>>

\* PM_RESUME returns: 0 at the list head, or the status of the first
\* device whose callback failed (pm.c:245-253, no rollback), and the caller
\* goes on: the rest of suspend() (lines 1217-1226), or of the resume case
\* of check_events (lines 1326-1328).
ResumeReturned(p) ==
    /\ \/ Dev!SendAllDone(p) /\ UNCHANGED cb_failed
       \/ pm_req[p].rqst = PM_RESUME /\ Dev!SendAllVeto(p) /\ cb_failed' = TRUE
    /\ \/ Apm!SuspendResume(p)
       \/ p = Kapmd /\ Apm!ResumeNotify
-----------------------------------------------------------------------------
(* Drivers register and unregister devices at any time, under the lock.   *)
Driver ==
    /\ \/ \E d \in Devices : Dev!pm_register(d) \/ Dev!pm_unregister(d)
       \/ \E cb \in Callbacks : Dev!pm_unregister_all(cb)
    /\ UNCHANGED <<apmVars, cb_failed>>

Next ==
    \/ ApmStep
    \/ Driver
    \/ \E p \in Apm!Procs : \/ Down(p) \/ Walk(p) \/ SuspendVetoed(p)
                           \/ SuspendSlept(p) \/ ResumeReturned(p)

Spec == Init /\ [][Next]_vars

\* The holder of pm_devs_lock runs: its callbacks return and it reaches the
\* code after pm_send_all.  A process asleep in down() is woken by every
\* up() (the semaphore wakes a sleeper), so it is strongly fair.
Fairness ==
    \A p \in Apm!Procs :
        /\ SF_vars(Down(p))
        /\ WF_vars(Walk(p))
        /\ WF_vars(SuspendVetoed(p) \/ SuspendSlept(p) \/ ResumeReturned(p))

FairSpec == Spec /\ Fairness
-----------------------------------------------------------------------------
(* Properties.                                                             *)

\* Devices settled before the machine sleeps (spec sections 4.2 and 4.5):
\* when suspend() makes the BIOS call, either its PM_SUSPEND walk reached
\* the list head and every registered device with a callback is suspended,
\* or a driver vetoed a critical suspend (apm.c:1200-1203, which sleeps
\* anyway) and pm_undo_all has put every device back as it was when the
\* walk began, except one whose undo callback failed.  A vetoable suspend
\* never sleeps after a veto, and the machine never sleeps with a partly
\* suspended set.  It rests on the lock: pm_register, pm_unregister and the
\* other process's broadcasts wait on pm_devs_lock while the walk sleeps
\* in callbacks, and nothing runs between pm_send_all's return and the
\* BIOS call.
SleepsWithDevicesSettled ==
    [][\A p \in Apm!Procs :
         pc[p] \in SuspendCall /\ pc'[p] \in {"resume", "rel_resume"} =>
            IF pm_pc[p] = "send"
            THEN \A d \in Dev!Registered : Callback[d] # NoCallback => dstate[d] # 0
            ELSE /\ pc[p] = "crit_suspend"
                 /\ \A d \in Dev!Registered \ undoFailed : dstate[d] = snap[d]
      ]_vars

\* Devices up again (spec section 4.5): once no suspend() and no resume
\* notification is in progress, every registered device is running, as
\* long as no PM_RESUME callback and no rollback callback has failed (the
\* spec leaves the state after such a failure open).  Every suspend()
\* ends either with pm_undo_all or with a PM_RESUME walk, including one
\* whose BIOS call failed, and two suspend() calls, a veto and a driver's
\* pm_register in between do not leave a device behind.
AwakeAfterSuspend ==
    (Apm!InSuspend = {} /\ pc[Kapmd] # "resume_ev" /\ ~cb_failed)
        => \A d \in Dev!Registered : dstate[d] = 0

\* Every pm_send_all returns (pm.c's comment at lines 223-227: no one else
\* may take pm_devs_lock until the callbacks complete): a process that
\* calls it from suspend() or check_events eventually gets past it, even
\* when kapmd, a client and drivers wait on the lock in turn; every return
\* path of pm_send_all and pm_undo_all gives the lock back.
CallsReturn == \A p \in Apm!Procs : pc[p] \in CallPcs ~> pc[p] \notin CallPcs
=============================================================================
