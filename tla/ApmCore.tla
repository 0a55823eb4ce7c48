------------------------------ MODULE ApmCore ------------------------------
(***************************************************************************)
(* The APM front end of arch/i386/kernel/apm.c: the clients of             *)
(* /dev/apm_bios (struct apm_user on user_list) with their event queues    *)
(* and pending counters, the global suspends_pending/standbys_pending, and *)
(* the kapmd thread that polls the BIOS (check_events) and runs suspend()  *)
(* and standby().  Clients run do_open, do_read, do_ioctl and do_release.  *)
(*                                                                         *)
(* The kernel is uniprocessor and not preemptive (apm_mainloop runs only  *)
(* when smp_num_cpus == 1), so the code between two sleeps is one step.    *)
(* suspend() sleeps inside pm_send_all (on pm_devs_lock and in device      *)
(* callbacks) twice: it is split at those calls.  pm_send_all itself is    *)
(* atomic (PmDevices implements PmAtomic); only its result matters here:   *)
(* a PM_SUSPEND may be vetoed.  The BIOS is the environment: it reports    *)
(* notifications in any order, and a resume notification after the        *)
(* machine was suspended or put in standby.                               *)
(***************************************************************************)
EXTENDS Naturals, Sequences, FiniteSets, SequencesExt

CONSTANTS
    Clients,        \* processes that may open /dev/apm_bios
    Privileged,     \* opened by root for writing (as->suser && as->writer)
    Readers,        \* opened for reading (as->reader)
    Kapmd,          \* the kapmd thread
    APM_MAX_EVENTS, \* ring slots per client; the ring holds one fewer
    BiosEvents,     \* notifications the BIOS may raise on its own
    MaxBiosEvents,  \* bound: number of such notifications
    MaxIoctls       \* bound: number of APM_IOC_SUSPEND/STANDBY calls

ASSUME /\ Privileged \subseteq Clients /\ Readers \subseteq Clients
       /\ Kapmd \notin Clients
       /\ APM_MAX_EVENTS \in Nat \ {0, 1}
       /\ MaxBiosEvents \in Nat /\ MaxIoctls \in Nat

Events == {"SYS_STANDBY", "SYS_SUSPEND", "NORMAL_RESUME", "CRITICAL_RESUME",
           "LOW_BATTERY", "POWER_STATUS_CHANGE", "UPDATE_TIME",
           "CRITICAL_SUSPEND", "USER_STANDBY", "USER_SUSPEND",
           "STANDBY_RESUME", "CAPABILITY_CHANGE"}
SuspendKinds == {"SYS_SUSPEND", "USER_SUSPEND"}
StandbyKinds == {"SYS_STANDBY", "USER_STANDBY"}
ResumeKinds  == {"NORMAL_RESUME", "CRITICAL_RESUME", "STANDBY_RESUME"}
ASSUME BiosEvents \subseteq Events \ ResumeKinds

Capacity == APM_MAX_EVENTS - 1      \* see ApmEventQueue
Procs == Clients \cup {Kapmd}
NoSender == Kapmd                   \* queue_event(event, NULL)

\* Where a process is.  kapmd: sleeping in apm_mainloop, in check_events,
\* in suspend() before pm_send_all(PM_SUSPEND) (vetoable or critical),
\* before its pm_send_all(PM_RESUME), or before the pm_send_all(PM_RESUME)
\* of a resume notification.  A client: closed, in user space, blocked in
\* APM_IOC_SUSPEND, or in suspend() called from do_ioctl or do_release.
KapmdPcs  == {"sleep", "check", "suspend", "crit_suspend", "resume", "resume_ev"}
ClientPcs == {"closed", "open", "wait", "suspend", "resume", "rel_suspend",
              "rel_resume"}
SuspendPcs == {"suspend", "crit_suspend", "rel_suspend", "resume", "rel_resume"}

VARIABLES
    users,                \* user_list
    pc,                   \* per process, see above
    queue,                \* per client: its queued events, oldest first
    as_suspends_pending,  \* as->suspends_pending
    as_standbys_pending,  \* as->standbys_pending
    suspends_read,        \* as->suspends_read
    standbys_read,        \* as->standbys_read
    suspend_wait,         \* as->suspend_wait
    suspends_pending, standbys_pending,
    waiting_for_resume, ignore_normal_resume,
    ignore_bounce,        \* check_events' static ignore_bounce
    bounce_elapsed,       \* jiffies - last_resume > bounce_interval
    kevent,               \* the resume notification kapmd is handling
    bios_notes,           \* resume notifications the BIOS holds
    bios_budget, ioctl_budget,
    echo_due,             \* history: suspend() will announce the resume
                          \* the BIOS reports as NORMAL_RESUME
    bios_refused          \* history: apm_set_power_state(SUSPEND) failed
                          \* since waiting_for_resume was last written

vars == <<users, pc, queue, as_suspends_pending, as_standbys_pending,
          suspends_read, standbys_read, suspend_wait,
          suspends_pending, standbys_pending, waiting_for_resume,
          ignore_normal_resume, ignore_bounce, bounce_elapsed,
          kevent, bios_notes, bios_budget, ioctl_budget,
          echo_due, bios_refused>>

TypeOK ==
    /\ users \subseteq Clients
    /\ pc \in [Procs -> KapmdPcs \cup ClientPcs] /\ pc[Kapmd] \in KapmdPcs
    /\ \A c \in Clients : pc[c] \in ClientPcs /\ (pc[c] = "closed" <=> c \notin users)
    /\ queue \in [Clients -> Seq(Events)]
    /\ \A c \in Clients : Len(queue[c]) <= Capacity
    /\ as_suspends_pending \in [Clients -> Nat]
    /\ as_standbys_pending \in [Clients -> Nat]
    /\ suspends_read \in [Clients -> Nat] /\ standbys_read \in [Clients -> Nat]
    /\ suspend_wait \in [Clients -> BOOLEAN]
    /\ suspends_pending \in Int /\ standbys_pending \in Int
    /\ waiting_for_resume \in BOOLEAN /\ ignore_normal_resume \in BOOLEAN
    /\ ignore_bounce \in BOOLEAN /\ bounce_elapsed \in BOOLEAN
    /\ kevent \in ResumeKinds
    /\ bios_notes \subseteq ResumeKinds
    /\ bios_budget \in 0 .. MaxBiosEvents /\ ioctl_budget \in 0 .. MaxIoctls
    /\ echo_due \in BOOLEAN /\ bios_refused \in BOOLEAN

Init ==
    /\ users = {}
    /\ pc = [p \in Procs |-> IF p = Kapmd THEN "sleep" ELSE "closed"]
    /\ queue = [c \in Clients |-> << >>]
    /\ as_suspends_pending = [c \in Clients |-> 0]
    /\ as_standbys_pending = [c \in Clients |-> 0]
    /\ suspends_read = [c \in Clients |-> 0]
    /\ standbys_read = [c \in Clients |-> 0]
    /\ suspend_wait = [c \in Clients |-> FALSE]
    /\ suspends_pending = 0 /\ standbys_pending = 0
    /\ waiting_for_resume = FALSE /\ ignore_normal_resume = FALSE
    /\ ignore_bounce = FALSE /\ bounce_elapsed = FALSE
    /\ kevent = "NORMAL_RESUME"
    /\ bios_notes = {}
    /\ bios_budget = MaxBiosEvents /\ ioctl_budget = MaxIoctls
    /\ echo_due = FALSE /\ bios_refused = FALSE
-----------------------------------------------------------------------------
(* Helpers shared by several handlers.                                     *)

\* Events pushed on a full queue drop the oldest (ApmEventQueue).
Push(q, e) == IF Len(q) = Capacity THEN Append(Tail(q), e) ELSE Append(q, e)

Count(q, K) == Cardinality({i \in DOMAIN q : q[i] \in K})

\* queue_event (lines 1104-1139): every reader except the sender gets the
\* event; for every privileged one a suspend or standby event also counts
\* as pending, for it and globally.
QueueEvent(e, sender) ==
    LET recv    == {c \in users \ {sender} : c \in Readers}
        counted == recv \cap Privileged
        n       == Cardinality(counted)
    IN /\ queue' = [c \in Clients |-> IF c \in recv THEN Push(queue[c], e) ELSE queue[c]]
       /\ as_suspends_pending' =
            [c \in Clients |-> as_suspends_pending[c]
                                 + (IF c \in counted /\ e \in SuspendKinds THEN 1 ELSE 0)]
       /\ as_standbys_pending' =
            [c \in Clients |-> as_standbys_pending[c]
                                 + (IF c \in counted /\ e \in StandbyKinds THEN 1 ELSE 0)]
       /\ suspends_pending' = suspends_pending + (IF e \in SuspendKinds THEN n ELSE 0)
       /\ standbys_pending' = standbys_pending + (IF e \in StandbyKinds THEN n ELSE 0)

QueueVars == <<queue, as_suspends_pending, as_standbys_pending,
               suspends_pending, standbys_pending>>

\* standby() (lines 1229-1238) when called: the BIOS puts the machine in
\* standby or fails; if it did, it will report STANDBY_RESUME.
StandbyIf(notes, called) ==
    \E ok \in BOOLEAN :
        bios_notes' = IF called /\ ok THEN notes \cup {"STANDBY_RESUME"} ELSE notes

\* A mutant of SuspendOut that wakes nobody.
SuspendOutNoWake ==
    /\ UNCHANGED suspend_wait
    /\ ignore_normal_resume' = TRUE

\* The `out:` block of suspend() (lines 1219-1225): every client is woken
\* (the err it is given, as->suspend_result, is not modelled).
SuspendOut ==
    /\ suspend_wait' = [c \in Clients |-> IF c \in users THEN FALSE ELSE suspend_wait[c]]
    /\ ignore_normal_resume' = TRUE

\* Where a process goes when suspend() returns.
AfterSuspend(p) ==
    CASE p = Kapmd                              -> "check"
      [] pc[p] \in {"rel_suspend", "rel_resume"} -> "closed"
      [] OTHER                                   -> "open"

\* A mutant of Unlink that leaves the apm_user on user_list.
UnlinkNever(p) == users' = users

\* The end of do_release (lines 1523-1539) when suspend() was called there:
\* unlink, kfree.
Unlink(p) ==
    users' = IF pc[p] \in {"rel_suspend", "rel_resume"} THEN users \ {p} ELSE users
-----------------------------------------------------------------------------
(* suspend(vetoable), lines 1188-1227, from the call of                    *)
(* pm_send_all(PM_SUSPEND) to that of pm_send_all(PM_RESUME), and from     *)
(* there to the return.                                                    *)

\* Mutation: the veto path of suspend() without `waiting_for_resume = 0'.
SuspendVetoKeepsWaiting(p) ==
    /\ pc[p] \in {"suspend", "rel_suspend"}
    /\ SuspendOut
    /\ pc' = [pc EXCEPT ![p] = AfterSuspend(p)]
    /\ Unlink(p)
    /\ UNCHANGED <<QueueVars, suspends_read, standbys_read, ignore_bounce,
                   bounce_elapsed, kevent, bios_notes, bios_budget,
                   ioctl_budget, echo_due, waiting_for_resume, bios_refused>>

\* pm_send_all(PM_SUSPEND, 3) returns a veto to a vetoable suspend()
\* (lines 1193-1200): waiting_for_resume is cleared and `goto out'.
SuspendVeto(p) ==
    /\ pc[p] \in {"suspend", "rel_suspend"}
    /\ waiting_for_resume' = FALSE /\ bios_refused' = FALSE
    /\ SuspendOut
    /\ pc' = [pc EXCEPT ![p] = AfterSuspend(p)]
    /\ Unlink(p)
    /\ UNCHANGED <<QueueVars, suspends_read, standbys_read, ignore_bounce,
                   bounce_elapsed, kevent, bios_notes, bios_budget,
                   ioctl_budget, echo_due>>

\* Mutation: suspend() that, when the BIOS call fails, goes to `out' without
\* the PM_RESUME broadcast.
SuspendBiosErrOut(p) ==
    /\ pc[p] \in {"suspend", "crit_suspend", "rel_suspend"}
    /\ \E err \in {"0", "EIO"} :
         IF err = "0"
         THEN /\ bios_notes' = bios_notes \cup {IF pc[p] = "crit_suspend"
                                                THEN "CRITICAL_RESUME" ELSE "NORMAL_RESUME"}
              /\ echo_due' = (echo_due \/ pc[p] # "crit_suspend")
              /\ pc' = [pc EXCEPT ![p] = IF @ = "rel_suspend" THEN "rel_resume" ELSE "resume"]
              /\ UNCHANGED <<users, suspend_wait, ignore_normal_resume, bios_refused>>
         ELSE /\ SuspendOut
              /\ pc' = [pc EXCEPT ![p] = AfterSuspend(p)]
              /\ Unlink(p)
              /\ bios_refused' = TRUE
              /\ UNCHANGED <<bios_notes, echo_due>>
    /\ UNCHANGED <<QueueVars, suspends_read, standbys_read,
                   waiting_for_resume, ignore_bounce,
                   bounce_elapsed, kevent, bios_budget, ioctl_budget>>

\* pm_send_all(PM_SUSPEND, 3) returns 0, or a veto to suspend(0) ("suspending
\* anyway", line 1203): the BIOS suspends the machine (get_time_diff,
\* set_power_state, set_time, lines 1205-1215) and comes back with err; a
\* suspended machine later reports its resume.  suspend() goes on to
\* pm_send_all(PM_RESUME).
SuspendBios(p) ==
    /\ pc[p] \in {"suspend", "crit_suspend", "rel_suspend"}
    /\ \E err \in {"0", "EIO"} :
         /\ bios_notes' =
              IF err = "0"
              THEN bios_notes \cup {IF pc[p] = "crit_suspend"
                                    THEN "CRITICAL_RESUME" ELSE "NORMAL_RESUME"}
              ELSE bios_notes
         /\ echo_due' = (echo_due \/ (err = "0" /\ pc[p] # "crit_suspend"))
         /\ bios_refused' = (bios_refused \/ err = "EIO")
    /\ pc' = [pc EXCEPT ![p] = IF @ = "rel_suspend" THEN "rel_resume" ELSE "resume"]
    /\ UNCHANGED <<users, QueueVars, suspends_read, standbys_read, suspend_wait,
                   waiting_for_resume, ignore_normal_resume, ignore_bounce,
                   bounce_elapsed, kevent, bios_budget, ioctl_budget>>

\* pm_send_all(PM_SUSPEND) returns, with its result left open: a critical
\* suspend() goes on whatever the result.
SuspendSend(p) == SuspendVeto(p) \/ SuspendBios(p)

\* pm_send_all(PM_RESUME, 0) returns; clients get NORMAL_RESUME; the BIOS's
\* own NORMAL_RESUME is to be ignored; everyone waiting is woken.
SuspendResume(p) ==
    /\ pc[p] \in {"resume", "rel_resume"}
    /\ QueueEvent("NORMAL_RESUME", NoSender)
    /\ SuspendOut
    /\ pc' = [pc EXCEPT ![p] = AfterSuspend(p)]
    /\ Unlink(p)
    /\ UNCHANGED <<suspends_read, standbys_read, waiting_for_resume,
                   ignore_bounce, bounce_elapsed, kevent,
                   bios_notes, bios_budget, ioctl_budget, echo_due,
                   bios_refused>>
-----------------------------------------------------------------------------
(* kapmd: apm_mainloop, apm_event_handler and check_events.                *)

\* schedule_timeout returns and apm_event_handler runs (lines 1352-1369);
\* pending_count and the BUSY call it paces only tell the BIOS to wait
\* and are left out.
Poll ==
    /\ pc[Kapmd] = "sleep"
    /\ pc' = [pc EXCEPT ![Kapmd] = "check"]
    /\ UNCHANGED <<users, QueueVars, suspends_read, standbys_read, suspend_wait,
                   waiting_for_resume, ignore_normal_resume,
                   ignore_bounce, bounce_elapsed, kevent, bios_notes, bios_budget,
                   ioctl_budget, echo_due,
                   bios_refused>>

\* bounce_interval jiffies pass after the last resume.
Tick ==
    /\ ignore_bounce /\ ~bounce_elapsed
    /\ bounce_elapsed' = TRUE
    /\ UNCHANGED <<users, pc, QueueVars, suspends_read, standbys_read,
                   suspend_wait, waiting_for_resume,
                   ignore_normal_resume, ignore_bounce, kevent,
                   bios_notes, bios_budget, ioctl_budget, echo_due,
                   bios_refused>>

\* get_event returns 0: check_events returns, kapmd sleeps.
NoEvent ==
    /\ pc[Kapmd] = "check"
    /\ pc' = [pc EXCEPT ![Kapmd] = "sleep"]
    /\ UNCHANGED <<users, QueueVars, suspends_read, standbys_read, suspend_wait,
                   waiting_for_resume, ignore_normal_resume,
                   ignore_bounce, bounce_elapsed, kevent,
                   bios_notes, bios_budget, ioctl_budget, echo_due,
                   bios_refused>>

\* get_event returns e: a resume notification the BIOS holds, or one of
\* the notifications it raises on its own.
Available(e) == e \in bios_notes \/ (e \in BiosEvents /\ bios_budget > 0)
Taken(e) == bios_notes \ {e}
TakeBudget(e) == bios_budget' = IF e \in ResumeKinds THEN bios_budget ELSE bios_budget - 1

\* One pass of the while loop of check_events (lines 1264-1349) for event e,
\* up to the next sleep.  Every case starts with the two ifs of lines
\* 1274-1278: ignore_bounce lapses after bounce_interval, and any event but
\* NORMAL_RESUME ends ignore_normal_resume.
GetEvent(e) ==
    /\ pc[Kapmd] = "check"
    /\ Available(e)
    /\ TakeBudget(e)
IgnoreBounce == ignore_bounce /\ ~bounce_elapsed
IgnoreNormalResume(e) == ignore_normal_resume /\ e = "NORMAL_RESUME"
Prelude(e) == ignore_bounce' = IgnoreBounce /\ ignore_normal_resume' = IgnoreNormalResume(e)

\* APM_SYS_STANDBY, APM_USER_STANDBY.
CheckStandby(e) ==
    /\ e \in StandbyKinds
    /\ GetEvent(e) /\ Prelude(e)
    /\ QueueEvent(e, NoSender)
    /\ StandbyIf(Taken(e), standbys_pending' <= 0)
    /\ UNCHANGED <<users, pc, suspends_read, standbys_read, suspend_wait,
                   waiting_for_resume, bounce_elapsed,
                   kevent, ioctl_budget, echo_due,
                   bios_refused>>

\* APM_USER_SUSPEND (CONFIG_APM_IGNORE_USER_SUSPEND unset), APM_SYS_SUSPEND:
\* rejected within the bounce interval; while waiting for a resume,
\* check_events returns; otherwise clients are told and, if none is
\* privileged, suspend(1) is called.
CheckSuspend(e) ==
    /\ e \in SuspendKinds
    /\ GetEvent(e) /\ Prelude(e)
    /\ bios_notes' = Taken(e)
    /\ \/ /\ IgnoreBounce
          /\ UNCHANGED <<pc, waiting_for_resume, QueueVars, bios_refused>>
       \/ /\ ~IgnoreBounce /\ waiting_for_resume
          /\ pc' = [pc EXCEPT ![Kapmd] = "sleep"]
          /\ UNCHANGED <<waiting_for_resume, QueueVars, bios_refused>>
       \/ /\ ~IgnoreBounce /\ ~waiting_for_resume
          /\ waiting_for_resume' = TRUE /\ bios_refused' = FALSE
          /\ QueueEvent(e, NoSender)
          /\ pc' = [pc EXCEPT ![Kapmd] = IF suspends_pending' <= 0 THEN "suspend"
                                                                    ELSE "check"]
    /\ UNCHANGED <<users, suspends_read, standbys_read, suspend_wait,
                   bounce_elapsed, kevent,
                   ioctl_budget, echo_due>>

\* APM_NORMAL_RESUME, APM_CRITICAL_RESUME, APM_STANDBY_RESUME: unless it is
\* the NORMAL_RESUME suspend() said to ignore, pm_send_all(PM_RESUME) is
\* called (kapmd sleeps in it, at "resume_ev").  echo_due is history: the
\* BIOS's NORMAL_RESUME of a suspend() has now been seen.
CheckResume(e) ==
    /\ e \in ResumeKinds
    /\ GetEvent(e)
    /\ bios_notes' = Taken(e)
    /\ waiting_for_resume' = FALSE /\ bios_refused' = FALSE
    /\ ignore_bounce' = TRUE /\ bounce_elapsed' = FALSE
    /\ IF IgnoreNormalResume(e)
       THEN /\ ignore_normal_resume' = FALSE
            /\ UNCHANGED <<pc, kevent>>
       ELSE /\ ignore_normal_resume' = FALSE
            /\ kevent' = e
            /\ pc' = [pc EXCEPT ![Kapmd] = "resume_ev"]
    /\ echo_due' = (echo_due /\ e # "NORMAL_RESUME")
    /\ UNCHANGED <<users, QueueVars, suspends_read, standbys_read, suspend_wait,
                   ioctl_budget>>

\* pm_send_all(PM_RESUME) of a resume notification returns: clients are told.
ResumeNotify ==
    /\ pc[Kapmd] = "resume_ev"
    /\ QueueEvent(kevent, NoSender)
    /\ ignore_normal_resume' = FALSE
    /\ pc' = [pc EXCEPT ![Kapmd] = "check"]
    /\ UNCHANGED <<users, suspends_read, standbys_read, suspend_wait,
                   waiting_for_resume, ignore_bounce,
                   bounce_elapsed, kevent, bios_notes, bios_budget,
                   ioctl_budget, echo_due,
                   bios_refused>>

\* APM_CAPABILITY_CHANGE, APM_LOW_BATTERY, APM_POWER_STATUS_CHANGE are
\* passed to clients; APM_UPDATE_TIME only sets the clock; after
\* APM_CRITICAL_SUSPEND suspend(0) is called.
CheckOther(e) ==
    /\ e \in {"CAPABILITY_CHANGE", "LOW_BATTERY", "POWER_STATUS_CHANGE",
              "UPDATE_TIME", "CRITICAL_SUSPEND"}
    /\ GetEvent(e) /\ Prelude(e)
    /\ bios_notes' = Taken(e)
    /\ IF e = "UPDATE_TIME" \/ e = "CRITICAL_SUSPEND"
       THEN UNCHANGED QueueVars
       ELSE QueueEvent(e, NoSender)
    /\ pc' = IF e = "CRITICAL_SUSPEND" THEN [pc EXCEPT ![Kapmd] = "crit_suspend"]
                                      ELSE pc
    /\ UNCHANGED <<users, suspends_read, standbys_read, suspend_wait,
                   waiting_for_resume, bounce_elapsed,
                   kevent, ioctl_budget, echo_due,
                   bios_refused>>
-----------------------------------------------------------------------------
(* Clients of /dev/apm_bios.                                               *)

\* do_open (lines 1542-1570): a zeroed apm_user at the head of user_list.
Open(c) ==
    /\ pc[c] = "closed"
    /\ users' = users \cup {c}
    /\ pc' = [pc EXCEPT ![c] = "open"]
    /\ queue' = [queue EXCEPT ![c] = << >>]
    /\ as_suspends_pending' = [as_suspends_pending EXCEPT ![c] = 0]
    /\ as_standbys_pending' = [as_standbys_pending EXCEPT ![c] = 0]
    /\ suspends_read' = [suspends_read EXCEPT ![c] = 0]
    /\ standbys_read' = [standbys_read EXCEPT ![c] = 0]
    /\ suspend_wait' = [suspend_wait EXCEPT ![c] = FALSE]
    /\ UNCHANGED <<suspends_pending, standbys_pending, waiting_for_resume,
                   ignore_normal_resume, ignore_bounce, bounce_elapsed,
                   kevent, bios_notes, bios_budget, ioctl_budget,
                   echo_due,
                   bios_refused>>

\* do_read (lines 1405-1446) of one event once the queue is not empty: the
\* event is taken off the queue, then copied to the user; suspend and
\* standby events are counted as read only if copy_to_user succeeded (on a
\* fault the loop breaks or returns -EFAULT with the event gone).
Read(c) ==
    /\ pc[c] = "open"
    /\ queue[c] # << >>
    /\ \E copied \in BOOLEAN :
       LET e == Head(queue[c]) IN
       /\ queue' = [queue EXCEPT ![c] = Tail(@)]
       /\ suspends_read' = [suspends_read EXCEPT ![c] =
                               @ + (IF copied /\ e \in SuspendKinds THEN 1 ELSE 0)]
       /\ standbys_read' = [standbys_read EXCEPT ![c] =
                               @ + (IF copied /\ e \in StandbyKinds THEN 1 ELSE 0)]
    /\ UNCHANGED <<users, pc, as_suspends_pending, as_standbys_pending,
                   suspend_wait, suspends_pending,
                   standbys_pending, waiting_for_resume, ignore_normal_resume,
                   ignore_bounce, bounce_elapsed, kevent,
                   bios_notes, bios_budget, ioctl_budget, echo_due,
                   bios_refused>>

\* do_ioctl APM_IOC_STANDBY (lines 1472-1481): acknowledge a standby event
\* read before, or else ask for a standby; standby() if nobody is pending.
IoctlStandby(c) ==
    /\ pc[c] = "open" /\ c \in Privileged
    /\ ioctl_budget > 0 /\ ioctl_budget' = ioctl_budget - 1
    /\ IF standbys_read[c] > 0
       THEN /\ standbys_read' = [standbys_read EXCEPT ![c] = @ - 1]
            /\ as_standbys_pending' = [as_standbys_pending EXCEPT ![c] = @ - 1]
            /\ standbys_pending' = standbys_pending - 1
            /\ UNCHANGED <<queue, as_suspends_pending, suspends_pending>>
       ELSE /\ QueueEvent("USER_STANDBY", c)
            /\ UNCHANGED standbys_read
    /\ StandbyIf(bios_notes, standbys_pending' <= 0)
    /\ UNCHANGED <<users, pc, suspends_read, suspend_wait,
                   waiting_for_resume, ignore_normal_resume, ignore_bounce,
                   bounce_elapsed, kevent, bios_budget, echo_due,
                   bios_refused>>

\* do_ioctl APM_IOC_SUSPEND (lines 1482-1497): acknowledge a suspend event
\* read before, or else ask for a suspend; suspend(1) if nobody is pending,
\* or else sleep until a suspend() clears suspend_wait.
IoctlSuspend(c) ==
    /\ pc[c] = "open" /\ c \in Privileged
    /\ ioctl_budget > 0 /\ ioctl_budget' = ioctl_budget - 1
    /\ IF suspends_read[c] > 0
       THEN /\ suspends_read' = [suspends_read EXCEPT ![c] = @ - 1]
            /\ as_suspends_pending' = [as_suspends_pending EXCEPT ![c] = @ - 1]
            /\ suspends_pending' = suspends_pending - 1
            /\ UNCHANGED <<queue, as_standbys_pending, standbys_pending>>
       ELSE /\ QueueEvent("USER_SUSPEND", c)
            /\ UNCHANGED suspends_read
    /\ IF suspends_pending' <= 0
       THEN /\ pc' = [pc EXCEPT ![c] = "suspend"]
            /\ UNCHANGED suspend_wait
       ELSE /\ pc' = [pc EXCEPT ![c] = "wait"]
            /\ suspend_wait' = [suspend_wait EXCEPT ![c] = TRUE]
    /\ UNCHANGED <<users, standbys_read, waiting_for_resume,
                   ignore_normal_resume, ignore_bounce, bounce_elapsed,
                   kevent, bios_notes, bios_budget, echo_due,
                   bios_refused>>

\* wait_event_interruptible returns (lines 1493-1495) once suspend_wait
\* was cleared, or on a signal with suspend_wait still set; either way
\* as->suspend_result is returned.
IoctlReturn(c) ==
    /\ pc[c] = "wait"
    /\ pc' = [pc EXCEPT ![c] = "open"]
    /\ UNCHANGED <<users, QueueVars, suspends_read, standbys_read, suspend_wait,
                   waiting_for_resume, ignore_normal_resume,
                   ignore_bounce, bounce_elapsed, kevent,
                   bios_notes, bios_budget, ioctl_budget, echo_due,
                   bios_refused>>
IoctlWoken(c)    == ~suspend_wait[c] /\ IoctlReturn(c)
IoctlSignalled(c) == suspend_wait[c] /\ IoctlReturn(c)

\* do_release (lines 1504-1540): the client's pending counts are taken off
\* the global ones, then standby() and suspend(1) if nobody else is
\* pending; the apm_user is unlinked only after suspend(1) returns.
Release(c) ==
    /\ pc[c] = "open"
    /\ LET sb == standbys_pending - as_standbys_pending[c]
           sp == suspends_pending - as_suspends_pending[c]
       IN /\ standbys_pending' = IF as_standbys_pending[c] > 0 THEN sb ELSE standbys_pending
          /\ StandbyIf(bios_notes, as_standbys_pending[c] > 0 /\ sb <= 0)
          /\ suspends_pending' = IF as_suspends_pending[c] > 0 THEN sp ELSE suspends_pending
          /\ IF as_suspends_pending[c] > 0 /\ sp <= 0
             THEN /\ pc' = [pc EXCEPT ![c] = "rel_suspend"]
                  /\ UNCHANGED users
             ELSE /\ pc' = [pc EXCEPT ![c] = "closed"]
                  /\ users' = users \ {c}
    /\ UNCHANGED <<queue, as_suspends_pending, as_standbys_pending, suspends_read,
                   standbys_read, suspend_wait,
                   waiting_for_resume, ignore_normal_resume, ignore_bounce,
                   bounce_elapsed, kevent, bios_budget,
                   ioctl_budget, echo_due,
                   bios_refused>>
-----------------------------------------------------------------------------
Next ==
    \/ Poll \/ Tick \/ NoEvent \/ ResumeNotify
    \/ \E e \in Events : CheckStandby(e) \/ CheckSuspend(e) \/ CheckResume(e)
                         \/ CheckOther(e)
    \/ \E p \in Procs : SuspendSend(p) \/ SuspendResume(p)
    \/ \E c \in Clients : \/ Open(c) \/ Read(c) \/ IoctlStandby(c)
                          \/ IoctlSuspend(c) \/ IoctlWoken(c) \/ IoctlSignalled(c)
                          \/ Release(c)

Spec == Init /\ [][Next]_vars
-----------------------------------------------------------------------------
(* Properties.                                                             *)

InSuspend == {p \in Procs : pc[p] \in SuspendPcs}

\* A client blocked in APM_IOC_SUSPEND with suspend_wait set is woken only
\* by the out: loop of suspend().  So while it waits, either some client
\* still holds a suspend event it has not acknowledged (the suspend is
\* deferred) or a suspend() is running and will wake it: it is never left
\* waiting for a suspend nobody will run.
NoLostWakeup ==
    \A c \in Clients :
        pc[c] = "wait" /\ suspend_wait[c] => suspends_pending > 0 \/ InSuspend # {}

\* The clients whose pending counts do_release has not yet subtracted.
Connected == {c \in users : pc[c] \notin {"rel_suspend", "rel_resume"}}

\* Counter conservation (spec section 8): the global suspends_pending and
\* standbys_pending are the sums of the connected clients' own counts;
\* do_release subtracts a client's counts when it starts.
CounterConservation ==
    /\ suspends_pending = SumFunctionOnSet(as_suspends_pending, Connected)
    /\ standbys_pending = SumFunctionOnSet(as_standbys_pending, Connected)

\* suspend(1) puts the machine to sleep (rather than reporting a veto) only
\* while no client holds an unacknowledged suspend event: spec section 4.5
\* says send_all(Suspend) runs only if the global counter is <= 0.
SuspendOnlyWhenAcked ==
    [][\A p \in Procs :
         pc[p] \in {"suspend", "rel_suspend"} /\ pc'[p] \in {"resume", "rel_resume"}
            => suspends_pending <= 0]_vars

\* The NORMAL_RESUME the BIOS reports after a suspend() that already
\* resumed the devices and told the clients is an echo: check_events never
\* calls pm_send_all(PM_RESUME) for it again (spec section 4.5).
NoDuplicateResume ==
    [][pc[Kapmd] = "check" /\ pc'[Kapmd] = "resume_ev" /\ kevent' = "NORMAL_RESUME"
         => ~echo_due]_vars

\* At most one suspend() runs at a time: kapmd's check_events does not
\* start one while waiting_for_resume, and a client's APM_IOC_SUSPEND is to
\* wait while a suspend is outstanding (spec section 4.5: while
\* WaitingForResume further suspend requests are ignored; section 5: the
\* orchestrator serializes suspends).  Two overlapping suspend() calls put
\* the machine to sleep twice, the second right after the first resume.
SingleSuspend == Cardinality(InSuspend) <= 1

\* check_events sets waiting_for_resume for a SYS_SUSPEND and from then on
\* returns at every further suspend request until a resume clears it
\* (lines 1303-1306, 1311); only suspend()'s veto path and a BIOS resume
\* clear it.  So while it is set, something is still to clear it: a
\* suspend() under way, clients yet to acknowledge the event (their last
\* APM_IOC_SUSPEND or close runs suspend()), or a resume the BIOS holds.
\* The exception is a suspend() whose apm_set_power_state call failed
\* (line 1215): it resumes the devices and returns -EIO with the flag still
\* set, no resume ever comes, and every later BIOS suspend request is
\* dropped; spec section 4.5 says the driver is then to remain Idle.
ResumeExpected ==
    waiting_for_resume =>
        \/ InSuspend # {}
        \/ suspends_pending > 0
        \/ bios_notes \cap ResumeKinds # {}
        \/ bios_refused
=============================================================================
