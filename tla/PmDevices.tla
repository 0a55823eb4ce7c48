----------------------------- MODULE PmDevices -----------------------------
(***************************************************************************)
(* The generic power-management dispatcher of kernel/pm.c: the list of    *)
(* registered devices (pm_devs) guarded by the semaphore pm_devs_lock,     *)
(* pm_send to one device, and pm_send_all, which walks the list under the  *)
(* lock and, when a device vetoes a PM_SUSPEND, walks back with            *)
(* pm_undo_all restoring every earlier device.  Callbacks may sleep, so a  *)
(* broadcast is a sequence of steps, one per device, and other callers and *)
(* drivers interleave with it, blocked on pm_devs_lock.                    *)
(* The CONFIG_MIZI variants pm_send_all_type/_tweak/_target are the same   *)
(* walk restricted to a selection of devices.                              *)
(***************************************************************************)
EXTENDS Naturals, Sequences, SequencesExt

CONSTANTS
    Devices,       \* struct pm_dev instances (model values)
    Callers,       \* tasks that call pm_send_all (kapmd, a process in ioctl)
    Callbacks,     \* callback function pointers
    NoCallback,    \* the NULL callback
    Callback,      \* [Devices -> Callbacks \cup {NoCallback}]: dev->callback
    Types,         \* pm_dev_t values
    DevType,       \* [Devices -> Types]: dev->type
    PowerStates,   \* values of dev->state; 0 is running
    Selections,    \* which pm_send_all variants callers use (see Selected)
    Unlocked,      \* pm_devs_lock is free
    PM_UNKNOWN_DEV, \* the pm_dev_t that pm_find matches with every type
    PM_SUSPEND, PM_RESUME, PM_OTHER   \* pm_request_t; PM_OTHER: any other

ASSUME /\ Callback \in [Devices -> Callbacks \cup {NoCallback}]
       /\ DevType \in [Devices -> Types]
       /\ 0 \in PowerStates
       /\ Unlocked \notin Callers
       /\ PM_UNKNOWN_DEV \notin Types

Requests      == {PM_SUSPEND, PM_RESUME, PM_OTHER}
StateRequests == {PM_SUSPEND, PM_RESUME}
Ok            == "ok"   \* status 0; a failure is reported as the device that failed

\* The selections: "all" is pm_send_all; [type] is pm_send_all_type and
\* pm_send_all_tweak (identical code); [type, id] is pm_send_all_target.
AllSel     == [kind |-> "all"]
TypeSels   == [kind : {"type"}, type : Types]
TargetSels == [kind : {"target"}, type : Types, id : Devices]
ASSUME Selections \subseteq {AllSel} \cup TypeSels \cup TargetSels

\* pm_send_all_type line 278, pm_send_all_target line 330: the devices a walk
\* does not `continue` past.
Selected(sel, d) ==
    CASE sel.kind = "all"    -> TRUE
      [] sel.kind = "type"   -> DevType[d] = sel.type
      [] sel.kind = "target" -> DevType[d] = sel.type /\ d = sel.id

VARIABLES
    pm_devs,       \* the list, head first
    pm_devs_lock,  \* holder of the semaphore, or Unlocked
    dstate,        \* dev->state
    dprev,         \* dev->prev_state
    pc,            \* per caller: "idle", "send" (forward walk), "undo"
    cur,           \* per caller: position of `entry` in pm_devs
    req,           \* per caller: [rqst, data, sel] of the call in progress
    status,        \* per caller: the vetoing device while undoing
    ret,           \* per caller: value returned by its last pm_send_all
    snap,          \* history: dstate when the running broadcast took the lock
    undoFailed     \* history: devices whose undo callback failed in it

vars == <<pm_devs, pm_devs_lock, dstate, dprev, pc, cur, req, status, ret,
          snap, undoFailed>>

Registered == ToSet(pm_devs)

TypeOK ==
    /\ pm_devs \in Seq(Devices) /\ Len(pm_devs) = Cardinality(Registered)
    /\ pm_devs_lock \in Callers \cup {Unlocked}
    /\ dstate \in [Devices -> PowerStates]
    /\ dprev \in [Devices -> PowerStates]
    /\ pc \in [Callers -> {"idle", "send", "undo"}]
    /\ cur \in [Callers -> 0 .. Len(pm_devs) + 1]
    /\ req \in [Callers -> [rqst : Requests, data : PowerStates, sel : Selections]]
    /\ status \in [Callers -> Devices \cup {Ok}]
    /\ ret \in [Callers -> Devices \cup {Ok}]
    /\ undoFailed \subseteq Devices

Init ==
    /\ pm_devs = << >>
    /\ pm_devs_lock = Unlocked
    /\ dstate = [d \in Devices |-> 0]
    /\ dprev = [d \in Devices |-> 0]
    /\ pc = [p \in Callers |-> "idle"]
    /\ cur = [p \in Callers |-> 0]
    /\ req = [p \in Callers |-> [rqst |-> PM_OTHER, data |-> 0, sel |-> AllSel]]
    /\ status = [p \in Callers |-> Ok]
    /\ ret = [p \in Callers |-> Ok]
    /\ snap = dstate
    /\ undoFailed = {}
-----------------------------------------------------------------------------
(* pm_send (lines 157-188).  The callback runs for PM_SUSPEND/PM_RESUME     *)
(* only when the device is not already in the target state, and only when  *)
(* there is one; a call that does not run the callback returns 0.          *)
Invoked(d, r, s) ==
    Callback[d] # NoCallback /\ (r \in StateRequests => dstate[d] # s)

\* The statuses the call can return: TRUE is 0, FALSE a veto/error.
Outcomes(d, r, s) == IF Invoked(d, r, s) THEN BOOLEAN ELSE {TRUE}

\* Mutation: pm_send without line 179, prev_state not refreshed when the
\* device is already in the target state.
PmSendKeepsPrev(d, r, s, ok) ==
    IF r \in StateRequests /\ ok /\ dstate[d] # s
    THEN /\ dstate' = [dstate EXCEPT ![d] = s]
         /\ dprev' = [dprev EXCEPT ![d] = dstate[d]]
    ELSE UNCHANGED <<dstate, dprev>>

\* The state change of pm_send: on status 0 of a state request the device
\* moves to s and remembers where it was (also when it already was at s).
PmSend(d, r, s, ok) ==
    IF r \in StateRequests /\ ok
    THEN /\ dstate' = [dstate EXCEPT ![d] = s]
         /\ dprev' = [dprev EXCEPT ![d] = dstate[d]]
    ELSE UNCHANGED <<dstate, dprev>>

\* pm_undo_all line 202: resume a device that was running, re-suspend one
\* that was suspended, to its prev_state.
UndoRequest(d) == IF dprev[d] # 0 THEN PM_SUSPEND ELSE PM_RESUME
-----------------------------------------------------------------------------
(* Registration (lines 62-133): each is one step under pm_devs_lock, which *)
(* it can only take when no broadcast holds it.                            *)

\* Mutation: pm_register linking an entry that is already on the list.
pm_register_relink(d) ==
    /\ pm_devs_lock = Unlocked
    /\ pm_devs' = <<d>> \o pm_devs
    /\ dstate' = [dstate EXCEPT ![d] = 0]
    /\ dprev' = [dprev EXCEPT ![d] = 0]
    /\ UNCHANGED <<pm_devs_lock, pc, cur, req, status, ret, snap, undoFailed>>

\* Mutation: pm_register without down(&pm_devs_lock).
pm_register_unlocked(d) ==
    /\ d \notin Registered
    /\ pm_devs' = <<d>> \o pm_devs
    /\ dstate' = [dstate EXCEPT ![d] = 0]
    /\ dprev' = [dprev EXCEPT ![d] = 0]
    /\ UNCHANGED <<pm_devs_lock, pc, cur, req, status, ret, snap, undoFailed>>

\* pm_register: kmalloc + memset (state 0), list_add at the head.
pm_register(d) ==
    /\ d \notin Registered
    /\ pm_devs_lock = Unlocked
    /\ pm_devs' = <<d>> \o pm_devs
    /\ dstate' = [dstate EXCEPT ![d] = 0]
    /\ dprev' = [dprev EXCEPT ![d] = 0]
    /\ UNCHANGED <<pm_devs_lock, pc, cur, req, status, ret, snap, undoFailed>>

\* pm_unregister: list_del under the lock, then kfree.
pm_unregister(d) ==
    /\ d \in Registered
    /\ pm_devs_lock = Unlocked
    /\ pm_devs' = Remove(pm_devs, d)
    /\ UNCHANGED <<pm_devs_lock, dstate, dprev, pc, cur, req, status, ret,
                   snap, undoFailed>>

\* pm_unregister_all: every device with this callback, in one locked walk.
pm_unregister_all(cb) ==
    /\ pm_devs_lock = Unlocked
    /\ pm_devs' = SelectSeq(pm_devs, LAMBDA d : Callback[d] # cb)
    /\ UNCHANGED <<pm_devs_lock, dstate, dprev, pc, cur, req, status, ret,
                   snap, undoFailed>>
-----------------------------------------------------------------------------
(* pm_send_all and its typed variants (lines 236-347), one step per loop   *)
(* iteration.                                                              *)

\* down(&pm_devs_lock); entry = pm_devs.next.  apm.c sends PM_SUSPEND with
\* a non-zero state and PM_RESUME with 0.
SendAllBegin(p, r, s, sel) ==
    /\ pc[p] = "idle"
    /\ pm_devs_lock = Unlocked
    /\ pm_devs_lock' = p
    /\ pc' = [pc EXCEPT ![p] = "send"]
    /\ cur' = [cur EXCEPT ![p] = 1]
    /\ req' = [req EXCEPT ![p] = [rqst |-> r, data |-> s, sel |-> sel]]
    /\ snap' = dstate
    /\ undoFailed' = {}
    /\ UNCHANGED <<pm_devs, dstate, dprev, status, ret>>

\* The device at entry is skipped: another type, or no callback.
SendAllSkip(p) ==
    /\ pc[p] = "send"
    /\ cur[p] <= Len(pm_devs)
    /\ LET d == pm_devs[cur[p]]
       IN ~Selected(req[p].sel, d) \/ Callback[d] = NoCallback
    /\ cur' = [cur EXCEPT ![p] = @ + 1]
    /\ UNCHANGED <<pm_devs, pm_devs_lock, dstate, dprev, pc, req, status, ret,
                   snap, undoFailed>>

\* pm_send returns 0: go on to entry->next.
SendAllAccept(p) ==
    /\ pc[p] = "send"
    /\ cur[p] <= Len(pm_devs)
    /\ LET d == pm_devs[cur[p]]
       IN /\ Selected(req[p].sel, d) /\ Callback[d] # NoCallback
          /\ PmSend(d, req[p].rqst, req[p].data, TRUE)
    /\ cur' = [cur EXCEPT ![p] = @ + 1]
    /\ UNCHANGED <<pm_devs, pm_devs_lock, pc, req, status, ret, snap,
                   undoFailed>>

\* pm_send returns an error: a PM_SUSPEND is undone from entry->prev back to
\* the head; any other request returns the status at once.
SendAllVeto(p) ==
    /\ pc[p] = "send"
    /\ cur[p] <= Len(pm_devs)
    /\ LET d == pm_devs[cur[p]]
       IN /\ Selected(req[p].sel, d)
          /\ Invoked(d, req[p].rqst, req[p].data)
          /\ PmSend(d, req[p].rqst, req[p].data, FALSE)
          /\ IF req[p].rqst = PM_SUSPEND
             THEN /\ pc' = [pc EXCEPT ![p] = "undo"]
                  /\ cur' = [cur EXCEPT ![p] = @ - 1]
                  /\ status' = [status EXCEPT ![p] = d]
                  /\ UNCHANGED <<pm_devs_lock, ret>>
             ELSE /\ pc' = [pc EXCEPT ![p] = "idle"]
                  /\ pm_devs_lock' = Unlocked
                  /\ ret' = [ret EXCEPT ![p] = d]
                  /\ cur' = [cur EXCEPT ![p] = 0]
                  /\ UNCHANGED status
    /\ UNCHANGED <<pm_devs, req, snap, undoFailed>>

\* The walk reached the list head: up(&pm_devs_lock); return 0.
SendAllDone(p) ==
    /\ pc[p] = "send"
    /\ cur[p] > Len(pm_devs)
    /\ pc' = [pc EXCEPT ![p] = "idle"]
    /\ pm_devs_lock' = Unlocked
    /\ ret' = [ret EXCEPT ![p] = Ok]
    /\ cur' = [cur EXCEPT ![p] = 0]
    /\ UNCHANGED <<pm_devs, dstate, dprev, req, status, snap, undoFailed>>

\* One iteration of pm_undo_all (lines 193-208): every earlier device, of
\* any type, whose state differs from prev_state is sent back to prev_state;
\* a failure there is ignored.
UndoStep(p) ==
    /\ pc[p] = "undo"
    /\ cur[p] >= 1
    /\ LET d == pm_devs[cur[p]]
       IN IF dstate[d] # dprev[d]
          THEN \E ok \in Outcomes(d, UndoRequest(d), dprev[d]) :
                  /\ PmSend(d, UndoRequest(d), dprev[d], ok)
                  /\ undoFailed' = IF ok THEN undoFailed ELSE undoFailed \cup {d}
          ELSE UNCHANGED <<dstate, dprev, undoFailed>>
    /\ cur' = [cur EXCEPT ![p] = @ - 1]
    /\ UNCHANGED <<pm_devs, pm_devs_lock, pc, req, status, ret, snap>>

\* Mutation: the veto path of pm_send_all returning without up().
UndoDoneNoUp(p) ==
    /\ pc[p] = "undo"
    /\ cur[p] = 0
    /\ pc' = [pc EXCEPT ![p] = "idle"]
    /\ ret' = [ret EXCEPT ![p] = status[p]]
    /\ status' = [status EXCEPT ![p] = Ok]
    /\ UNCHANGED <<pm_devs, pm_devs_lock, dstate, dprev, cur, req, snap, undoFailed>>

\* pm_undo_all reached the head: up(&pm_devs_lock); return status.
UndoDone(p) ==
    /\ pc[p] = "undo"
    /\ cur[p] = 0
    /\ pc' = [pc EXCEPT ![p] = "idle"]
    /\ pm_devs_lock' = Unlocked
    /\ ret' = [ret EXCEPT ![p] = status[p]]
    /\ status' = [status EXCEPT ![p] = Ok]
    /\ UNCHANGED <<pm_devs, dstate, dprev, cur, req, snap, undoFailed>>
-----------------------------------------------------------------------------
(* pm_find (lines 368-378), called with pm_devs_lock held.  A device is    *)
(* given by its position in pm_devs and NULL by 0, so from->entry.next is  *)
(* position from + 1 and the list head is position Len(pm_devs) + 1.      *)

\* Line 373.
Matches(type, d) == type = PM_UNKNOWN_DEV \/ DevType[d] = type

\* Mutation: pm_find without the PM_UNKNOWN_DEV wildcard.
RECURSIVE pm_find_type_only(_, _)
pm_find_type_only(type, from) ==
    IF from + 1 > Len(pm_devs) THEN 0
    ELSE IF DevType[pm_devs[from + 1]] = type THEN from + 1
    ELSE pm_find_type_only(type, from + 1)

RECURSIVE pm_find(_, _)
pm_find(type, from) ==
    IF from + 1 > Len(pm_devs) THEN 0
    ELSE IF Matches(type, pm_devs[from + 1]) THEN from + 1
    ELSE pm_find(type, from + 1)
-----------------------------------------------------------------------------
\* The requests apm.c makes: PM_SUSPEND to a non-zero state, PM_RESUME to 0;
\* any other request carries no state.
CallArgs == ({PM_SUSPEND} \X (PowerStates \ {0})) \cup {<<PM_RESUME, 0>>, <<PM_OTHER, 0>>}

Next ==
    \/ \E d \in Devices : pm_register(d) \/ pm_unregister(d)
    \/ \E cb \in Callbacks : pm_unregister_all(cb)
    \/ \E p \in Callers :
          \/ \E a \in CallArgs, sel \in Selections : SendAllBegin(p, a[1], a[2], sel)
          \/ SendAllSkip(p) \/ SendAllAccept(p) \/ SendAllVeto(p) \/ SendAllDone(p)
          \/ UndoStep(p) \/ UndoDone(p)

Spec == Init /\ [][Next]_vars
-----------------------------------------------------------------------------
(* Properties.                                                             *)

\* Rollback (pm_send_all's comment, lines 216-221): when a vetoed PM_SUSPEND
\* returns, every device is back in the state it had when the broadcast
\* began, except one whose own undo callback failed.
RollbackRestores ==
    [][\A p \in Callers :
         (pc[p] = "undo" /\ pc'[p] = "idle")
            => \A d \in Registered \ undoFailed' : dstate'[d] = snap[d]
      ]_vars

\* The devices a loop `for (dev = pm_find(type, NULL); dev; dev =
\* pm_find(type, dev))' visits, as positions turned into devices.
RECURSIVE FindAll(_, _)
FindAll(type, from) ==
    LET n == pm_find(type, from)
    IN IF n = 0 THEN << >> ELSE <<pm_devs[n]>> \o FindAll(type, n)

\* pm_find's contract (lines 356-361): chaining it from NULL, with the lock
\* held, visits exactly the registered devices of the type (all of them for
\* PM_UNKNOWN_DEV), each once, in list order.
FindVisitsType ==
    \A t \in Types \cup {PM_UNKNOWN_DEV} :
        FindAll(t, 0) = SelectSeq(pm_devs, LAMBDA d : Matches(t, d))

\* Atomicity (pm_send_all's WARNING, lines 223-227: the lock is held until the
\* callbacks complete, against pm_unregister and other pm calls): the
\* step-by-step broadcast, with registration and other broadcasts
\* interleaved, implements PmAtomic.  While a broadcast holds the lock the
\* devices are seen as they were when it took it; its whole effect appears
\* when it returns.
AbsState == IF pm_devs_lock \in Callers THEN snap ELSE dstate

Atomic == INSTANCE PmAtomic WITH dstate <- AbsState

AtomicSpec == Atomic!Spec
=============================================================================
