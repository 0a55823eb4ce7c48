------------------------------ MODULE PmAtomic ------------------------------
(***************************************************************************)
(* What kernel/pm.c promises its callers, with each pm_send_all one atomic *)
(* step: a broadcast either takes every selected device with a callback to *)
(* the requested state and returns 0, or stops at a device that refuses    *)
(* and returns that device's status.  A refused PM_SUSPEND leaves every    *)
(* device as it was, except one whose undo callback itself failed, which   *)
(* stays suspended; a refused PM_RESUME leaves the devices before the      *)
(* refusing one resumed.  Registration never happens inside a broadcast.   *)
(***************************************************************************)
EXTENDS Naturals, Sequences, SequencesExt

CONSTANTS Devices, Callers, Callbacks, NoCallback, Callback, Types, DevType,
          PowerStates, Selections, PM_SUSPEND, PM_RESUME, PM_OTHER

VARIABLES pm_devs, dstate, ret

StateRequests == {PM_SUSPEND, PM_RESUME}
Ok == "ok"
AllSel == [kind |-> "all"]
Registered == ToSet(pm_devs)

Selected(sel, d) ==
    CASE sel.kind = "all"    -> TRUE
      [] sel.kind = "type"   -> DevType[d] = sel.type
      [] sel.kind = "target" -> DevType[d] = sel.type /\ d = sel.id

\* The devices a broadcast calls: selected and with a callback.
Called(sel, d) == Selected(sel, d) /\ Callback[d] # NoCallback

Init ==
    /\ pm_devs = << >>
    /\ dstate = [d \in Devices |-> 0]
    /\ ret = [p \in Callers |-> Ok]

Register(d) ==
    /\ d \notin Registered
    /\ pm_devs' = <<d>> \o pm_devs
    /\ dstate' = [dstate EXCEPT ![d] = 0]
    /\ UNCHANGED ret

Unregister(d) ==
    /\ d \in Registered
    /\ pm_devs' = Remove(pm_devs, d)
    /\ UNCHANGED <<dstate, ret>>

UnregisterAll(cb) ==
    /\ pm_devs' = SelectSeq(pm_devs, LAMBDA d : Callback[d] # cb)
    /\ UNCHANGED <<dstate, ret>>

\* Every called device accepts.
SendAllSucceeds(p, r, s, sel) ==
    /\ dstate' = [d \in Devices |->
                    IF d \in Registered /\ Called(sel, d) /\ r \in StateRequests
                    THEN s ELSE dstate[d]]
    /\ ret' = [ret EXCEPT ![p] = Ok]
    /\ UNCHANGED pm_devs

\* The called device at position k refuses (a device already in the target
\* state is not called and so cannot refuse).
SendAllRefused(p, r, s, sel, k) ==
    LET v      == pm_devs[k]
        before == {pm_devs[i] : i \in 1 .. k - 1}
        sent   == {d \in before : Called(sel, d)}
    IN /\ Called(sel, v)
       /\ r \in StateRequests => dstate[v] # s
       /\ IF r = PM_SUSPEND
          THEN \E stuck \in SUBSET {d \in sent : dstate[d] # s} :
                  dstate' = [d \in Devices |-> IF d \in stuck THEN s ELSE dstate[d]]
          ELSE dstate' = [d \in Devices |->
                            IF d \in sent /\ r \in StateRequests THEN s ELSE dstate[d]]
       /\ ret' = [ret EXCEPT ![p] = v]
       /\ UNCHANGED pm_devs

CallArgs == ({PM_SUSPEND} \X (PowerStates \ {0})) \cup {<<PM_RESUME, 0>>, <<PM_OTHER, 0>>}

Next ==
    \/ \E d \in Devices : Register(d) \/ Unregister(d)
    \/ \E cb \in Callbacks : UnregisterAll(cb)
    \/ \E p \in Callers, a \in CallArgs, sel \in Selections :
          \/ SendAllSucceeds(p, a[1], a[2], sel)
          \/ \E k \in 1 .. Len(pm_devs) : SendAllRefused(p, a[1], a[2], sel, k)

Spec == Init /\ [][Next]_<<pm_devs, dstate, ret>>
=============================================================================
