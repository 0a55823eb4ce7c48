---------------------------- MODULE MCPmDevices ----------------------------
(* Instantiates PmDevices for TLC: three devices, two with callbacks of    *)
(* their own and one registered with a NULL callback, of two types; two    *)
(* tasks that broadcast (kapmd and a process in ioctl).                    *)
EXTENDS PmDevices

CONSTANTS d1, d2, d3, cbA, cbB, t1, t2

MCCallback == [d \in Devices |-> IF d = d3 THEN NoCallback
                                 ELSE IF d = d1 THEN cbA ELSE cbB]
MCDevType  == [d \in Devices |-> IF d = d2 THEN t2 ELSE t1]

\* pm_send_all only.
MCAllSelections == {AllSel}

\* pm_send_all and the CONFIG_MIZI pm_send_all_type over type t1.
MCTypedSelections == {AllSel, [kind |-> "type", type |-> t1]}

MCPowerStates == {0, 3}
=============================================================================
