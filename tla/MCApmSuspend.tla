---------------------------- MODULE MCApmSuspend ----------------------------
(* kapmd and one client of /dev/apm_bios, opened read-write by root, over  *)
(* two devices with callbacks of their own that drivers may register and   *)
(* unregister.  The client's APM_IOC_SUSPEND makes a vetoable suspend(),   *)
(* and the BIOS may ask for a critical suspend, which kapmd makes at the   *)
(* same time.                                                              *)
EXTENDS ApmSuspend

CONSTANTS d1, d2, cbA, cbB, t1

MCMaxEvents == 2
MCBiosEvents == {"CRITICAL_SUSPEND"}
MCCallback == [d \in Devices |-> IF d = d1 THEN cbA ELSE cbB]
MCDevType  == [d \in Devices |-> t1]
=============================================================================
