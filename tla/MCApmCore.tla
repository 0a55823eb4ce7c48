----------------------------- MODULE MCApmCore -----------------------------
(* Two clients of /dev/apm_bios, both opened read-write by root, so every  *)
(* suspend or standby event counts as pending for both.                    *)
EXTENDS ApmCore

MCMaxEvents == 3          \* a ring of two events: overflow is reachable
MCBiosEvents == {"SYS_SUSPEND", "SYS_STANDBY", "POWER_STATUS_CHANGE",
                 "CRITICAL_SUSPEND"}
Perms == Permutations(Clients)
=============================================================================
