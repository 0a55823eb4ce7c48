---------------------------- MODULE ApmLifecycle ----------------------------
(***************************************************************************)
(* Loading and unloading the APM driver of arch/i386/kernel/apm.c built as *)
(* a module: apm_init starts the kapmd thread (apm()) and installs         *)
(* apm_cpu_idle as pm_idle; apm_exit puts pm_idle back, disengages the     *)
(* BIOS, sets exit_kapmd and waits while kapmd_running before the module   *)
(* text is freed.  Two threads take part: the one running insmod/rmmod and *)
(* kapmd.  The idle task is left out: on a uniprocessor it calls pm_idle   *)
(* only while no process is runnable and schedules only after pm_idle     *)
(* returns, so it is never inside apm_cpu_idle while rmmod runs, and on    *)
(* SMP apm_cpu_idle is never installed.                                    *)
(*                                                                         *)
(* What the BIOS and the command line decide is a configuration chosen at  *)
(* Init.  The main loop of kapmd is the subject of ApmCore; here it only   *)
(* matters that it runs until exit_kapmd is seen.                          *)
(***************************************************************************)
EXTENDS Naturals

\* APM versions, BCD in a u_short: 0x100 is 1.0, 0x102 is 1.2.
V1_0 == 256
V1_2 == 258
BiosVersions == {V1_0, V1_0 + 1, V1_2}

\* The BIOS and boot/module parameters apm_init and apm() depend on.
ConfigSpace ==
    [bios_usable : BOOLEAN,  \* version, 32-bit support, not disabled
     smp         : BOOLEAN,  \* smp_num_cpus > 1
     power_off   : BOOLEAN,
     use_idle    : BOOLEAN,  \* idle_threshold < 100
     do_enable   : BOOLEAN,  \* CONFIG_APM_DO_ENABLE
     version     : BiosVersions,          \* apm_info.bios.version
     reply       : {0} \cup BiosVersions,  \* APM_FUNC_VERSION: 0 = error
     disabled    : BOOLEAN,  \* APM_BIOS_DISABLED in bios.flags at boot
     disengaged  : BOOLEAN,  \* APM_BIOS_DISENGAGED in bios.flags at boot
     enable_ok   : BOOLEAN,  \* the BIOS accepts APM_FUNC_ENABLE_PM
     engage_ok   : BOOLEAN]  \* the BIOS accepts APM_FUNC_ENGAGE_PM

\* A BIOS replies to APM_FUNC_VERSION with a version no newer than its own.
Configs == {c \in ConfigSpace : c.reply <= c.version}

VARIABLES
    cfg,
    mod,           \* "unloaded", "live", "exiting" (in the wait loop), "gone"
    kapmd,         \* "none", "spawned", "mainloop", "returning", "done",
                   \* "failed" (apm() returned -1)
    kapmd_running, exit_kapmd, pm_active,
    pm_idle,       \* "default" or "apm"
    set_pm_idle,
    pm_power_off,  \* "none" or "apm"
    misc,          \* /dev/apm_bios registered
    connection_version,  \* apm_info.connection_version, 0 until negotiated
    bios_flags           \* APM_BIOS_DISABLED/DISENGAGED of apm_info.bios.flags

biosVars == <<connection_version, bios_flags>>

vars == <<cfg, mod, kapmd, kapmd_running, exit_kapmd, pm_active, pm_idle,
          set_pm_idle, pm_power_off, misc, biosVars>>

TypeOK ==
    /\ cfg \in Configs
    /\ mod \in {"unloaded", "live", "exiting", "gone"}
    /\ kapmd \in {"none", "spawned", "mainloop", "returning", "done", "failed"}
    /\ {kapmd_running, exit_kapmd, pm_active, set_pm_idle, misc} \subseteq BOOLEAN
    /\ pm_idle \in {"default", "apm"} /\ pm_power_off \in {"none", "apm"}
    /\ connection_version \in {0} \cup BiosVersions
    /\ bios_flags \subseteq {"DISABLED", "DISENGAGED"}

Init ==
    /\ cfg \in Configs
    /\ mod = "unloaded" /\ kapmd = "none"
    /\ kapmd_running = FALSE /\ exit_kapmd = FALSE /\ pm_active = FALSE
    /\ pm_idle = "default" /\ set_pm_idle = FALSE /\ pm_power_off = "none"
    /\ misc = FALSE
    /\ connection_version = 0
    /\ bios_flags = {f \in {"DISABLED", "DISENGAGED"} :
                        IF f = "DISABLED" THEN cfg.disabled ELSE cfg.disengaged}
-----------------------------------------------------------------------------
\* apm_init (lines 1848-1976) succeeds: pm_active is taken, the kapmd thread
\* is created (it runs later), and on a uniprocessor /dev/apm_bios is
\* registered and apm_cpu_idle installed.  It returns -ENODEV, changing
\* nothing, for an unusable BIOS and on SMP without power_off (line 1904).
apm_init ==
    /\ mod = "unloaded"
    /\ cfg.bios_usable /\ ~(cfg.smp /\ ~cfg.power_off) /\ ~pm_active
    /\ pm_active' = TRUE
    /\ kapmd' = "spawned"
    /\ misc' = ~cfg.smp
    /\ pm_idle' = IF ~cfg.smp /\ cfg.use_idle THEN "apm" ELSE pm_idle
    /\ set_pm_idle' = (~cfg.smp /\ cfg.use_idle)
    /\ mod' = "live"
    /\ UNCHANGED <<cfg, kapmd_running, exit_kapmd, pm_power_off, biosVars>>

\* apm_driver_version (lines 635-642), and apm()'s use of it (lines
\* 1672-1686): a BIOS newer than 1.0 is offered at most 1.2 and the connection takes
\* the version the BIOS replies, or falls back to 1.0 if the call fails.
apm_driver_version == cfg.reply   \* the BIOS's reply, 0 for an error

Negotiate(v) ==
    IF v > V1_0
    THEN IF apm_driver_version = 0 THEN V1_0 ELSE apm_driver_version
    ELSE v

\* apm_enable_power_management(1) (lines 927-941): with enable 1 the early
\* returns do not apply, so only the BIOS call can fail; on success the
\* DISABLED flag is cleared.
apm_enable_power_management(flags) ==
    IF cfg.enable_ok THEN flags \ {"DISABLED"} ELSE flags

\* apm_engage_power_management(APM_DEVICE_ALL, enable) (lines 1021-1037):
\* disengaging a disabled BIOS returns APM_DISABLED without a call;
\* otherwise, if the BIOS call succeeds, DISENGAGED is cleared (enable) or
\* set (disable).  The result is the new flags and whether it failed.
apm_engage_power_management(flags, enable) ==
    IF (~enable /\ "DISABLED" \in flags) \/ ~cfg.engage_ok
    THEN [flags |-> flags, err |-> TRUE]
    ELSE [flags |-> IF enable THEN flags \ {"DISENGAGED"}
                    ELSE flags \cup {"DISENGAGED"},
          err |-> FALSE]

\* apm() lines 1672-1715: the connection version, then enable if the BIOS
\* is disabled (CONFIG_APM_DO_ENABLE), then engage if it is disengaged and
\* the connection is newer than 1.0; a failure returns -1 at once.
ApmSetup ==
    LET cv      == IF connection_version = 0 THEN Negotiate(cfg.version)
                   ELSE connection_version
        enable  == cfg.do_enable /\ "DISABLED" \in bios_flags
        enErr   == enable /\ ~cfg.enable_ok
        flags1  == IF enable THEN apm_enable_power_management(bios_flags) ELSE bios_flags
        engage  == ~enErr /\ "DISENGAGED" \in flags1 /\ cv > V1_0
        eng     == apm_engage_power_management(flags1, TRUE)
        egErr   == engage /\ eng.err
        flags2  == IF engage THEN eng.flags ELSE flags1
    IN [version |-> cv, flags |-> flags2, failed |-> enErr \/ egErr]

\* A mutant of apm whose SMP path leaves kapmd_running set.
apmSmpKeepsRunning ==
    /\ kapmd = "spawned"
    /\ kapmd_running' = TRUE
    /\ connection_version' = ApmSetup.version /\ bios_flags' = ApmSetup.flags
    /\ IF ApmSetup.failed
       THEN /\ kapmd' = "failed"
            /\ UNCHANGED pm_power_off
       ELSE /\ pm_power_off' = IF cfg.power_off THEN "apm" ELSE pm_power_off
            /\ kapmd' = IF cfg.smp THEN "done" ELSE "mainloop"
    /\ UNCHANGED <<cfg, mod, exit_kapmd, pm_active, pm_idle, set_pm_idle, misc>>

\* The kapmd thread runs apm() (lines 1656-1766): kapmd_running is set
\* first; the BIOS set-up may return -1 at once; otherwise the power-off
\* hook is installed and, on a uniprocessor, apm_mainloop runs; on SMP
\* apm() goes on to clear kapmd_running.
apm ==
    /\ kapmd = "spawned"
    /\ kapmd_running' = TRUE
    /\ connection_version' = ApmSetup.version /\ bios_flags' = ApmSetup.flags
    /\ IF ApmSetup.failed
       THEN /\ kapmd' = "failed"
            /\ UNCHANGED pm_power_off
       ELSE /\ pm_power_off' = IF cfg.power_off THEN "apm" ELSE pm_power_off
            /\ kapmd' = IF cfg.smp THEN "returning" ELSE "mainloop"
    /\ UNCHANGED <<cfg, mod, exit_kapmd, pm_active, pm_idle, set_pm_idle, misc>>

\* apm_mainloop (lines 1376-1394) wakes, sees exit_kapmd and returns;
\* apm() clears kapmd_running (line 1771).
MainloopExit ==
    /\ kapmd = "mainloop" /\ exit_kapmd
    /\ kapmd' = "returning"
    /\ UNCHANGED <<cfg, mod, kapmd_running, exit_kapmd, pm_active, pm_idle,
                   set_pm_idle, pm_power_off, misc, biosVars>>

\* Line 1771: kapmd_running = 0; the thread then still runs `return 0' in
\* the module's text.
ClearRunning ==
    /\ kapmd = "returning" /\ kapmd_running
    /\ kapmd_running' = FALSE
    /\ kapmd' = "done"
    /\ UNCHANGED <<cfg, mod, exit_kapmd, pm_active, pm_idle, set_pm_idle,
                   pm_power_off, misc, biosVars>>

\* apm_exit up to its wait loop (lines 1978-1995): the BIOS is disengaged
\* if it is engaged on a connection newer than 1.0 (a failure is only
\* logged).  rmmod is refused while /dev/apm_bios is open, so no client is
\* left.
apm_exit ==
    /\ mod = "live"
    /\ pm_idle' = IF set_pm_idle THEN "default" ELSE pm_idle
    /\ bios_flags' =
         IF "DISENGAGED" \notin bios_flags /\ connection_version > V1_0
         THEN apm_engage_power_management(bios_flags, FALSE).flags
         ELSE bios_flags
    /\ pm_power_off' = IF cfg.power_off THEN "none" ELSE pm_power_off
    /\ misc' = FALSE
    /\ exit_kapmd' = TRUE
    /\ mod' = "exiting"
    /\ UNCHANGED <<cfg, kapmd, kapmd_running, pm_active, set_pm_idle,
                   connection_version>>

\* while (kapmd_running) schedule(); pm_active = 0 (lines 1996-1998); the
\* module text is then freed.
ExitWait ==
    /\ mod = "exiting" /\ ~kapmd_running
    /\ pm_active' = FALSE
    /\ mod' = "gone"
    /\ UNCHANGED <<cfg, kapmd, kapmd_running, exit_kapmd, pm_idle,
                   set_pm_idle, pm_power_off, misc, biosVars>>

Next ==
    \/ apm_init \/ apm \/ MainloopExit \/ ClearRunning
    \/ apm_exit \/ ExitWait

\* kapmd and the unloading thread are scheduled whenever they can run.
Fairness == /\ WF_vars(apm) /\ WF_vars(MainloopExit) /\ WF_vars(ClearRunning)
            /\ WF_vars(ExitWait)

Spec == Init /\ [][Next]_vars /\ Fairness
-----------------------------------------------------------------------------
\* Module code in use.
KapmdInModule == kapmd \in {"spawned", "mainloop", "returning"}

\* Once the module is gone no thread runs its code: kapmd, which apm_exit
\* waits for through kapmd_running, has left apm().
NoCodeAfterUnload == mod = "gone" => ~KapmdInModule

\* rmmod returns: once apm_exit has started it eventually frees the module,
\* whether kapmd is in apm_mainloop, has not run yet, or (on SMP) never
\* entered the main loop.  This holds only when apm() gets past its BIOS
\* set-up: when enabling or engaging power management fails, apm() returns
\* -1 with kapmd_running still 1, and apm_exit's wait loop never ends.
UnloadCompletesIfApmStarts ==
    mod = "exiting" ~> (mod = "gone" \/ kapmd = "failed")
====
