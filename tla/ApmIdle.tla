------------------------------ MODULE ApmIdle ------------------------------
(***************************************************************************)
(* The idle loop of arch/i386/kernel/apm.c: apm_cpu_idle, installed as     *)
(* pm_idle when idle_threshold < 100, with apm_do_idle and apm_do_busy.    *)
(* The idle task measures what share of the last window it ran            *)
(* (use_apm_idle), then calls the BIOS idle function until a process is   *)
(* runnable; a leaky counter t1 stops it from spinning on a BIOS that      *)
(* returns at once; on the way out the BIOS is told the CPU is busy.       *)
(*                                                                         *)
(* jiffies and tms_stime are unsigned int and wrap: they are kept modulo   *)
(* 2^W.  Timer interrupts (Tick) and wake-ups come between any two steps.  *)
(* The build defines ALWAYS_CALL_BUSY (line 281).                          *)
(***************************************************************************)
EXTENDS Integers

CONSTANTS
    W,                \* width of jiffies and tms_stime, in bits
    IDLE_CALC_LIMIT,  \* HZ * 100
    IDLE_LEAKY_MAX,   \* 16
    idle_period,      \* jiffies of a measuring window
    idle_threshold    \* percent

ASSUME /\ W \in Nat \ {0}
       /\ {IDLE_CALC_LIMIT, IDLE_LEAKY_MAX, idle_period, idle_threshold} \subseteq Nat
       /\ idle_period < IDLE_CALC_LIMIT /\ IDLE_CALC_LIMIT < 2^W

Word == 0 .. 2^W - 1
Minus(a, b) == (a - b) % 2^W   \* unsigned int subtraction

\* Where the idle task is: not running, at recalc:, at the head of the
\* while loop, inside the BIOS idle call, inside sys_idle/default_idle,
\* after the loop.
Pcs == {"out", "recalc", "loop", "bios", "sys_idle", "exit"}

VARIABLES
    jiffies, stime,   \* jiffies; current->times.tms_stime of the idle task
    need_resched,     \* current->need_resched
    use_apm_idle, last_jiffies, last_stime,   \* statics of apm_cpu_idle
    apm_is_idle, jsl, t1, t,                  \* its locals
    clock_slowed,
    bios_slows,       \* APM_IDLE_SLOWS_CLOCK in apm_info.bios.flags
    pc,
    fast              \* history: BIOS idle calls in a row, in one call
                      \* of apm_cpu_idle, that returned within the same jiffy

vars == <<jiffies, stime, need_resched, use_apm_idle, last_jiffies, last_stime,
          apm_is_idle, jsl, t1, t, clock_slowed, bios_slows, pc, fast>>

TypeOK ==
    /\ {jiffies, stime, last_jiffies, last_stime, jsl, t} \subseteq Word
    /\ need_resched \in BOOLEAN /\ use_apm_idle \in BOOLEAN
    /\ apm_is_idle \in BOOLEAN /\ clock_slowed \in BOOLEAN /\ bios_slows \in BOOLEAN
    /\ t1 \in 0 .. IDLE_LEAKY_MAX
    /\ pc \in Pcs
    /\ fast \in Nat

Init ==
    /\ jiffies = 0 /\ stime = 0 /\ need_resched = FALSE
    /\ use_apm_idle = FALSE /\ last_jiffies = 0 /\ last_stime = 0
    /\ apm_is_idle = FALSE /\ jsl = 0 /\ t1 = IDLE_LEAKY_MAX /\ t = 0
    /\ clock_slowed = FALSE
    /\ bios_slows \in BOOLEAN
    /\ pc = "out"
    /\ fast = 0
-----------------------------------------------------------------------------
\* The scheduler runs the idle task: apm_cpu_idle is entered.
Enter ==
    /\ pc = "out" /\ ~need_resched
    /\ apm_is_idle' = FALSE
    /\ jsl' = Minus(jiffies, last_jiffies)
    /\ pc' = "recalc"
    /\ fast' = 0
    /\ UNCHANGED <<jiffies, stime, need_resched, use_apm_idle, last_jiffies,
                   last_stime, t1, t, clock_slowed, bios_slows>>

\* A mutant of Recalc that clears apm_is_idle, as if it were set to 0 after
\* the recalc: label rather than at its declaration.
RecalcClearsIdle ==
    /\ pc = "recalc"
    /\ CASE jsl > IDLE_CALC_LIMIT ->
              /\ use_apm_idle' = FALSE
              /\ last_jiffies' = jiffies /\ last_stime' = stime
         [] jsl > idle_period ->
              /\ use_apm_idle' = ((Minus(stime, last_stime) * 100) \div jsl > idle_threshold)
              /\ last_jiffies' = jiffies /\ last_stime' = stime
         [] OTHER -> UNCHANGED <<use_apm_idle, last_jiffies, last_stime>>
    /\ t1' = IDLE_LEAKY_MAX
    /\ apm_is_idle' = FALSE
    /\ pc' = "loop"
    /\ UNCHANGED <<jiffies, stime, need_resched, jsl, t,
                   clock_slowed, bios_slows, fast>>

\* recalc: (lines 796-812): after a long gap measuring restarts; after a
\* window, apm idling is used if the idle task ran more than
\* idle_threshold percent of it.
Recalc ==
    /\ pc = "recalc"
    /\ CASE jsl > IDLE_CALC_LIMIT ->
              /\ use_apm_idle' = FALSE
              /\ last_jiffies' = jiffies /\ last_stime' = stime
         [] jsl > idle_period ->
              /\ use_apm_idle' = ((Minus(stime, last_stime) * 100) \div jsl > idle_threshold)
              /\ last_jiffies' = jiffies /\ last_stime' = stime
         [] OTHER -> UNCHANGED <<use_apm_idle, last_jiffies, last_stime>>
    /\ t1' = IDLE_LEAKY_MAX
    /\ pc' = "loop"
    /\ UNCHANGED <<jiffies, stime, need_resched, apm_is_idle, jsl, t,
                   clock_slowed, bios_slows, fast>>

\* The head of the while loop (lines 814-818): leave when a process is
\* runnable, else call the BIOS idle function or go to sys_idle.
LoopHead ==
    /\ pc = "loop"
    /\ pc' = CASE need_resched -> "exit"
               [] use_apm_idle -> "bios"
               [] OTHER        -> "sys_idle"
    /\ t' = IF ~need_resched /\ use_apm_idle THEN jiffies ELSE t
    /\ UNCHANGED <<jiffies, stime, need_resched, use_apm_idle, last_jiffies,
                   last_stime, apm_is_idle, jsl, t1, clock_slowed, bios_slows, fast>>

\* apm_do_idle (lines 724-746): the BIOS idle call fails (-1), or idles the
\* CPU and returns whether the BIOS slows the clock; with ALWAYS_CALL_BUSY
\* clock_slowed is set either way.
DoIdleResults == {-1, IF bios_slows THEN 1 ELSE 0}
apm_do_idle(r) == clock_slowed' = (clock_slowed \/ r # -1)

\* A mutant of IdleReturn whose fast branch forgets to count t1 down.
IdleReturnNoLeak ==
    /\ pc = "bios"
    /\ \E r \in DoIdleResults :
         /\ apm_do_idle(r)
         /\ apm_is_idle' = (apm_is_idle \/ r # -1)
         /\ CASE r = 0 /\ t1 > 0 /\ t # jiffies ->
                   pc' = "loop" /\ t1' = IDLE_LEAKY_MAX /\ fast' = 0
              [] r = 0 /\ t1 > 0 ->
                   pc' = "loop" /\ fast' = fast + 1 /\ UNCHANGED t1
              [] OTHER -> pc' = "sys_idle" /\ fast' = 0 /\ UNCHANGED t1
    /\ UNCHANGED <<jiffies, stime, need_resched, use_apm_idle, last_jiffies,
                   last_stime, jsl, t, bios_slows>>

\* The switch on apm_do_idle() (lines 819-834): -1 goes on to sys_idle; 0
\* or 1 marks apm_is_idle; a 0 that came back after a jiffy passed refills
\* t1 and loops, one within the same jiffy costs a unit of t1 and loops;
\* with t1 used up, or after a 1, the task goes on to sys_idle.
IdleReturn ==
    /\ pc = "bios"
    /\ \E r \in DoIdleResults :
         /\ apm_do_idle(r)
         /\ apm_is_idle' = (apm_is_idle \/ r # -1)
         /\ CASE r = 0 /\ t1 > 0 /\ t # jiffies ->
                   pc' = "loop" /\ t1' = IDLE_LEAKY_MAX /\ fast' = 0
              [] r = 0 /\ t1 > 0 ->
                   pc' = "loop" /\ t1' = t1 - 1 /\ fast' = fast + 1
              [] OTHER -> pc' = "sys_idle" /\ fast' = 0 /\ UNCHANGED t1
    /\ UNCHANGED <<jiffies, stime, need_resched, use_apm_idle, last_jiffies,
                   last_stime, jsl, t, bios_slows>>

\* A mutant of SysIdleReturn that computes jiffies - last_jiffies as a
\* signed int.
SysIdleReturnSigned ==
    /\ pc = "sys_idle"
    /\ jsl' = jiffies - last_jiffies
    /\ pc' = IF jsl' > idle_period THEN "recalc" ELSE "loop"
    /\ fast' = 0
    /\ UNCHANGED <<jiffies, stime, need_resched, use_apm_idle, last_jiffies,
                   last_stime, apm_is_idle, t1, t, clock_slowed, bios_slows>>

\* sys_idle() (default_idle: hlt until an interrupt) returns, lines
\* 835-841: after a whole window, measure again.
SysIdleReturn ==
    /\ pc = "sys_idle"
    /\ jsl' = Minus(jiffies, last_jiffies)
    /\ pc' = IF jsl' > idle_period THEN "recalc" ELSE "loop"
    /\ fast' = 0
    /\ UNCHANGED <<jiffies, stime, need_resched, use_apm_idle, last_jiffies,
                   last_stime, apm_is_idle, t1, t, clock_slowed, bios_slows>>

\* apm_do_busy (lines 754-762): a slowed clock is set back to full speed.
apm_do_busy ==
    IF clock_slowed THEN clock_slowed' = FALSE ELSE UNCHANGED clock_slowed

\* Lines 844-845: the loop is left; if apm idling was used the BIOS is told
\* the CPU is busy.  The scheduler then runs the woken process.
Exit ==
    /\ pc = "exit"
    /\ IF apm_is_idle THEN apm_do_busy ELSE UNCHANGED clock_slowed
    /\ pc' = "out"
    /\ need_resched' = FALSE
    /\ UNCHANGED <<jiffies, stime, use_apm_idle, last_jiffies, last_stime,
                   apm_is_idle, jsl, t1, t, bios_slows, fast>>

\* The timer interrupt: jiffies advances, and the idle task's system time
\* if it was the one running; a process may become runnable.
Tick ==
    /\ jiffies' = (jiffies + 1) % 2^W
    /\ stime' = IF pc # "out" THEN (stime + 1) % 2^W ELSE stime
    /\ \E woke \in BOOLEAN : need_resched' = (need_resched \/ (woke /\ pc # "out"))
    /\ UNCHANGED <<use_apm_idle, last_jiffies, last_stime, apm_is_idle, jsl, t1,
                   t, clock_slowed, bios_slows, pc, fast>>

Next == Enter \/ Recalc \/ LoopHead \/ IdleReturn \/ SysIdleReturn \/ Exit \/ Tick

Spec == Init /\ [][Next]_vars
-----------------------------------------------------------------------------
\* The idle loop never hands the CPU back with the clock slowed: once
\* apm_do_idle has slowed it, apm_is_idle is set and survives every
\* `goto recalc', so apm_do_busy runs before apm_cpu_idle returns.
ClockRestored == pc = "out" => ~clock_slowed

\* The leaky counter t1 bounds how often in a row the loop calls a BIOS
\* idle function that returns within the same jiffy before it falls back
\* to sys_idle or gives up the CPU: at most IDLE_LEAKY_MAX times.
LeakyBound == fast <= IDLE_LEAKY_MAX
====
