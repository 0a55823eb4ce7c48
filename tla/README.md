# TLA+ models of the 2.4 power-management core and the i386 APM driver

This directory models two files of `src/Jollen/jk2410/kernel-jk2410`:

- `kernel/pm.c`: the device registry (`pm_register`, `pm_unregister`,
  `pm_unregister_all`). It also contains the broadcaster: `pm_send`,
  `pm_send_all` and its typed and targeted variants, and the `pm_undo_all`
  rollback.
- `arch/i386/kernel/apm.c`: the APM driver. Its main parts are:
  - the kernel thread kapmd, which runs `apm()`, `apm_mainloop`,
    `check_events`, `suspend` and `standby`;
  - the per-open-file clients of `/dev/apm_bios`, served by `do_open`,
    `do_read`, `do_ioctl` and `do_release`;
  - their event rings;
  - the idle routine `apm_cpu_idle`;
  - module load and unload.

## How the parts interact

A client opens `/dev/apm_bios` and is linked into `user_list`.

When kapmd polls the BIOS, `queue_event` copies each event into every
reader's ring. For privileged writers, a suspend or standby event is also
counted as pending, both per client and globally. A client acknowledges the
event by reading it and then issuing the ioctl. When the global counter
reaches zero, the one who completes the acknowledgement calls `suspend()`.
That is either kapmd or the last client, via `do_ioctl` or `do_release`.

`suspend()` first broadcasts `PM_SUSPEND` to the devices through `pm.c`. It
then calls the BIOS, broadcasts `PM_RESUME`, queues the resume event and
wakes the clients waiting on `apm_suspend_waitqueue`.

The kernel is uniprocessor and non-preemptive, so each stretch of code
between two sleeps is one atomic step. The sleeps are:

- `down(&pm_devs_lock)`;
- a callback;
- `interruptible_sleep_on`;
- `schedule()`.

## Modules

| Module | Models | State ↔ code |
|---|---|---|
| `PmDevices` | pm.c | `pm_devs` list (a sequence, newest first), the devices' `state`/`prev_state`, and one record per caller walking the list inside `pm_send_all`/`pm_undo_all` (the `cur` pointer). Each loop iteration is its own action, because a callback may sleep. `pm_find` is a RECURSIVE operator over the list. A property checks it against `SelectSeq`. |
| `PmAtomic` | spec §4.1 | An abstract registry in which a broadcast is a single atomic step. |
| `EventFifo` | spec §4.3 | An abstract drop-oldest FIFO. |
| `ApmEventQueue` | `queue_event`, `get_queued_event` | `events[]`, `event_head`, `event_tail` of one `struct apm_user`. |
| `ApmCore` | check_events, suspend, standby, do_open/read/ioctl/release | See below. |
| `ApmIdle` | `apm_cpu_idle`, `apm_do_idle`, `apm_do_busy` | The statics and locals of `apm_cpu_idle`, with `jiffies` and `tms_stime` taken modulo 2^W. `apm_do_idle` returns -1 (BIOS error), or 1 or 0 depending on whether the BIOS slows the clock. It sets `clock_slowed` whenever it succeeds (`ALWAYS_CALL_BUSY`). |
| `ApmSuspend` | suspend(), check_events and pm.c together | Composes `ApmCore` and `PmDevices` by INSTANCE, with PmDevices' per-caller variables renamed `pm_pc`, `pm_cur`, etc. A process reaching a `pm_send_all` call starts the real walk of the device list: at once if `pm_devs_lock` is free, otherwise it sleeps in `down()` (`Down`). `SuspendVetoed`, `SuspendSlept` and `ResumeReturned` join the walk's return to the apm.c code that follows it, up to the next sleep. In `SuspendSlept`, suspend()'s `up()`, BIOS call and `down()` for `PM_RESUME` are one step, with the lock kept. Drivers register and unregister devices at any time. |
| `ApmLifecycle` | `apm_init`, `apm()`, `apm_exit`, `apm_driver_version`, `apm_enable_power_management`, `apm_engage_power_management` | `kapmd_running`, `exit_kapmd`, `pm_idle`, `pm_power_off`, `set_pm_idle`, `apm_info.connection_version`, and the DISABLED/DISENGAGED bits of `apm_info.bios.flags`. The BIOS (version, flags, replies), the build option `CONFIG_APM_DO_ENABLE` and SMP are chosen at Init. `apm_exit` disengages an engaged BIOS on a connection newer than 1.0. |

`ApmCore` holds these parts of the code's state:

- `user_list`;
- per client: its ring (abstracted to the FIFO that `ApmEventQueue` is shown
  to implement), `suspends_pending`, `standbys_pending`, `suspends_read`,
  `standbys_read` and `suspend_wait`;
- the globals: `suspends_pending`, `standbys_pending`,
  `waiting_for_resume`, `ignore_normal_resume` and `ignore_bounce`;
- history variables for the properties, such as `bios_refused`: the BIOS refused a suspend since `waiting_for_resume` was last written;
- a program counter for kapmd and one for each client, at each sleep.

The BIOS is modelled as a set of events it will report. Each
`apm_bios_call` result is a nondeterministic choice.

Every action is named after the code it models, and each carries a comment
with its line numbers. `PROJECT.json` "map" lists them all.

MC modules (`MCPmDevices`, `MCApmEventQueue`, `MCApmCore`, `MCApmSuspend`, `MCApmIdle`) give
the constants. `ApmLifecycle` needs none, so its cfgs name the module itself.

## Runs

| Run | Expect | What it shows |
|---|---|---|
| pm_broadcast | pass | With registration, unregistration and two concurrent broadcasters, each with veto and rollback, an untyped vetoed broadcast restores every device (`RollbackRestores`). `PmDevices` also refines `PmAtomic`: under the lock, a broadcast behaves as one step (`AtomicSpec`). `pm_register` adds at the head (`list_add`, pm.c:74), so broadcasts visit devices newest first, not in the registration order spec section 4.1 states; the model keeps that order in `pm_devs`, and no property restates it. Iterating `pm_find` from the head returns exactly the devices of a type, or every device for `PM_UNKNOWN_DEV`, in list order (`FindVisitsType`). |
| pm_typed_rollback | violation | A vetoed typed broadcast rolls back devices of other types (pm.c:286). |
| queue_fifo | pass | The ring refines a FIFO of `APM_MAX_EVENTS-1` events (`FifoSpec`). That is one fewer than the spec's N, which is recorded as a finding. |
| apm_core | pass | With reads whose `copy_to_user` may fault (the event is then dequeued uncounted), no client sleeps past a completed suspend (`NoLostWakeup`). While `waiting_for_resume` is set, something is still to clear it: a running `suspend()`, a client yet to acknowledge, or a resume the BIOS holds (`ResumeExpected`). The property excepts a `suspend()` whose BIOS call failed. That call returns -EIO with the flag still set, so every later BIOS suspend request is dropped (apm.c:1215). The spec says to stay Idle, and this is recorded as a finding. |
| apm_pending_leak | violation | `do_release` leaks pending counts while it sleeps in `suspend()` (apm.c:1518). |
| apm_stale_check | violation | `do_ioctl` suspends while a new suspend event is still unacknowledged (apm.c:1489). |
| apm_duplicate_resume | violation | kapmd broadcasts a second resume for the BIOS echo (apm.c:1325). |
| apm_double_suspend | violation | Two `suspend()` calls can overlap (`SingleSuspend`). In TLC's shortest traces (four steps), kapmd is inside `suspend()` for a suspend event no client had to acknowledge: a `CRITICAL_SUSPEND`, which it passes to `suspend(0)` without any count (apm.c:1346), or a `SYS_SUSPEND` that arrived while no client was open. An open client then issues `APM_IOC_SUSPEND`, finds `suspends_pending` 0, and `do_ioctl` calls `suspend()` again (apm.c:1489). Which of the two traces TLC prints depends on the order its workers explore states. |
| apm_suspend | pass | The composition checks two things. (1) When `suspend()` calls the BIOS, every registered device with a callback is suspended. The only other case is a critical suspend that a driver vetoed (apm.c:1200-1203): there every device has been rolled back to its state before the walk, except one whose undo callback failed (`SleepsWithDevicesSettled`). A vetoable suspend never sleeps after a veto. (2) Once no `suspend()` and no resume notification is running, every device is running again (`AwakeAfterSuspend`). That holds after a veto, after a failed BIOS call, with two `suspend()`s and with drivers registering devices in between. It assumes that no resume or rollback callback has failed. (3) Every `pm_send_all` call returns, however kapmd, the client and the drivers take turns on the lock (`CallsReturn`). |
| apm_idle | pass | `apm_cpu_idle` never returns with the clock slowed (`ClockRestored`). It never calls a fast-returning BIOS idle more than `IDLE_LEAKY_MAX` times in a row (`LeakyBound`). |
| apm_lifecycle | pass | rmmod returns unless `apm()` gave up in its BIOS set-up (`UnloadCompletesIfApmStarts`). The property needs that exclusion: an early `return -1` in `apm()` leaves `kapmd_running` set, and `apm_exit` spins forever (apm.c:1704). TLC's example is a disengaged 1.1 BIOS that refuses to engage. This is recorded as a finding. |
| apm_unload_race | violation | The module can be freed before kapmd ran: `kapmd_running` is set by the thread itself, so `apm_exit`'s wait loop can end before it starts (apm.c:1665). TLC's trace is `apm_init`, `apm_exit`, then the end of the wait with kapmd still only spawned. |

Each passing property has a mutant in `PROJECT.json`: a plausible bug in
the mapped code that TLC shows breaks it. Each violation is explained in
"findings".

## Bounds

- **PmDevices**: 3 devices, 2 callbacks and 2 device types, with 2 callers.
  This is the least that gives a typed broadcast a device outside its type
  and two broadcasts that overlap.
- **ApmEventQueue**: `APM_MAX_EVENTS = 4` wraps the ring several times.
- **ApmCore**:
  - 2 clients, both privileged readers and writers. Symmetry is sound
    because they are interchangeable.
  - `APM_MAX_EVENTS = 3`, so a ring holds 2 events and can overflow.
  - The BIOS can report 2 events: `SYS_SUSPEND`, `SYS_STANDBY`,
    `POWER_STATUS_CHANGE` or `CRITICAL_SUSPEND`. Resume events come from the
    modelled BIOS after a suspend.
  - One `APM_IOC_SUSPEND` or `APM_IOC_STANDBY` in the whole run (`MaxIoctls = 1`, a budget shared by the clients).
  - These bounds reach each of the five ApmCore findings. The pass run
    has 3.3M distinct states.
- **ApmSuspend**: kapmd and one privileged client, and two devices with callbacks that drivers may register and unregister.
  - One BIOS event, `CRITICAL_SUSPEND`, and one ioctl. The client's `APM_IOC_SUSPEND` makes the vetoable `suspend()`, and kapmd's critical `suspend()` can overlap it. A veto, a veto of the critical suspend, a failed BIOS call and a failing callback all happen. kapmd's handling of `SYS_SUSPEND` is left to the `apm_core` run. With it in the BIOS's choices, this run grows to 680k states and takes more than three minutes.
  - A ring of one event (`APM_MAX_EVENTS = 2`): the queue is not what this run is about.
  - 317k distinct states, checked with the liveness property in under two minutes.
- **ApmIdle**: W = 3, so `jiffies` wraps after 8 ticks.
  - `IDLE_CALC_LIMIT = 5` and `idle_period = 2`, so all three recalc
    branches are taken.
  - `IDLE_LEAKY_MAX = 2`.
- **ApmLifecycle**: every one of the 4608 configurations. BIOS versions are 1.0, 1.1 and 1.2. The reply to the version call is an error or a version no newer than the BIOS. Both flags and both BIOS answers are free, so every early return of `apm()` is reached.

## Fairness

`ApmLifecycle` and `ApmSuspend` state liveness.

`ApmLifecycle` assumes weak fairness of:

- kapmd's steps: the thread was created and is runnable;
- the unloading thread's wait loop: `schedule()` returns to it.

`ApmSuspend` assumes:

- weak fairness of the `pm_devs_lock` holder's walk and of its return, because device callbacks return;
- strong fairness of `Down`, because every `up()` wakes a sleeper on the semaphore.

Clients, kapmd's polling and drivers get no fairness there.

Module loading gets no fairness. `ApmLifecycle` has no idle task: on a uniprocessor the idle task calls `pm_idle` only while nothing is runnable and schedules only after it returns, so it is never inside `apm_cpu_idle` while rmmod runs, and on SMP `apm_cpu_idle` is never installed. Both lifecycle cfgs turn deadlock checking off, because the system really stops: `apm_init` refused, or the module gone. The other modules check
safety only, because their progress depends on clients that may never read
or acknowledge.

## Not modelled

- The BIOS call layer (`apm_bios_call*`, segment set-up). Its results are
  nondeterministic.
- `apm_power_off`, `apm_get_info` and `apm_console_blank`: formatting and
  BIOS calls with no shared state.
- The time functions (`set_time`, `get_time_diff`, `reinit_timer`): clock
  I/O.
- `apm_setup` string parsing. The misparsed `idle_period=` option
  (apm.c:1794) is listed as a hazard.
- The s3c2410 headers (stateless macros).
- The two userspace demos.

Callbacks that re-enter pm.c, and direct `pm_send` calls by drivers outside
the lock, are not actions: this tree has no such callback and no such
caller. `as->suspend_result`, the value `APM_IOC_SUSPEND` returns, is not
modelled.

## Next steps

- Model `as->suspend_result`. An `APM_IOC_SUSPEND` interrupted by a signal
  returns whatever an earlier `suspend()` left there, or, if none ran since
  `do_open`, the uninitialised value `kmalloc` returned (apm.c:1495).
- Model `apm_setup`'s option parsing as an operator over option tokens.
