# TLA+ models of the Cisco 8000 kernel modules

The repository holds the Linux drivers that an OpenBMC build runs on two Cisco
products (8101-32FH-O-BMC and 85-SCM-O-BMC). They drive IP blocks of FPGAs:
I2C masters, GPIO, power sequencers, reset and scratch registers. Most blocks
are reached through memory; some FPGAs are reached over I2C. Two hosts, the
x86 CPU and the BMC, run the same drivers against the same FPGA, and no lock of
either kernel covers the other. There are no tests; the documentation is the
top-level README and the comments. The code is in `src/drivers/cisco`;
`drivers/backports` is an upstream kernel file.

Contents: [Inventory](#inventory), [Plan](#plan),
[The modules](#the-modules), [The runs](#the-runs), [Fairness](#fairness),
[The proofs](#the-proofs), [Findings](#findings),
[What is not modelled](#what-is-not-modelled).

Every register access goes through a regmap: one access is atomic under the
lock of the device's regmap, `regmap_update_bits` is an atomic read, change and
write under the same lock, and any access may fail. A read and a write that the
driver issues separately are not atomic. This is the grain of all models: one
register access, with the computation that follows it, is one action.

## Inventory

| Component | State | Operations | Interacts with |
|---|---|---|---|
| I2C arbitration, `i2c-arbitrate.c`, `i2c-arbitrate-sysfs.c` | one `rt_mutex` per engine and host; in hardware, a request flag per host and one semaphore per segment | `lock_bus`, `trylock_bus`, `unlock_bus` of the adapters; `obtain_arbitration`, `release_arbitration`; three settings in sysfs | the other host through the registers; the I2C core; the engines |
| I2C-EXT engine, `cisco-fpga-i2c-ext.c` | `cfg` (start and reset bits), sticky `intSts`, data windows | `master_xfer`, bus recovery, reset at probe | runs between `lock_bus` and `unlock_bus` |
| I2C-SMB engine, `cisco-fpga-i2c.c` | `CSR`, `ISTAT`, `EXT0`, buffers | as above, through other registers | as above |
| Registers over I2C, `cisco-fpga-bmc.c` | the address latch in the FPGA; a regmap per cell | `_bmc_read`, `_bmc_write` | `i2c_lock_bus` of the parent adapter |
| GPIO reboot type, `cisco-fpga-gpio-main.c`, `-init.c` | module variable `m_reboot_type`; scratch register of each block | probe, module load and unload | user space through the `scratch` file; previous boots |
| GPIO pins, `cisco-fpga-gpio-main.c`, `-sysfs.c` | `cfg_stat` of each pin with atomic `set` and `clr` registers | get, set, direction, config; irq mask, unmask, type, handler; sysfs `config`, `set`, `clear` | gpiolib, irq core, user space |
| MFD enumeration, `mfd.c` | none after the probe | builds cells from a ROM's block table and the firmware's children | all drivers of cells; ACPI or device tree |
| Reboot notifier, `cisco-reboot-notifier.c` | (register, mask, value) per action | notifier call, sysfs stores | power-control register `cfg7`, also written by the MSD/XIL `control` and `cfg7` files |
| Block header, `hdr.c` | scratch registers `sw0`, `sw1` | 64-bit `scratch` file | arbitration (same registers), GPIO reboot type |
| Sysfs tables, `cisco-sysfs.c` | none | parse words into value and mask, masked write | all attributes |
| MSD and XIL, `cisco-fpga-msd.c`, `cisco-fpga-xil.c`, `msd_xil_*.c` | scratch RAM, `control` (bits of `cfg7`), `cfg5`, `cfg7` | probe, many attributes, NPU status | reboot notifier, arbitration (semaphore block) |
| Power sequencer, `cisco-fpga-pseq.c` | delayed work | probe, remove, attributes | workqueue |
| Register trace, `reg_trace.*` | byte ring with three indices | record, walk, resize | nothing: the I2C-EXT driver's calls are compiled out |
| Info, CPLD, ACPI, utilities | none | identification and formatting | |

What is hard, by component, and what makes it correct. `PROJECT.json` lists
each hazard at its line.

* **Arbitration.** Two hosts interleave at the grain of single reads; a wait
  may expire; an access may fail after it took effect; a host may restart with
  the semaphore in its hands. Correct: one user of the segment at a time unless
  something failed in the current busy period; a semaphore or request is never
  left behind by correct sessions; every `lock_bus` returns; yielding hands the
  segment over.
* **I2C-EXT.** The status register is sticky and shared, accesses are retried
  after resets, and a restarted host leaves the engine busy. Correct: success
  means every chunk was executed, in order, and a read returns the bytes of
  its own chunks, which the code keeps for their first 256 bytes only; retries
  are bounded; the next user finds an idle engine;
  every call ends.
* **Registers over I2C.** An access is two transfers and an update two
  accesses. Correct: no update is lost, and a failure never changes another
  register.
* **GPIO reboot type.** State that outlives a boot, state that does not, and
  state shared by concurrent probes. Correct: a request acts on exactly one
  boot and on all blocks alike.
* **GPIO pins.** `cfg_stat` is read, changed and written without a lock by
  callbacks that gpiolib and the irq core may run together. Correct: no edge of
  an enabled interrupt is lost; a pin's owner finds it as set.
* **I2C-SMB.** A transfer that fails returns at once and leaves what it has
  written in the engine; the wait recovers a hung bus from inside. Correct:
  what is left never gets into the next access; success means the access was
  executed; every call returns.
* **MFD.** Ill-formed and old ROMs, limits of tables, duplicates, two passes
  that must agree. Correct: one cell for every valid block before the tail, no
  overflow, no two cells of the same name and id.
* **Reboot notifier, `control` and `cfg7`.** Several writers, in two steps
  each, of a register that another device acts on; settings that are stored
  field by field while they are loaded field by field. Correct: the controller
  never finds two commands that no one asked for together, none is lost, and a
  reboot acts on settings that were given together.
* **Files of several registers.** 64 bits in two registers, strings in many,
  unlocked, and a write may fail half-way. Correct: torn only where stores
  overlap or fail.
* **Power sequencer.** The delayed work against removal; rails in two registers
  read at different times. Correct: nothing starts late; each line of a file
  was true at some time of the read.

## Plan

1. `BusMutex` (abstract segment), `Arbitration`, its proofs and its
   refinement, `ArbitrationTimed`. *Done.*
2. `I2cExt` and `BmcRegmap`, both composed with `BusMutex` in place of the
   arbitration, which the refinement justifies, and their proofs. *Done.*
3. `GpioReboot`; `GpioPin`, one pin's registers, its users and the interrupt
   handler; the proofs of both. *Done.*
4. `BlockFiles`, the files and the notifier of one MSD or XIL block with all
   writers of `cfg7`, and its proofs. *Done.*
5. `MfdCells`, `cisco_fpga_mfd_cells` against a reference definition. *Done.*
6. `I2cSmb` and `PowerSeq`. *Done.*
7. Left: the pin table of `cisco_fpga_gpio_init`; the scratch file of an I2C
   block as another writer of the arbitration's flags; the configuration and
   interrupt files of the power sequencer.

Runs are sized to end in one or two minutes each; the theorems cover all sizes
where they apply.

## The modules

`BusMutex` is what a shared segment promises: callers enter one at a time,
except in a busy period that is *tainted* by a failed access or an expired
wait. A taint ends when nobody is left.

`Arbitration` is `i2c-arbitrate.c` on both hosts. Its tasks run the lines of
`obtain_arbitration` and `release_arbitration`:

| Action | Code in `i2c-arbitrate.c` |
|---|---|
| `Lock`, `LockBus`, `TrylockBus` | `arb_lock_bus`, `arb_trylock_bus` (171-192): the `rt_mutex` |
| `ReadPeer`, `ReadArb` | 83-99: the other host's request, then the semaphore |
| `WriteLocal`, `ClearArb` | 101-116: raise the request, give the semaphore back |
| `Poll`, `Expire` | 121-143: the polling loop and its end by time |
| `ClearLocal`, `ReleaseArb`, `Unlock` | 146-202 |
| `Restart` | a host restarts; the registers keep their values |

A read of the semaphore as zero takes it; a write frees it, whoever holds it
(the code only relies on that: `arbi[]` of the MSD or XIL block). `arb` is
kept as three values because the code keeps a signed error in a `u32`: zero,
held, and an error that is indistinguishable from held. A failing access may
have taken effect. `noarb_lock_ops`, for segments with one host, are the
`rt_mutex` alone and are not modelled.

`ArbitrationTimed` adds jiffies to the same actions: sleeps of `grant`, then
`retry`, a deadline of `timeout`, all three changed by sysfs at any time.
Register accesses take no time, a sleep may be late by `LateBound`, and the
bus is used for at most `HoldBound`.

`I2cExt` is `cisco-fpga-i2c-ext.c`. A call walks through `pc`: clear the
status, and per message wait for an idle engine, per chunk load the window,
write `cfg2`, write `cfg` with the start bit, poll the start bit, check the
status, copy out. An error goes through reset, clear and retry, or to the
final reset. `job` is the chunk the engine works on and `rdata` the chunk
whose bytes are in the read window; both name their owner, so that a stale
chunk is told from a fresh one. `EngineEnds` is the hardware: it may end an
access in any way at any time after it was started, or never. Lengths count in
units of `DRIVER_I2C_HW_BUF_SIZE` (256 bytes): `BufSize`, `hw->bufsize`, is one
unit up to version 4 of the engine and two from version 5 on, each message has
chunks of that size and a last one of `last` units, and `WriteCfg2` programs
`RDataSize`, which the code limits to one unit (lines 230 and 241) although it
copies out `Size` (lines 246 and 268-283). An access fills as much of the
window as it was programmed for. A rest of less than a unit counts as one, so
that a read of up to 256 bytes is one unit and one of more is two. The I2C core's
repetition of a transfer that returned `-EAGAIN` is `TryAgain`. The segment is
`Segment == INSTANCE BusMutex`; users are tasks of either host, and `Crash` is
the restart of the host of one of them. When a call ends its caller is
forgotten, and what it left in the engine is marked as nobody's.

`BmcRegmap` is `cisco-fpga-bmc.c`: `regmap_update_bits` under the regmap's
lock, with each access a session on the bus in which the address is latched
and the data follows.

`GpioReboot` is the part of `_gpio_probe` (570-612) that decides, from the
module parameter and a scratch register that survives reboots, whether pins
are initialised, and `_gpio_parse_descriptor`'s use of the decision. Each
access of the unlocked `m_reboot_type` is an action, because blocks of two
parents may be probed at the same time.

`GpioPin` is one pin of a block: `cfg` is `cfg_stat` as a function of its
fields, `intState` its interrupt latch, and `draft` the local variable in which
each operation keeps the register between its read and its write.

| Action | Code |
|---|---|
| `_gpio_direction_input`, `_gpio_direction_output`, `_gpio_set_config`, `_gpio_irq_set_type`, `_gpio_irq_mask`, `_gpio_irq_unmask` | the read and the change in the function of that name in `cisco-fpga-gpio-main.c`; `WriteCfg` is the write |
| `Confirm` | `direction_output` reads the direction back |
| `_gpio_set` | the single write of `set` or `clr` |
| `config_store`, `ClearInterrupts`, `WriteCfg` | the file `config`: read, the write of `clr` for an input, write |
| `set_store`, `WriteSet` | the files `set` and `clear` |
| `_gpio_irq_handler`, `ReadState`, `ClearState`, `Handle` | the handler at this pin |

gpiolib does not serialise its callers, so several tasks may be in gpio_chip
operations; the irq core holds the interrupt's lock around the irq_chip's, so
there is one `Irq` task. What callers may count on is history: `expect` has for
each field the values that suit whoever set it last, and all values if another
task had read the register and was about to write it back, or if the write
failed. What the FPGA does is external: bits of `set` and `clr` act
atomically, status bits in a write of `cfg_stat` have no effect, and a message
is sent when latch and enable bit first coincide. A read that fails at the
start of an operation has no effect and is not an action; nor are `_gpio_get`
and `_gpio_get_direction`, which only read. `Starts` are the ways in which a
descriptor (`_gpio_parse_descriptor`, for a cold boot) or the boot before (for
a warm one) leaves a pin: any direction, drive, level, interrupt type, and the
interrupt off or on. The theorems hold for any; the latch is empty at first.
`intMSI`, `fitSel` and `trigger` are fields that no property distinguishes
from the others.

`BlockFiles` is one MSD or XIL block: the register `cfg7`, the reboot
notifier's settings `attr`, and two kinds of files that span several registers.
Each call of a file operation is in `call`, so that two opened files, the probe
and a reboot interleave between accesses.

| Action | Code |
|---|---|
| `ControlRead`, `ControlWrite` | the file `control`, `_scratch_store_bit` (`msd_xil_sysfs.c` 85-138): refuse while a command is pending, then write one bit |
| `Cfg7Store` | the file `cfg7`: `regmap_update_bits` under the attribute's mask, any value |
| `TripleBegin`, `TripleStore` | `_sysfs_store` of the notifier (148-172): any register, mask and value, one store each, in any order |
| `Notify`, `NotifyLoad` | `_reboot_notifier` (87-118): pick the mode's settings, then load register, mask and value one by one, in any order |
| `RebootClear`, `RebootSet` | `_regmap_update` (56-85): clear the field, then set it; a mask of zero writes the whole register |
| `StoreBegin`, `StoreRead`, `StoreWrite`, `ShowBegin`, `ShowRead` | `scratch_store` and `scratch_show` (`hdr.c`), `_scratch_store_str` and `_scratch_show_str` |
| `ProbeUpdate`, `RegisterNotifier` | `cisco_register_reboot_notifier` (174-274), after the files have been added: the update of `reboot-notifier-probe`, then the modes whose register is present |
| `PowerController` | external: acts on the commands in `cfg7` and clears them |

`owed`, `loose`, `torn`, `ideal` and `clean` are ghosts: what was accepted,
whether the last request asked for several commands or for one that was to
leave the others in place, which settings are a mixture of two stores, what a
file would hold if stores were one step, and which files are free of overlaps
and failures. The code accepts any settings and any value of `cfg7`, two
commands at once among them, so `OneCommand` exempts what a single request asks
for and claims the rest: no two requests for one command each ever become two.
That includes settings mixed from two stores, whose own bits say what they
ask for. Families of files that share no register are explored separately
(`family`). `cfg5` and `fc_ready` are left out: each of their fields is written
by one atomic update under its own mask, so nothing can go between.

`MfdCells` is `cisco_fpga_mfd_cells`. The ROM, its block headers and the
firmware's children are inputs; `Open` sizes the buffers and checks the ROM,
`SetupMaxIrqs` is the first pass over the blocks, `ConfigInfo`, `ConfigIntr`,
`SkipBad` and `ConfigBlock` one step each of the second pass, `AdjustIds`
`adjust_cell_ids`. Any read may fail. `Wanted` and `Kept` define the result
over the whole ROM at once, and `CellsMatch` compares. ROMs older than version
6 have no table and count as 255 blocks; one more for the ROM itself is as many
as `block_offset` holds, which the check at line 71 refuses, so the lines for
such ROMs further down (527-534) are not reached.

`I2cSmb` is `cisco-fpga-i2c.c`: `Begin` checks the message, `ClearStatus` to
`Start` write the engine's registers in the code's order, `WaitDone` and
`Recover` are the wait and the recovery it starts, `Drain` and `Close` the copy
and the switching off of `EXT0`. An error ends the call at once, as in the
code, so `ext0`, `busy` and the buffers carry over to the next call. `job` is
the access the engine works on, put together from all of these registers when
the start bit is written. The lock between the users never fails here.

`PowerSeq` is `cisco-fpga-pseq.c` on the x86 CPU: `PseqProbe` and the delayed
work it schedules, `_probe_status` one register at a time, `PseqRemove`, which
cancels the work without waiting for it, `Release`, after which a work that was
already running is in `orphans`, and a reader of a rails file that reads one or
two registers while `Sequence` changes them.

Each module holds *faulty variants* of some actions, named after the action
(`Action_Slip`, or the slip itself, as `ClearArb_Returns`).
No specification uses them. They are plausible slips, and replacing the action
by its variant makes TLC find the property violated that `PROJECT.json` pairs
with it, which shows that the property depends on that piece of code.

## The runs

| Run | Instance | Shows |
|---|---|---|
| `Arb` | two tasks of one host, one of the other; one failing access, one restart, expiries | exclusiveness outside tainted periods; no leak, no self-wait, no stale request; refinement of `BusMutex`; every `lock_bus` of a host that stays up returns; an orphaned semaphore is reclaimed |
| `ArbTimed` | three tasks, one of two policies: settings with grant > retry and a long timeout, or settings too small for the bus use | a waiting host is overtaken once per grant of the other and within its first sleep only, waits are bounded and nothing expires; in any case `lock_bus` returns in time |
| `ArbReadError` | two tasks | the finding below |
| `ExtTransfer` | calls of one user after another, two failing accesses, a restart, one failure of the arbitration, retries = 1, an engine of version 5; two-chunk write, two-chunk read, write then a read of more than 256 bytes | success means executed in order; own data in the first 256 bytes of each chunk; bounded repeats; the engine is idle when started and when left; every call returns, and each of its steps leaves less of it |
| `ExtLongRead` | one user, nothing fails; a read of up to 256 bytes, then one of more, version 5 | the second finding below |
| `I2cSmb` | two users, two failures among failing accesses and restarts; short and long writes, block reads that fit and that do not | no access contains anything of another call; success means executed; every call returns |
| `BmcAccess` | two tasks on one register, one on another cell; one failing transfer, one failure of the arbitration | no lost update; accesses stay in their register |
| `GpioBoots` | two blocks; no, legal and illegal parameter; two loads of the module in a boot; any number of reboots, requests and rebinds; one failing access | which boots initialise pins |
| `GpioPin` | one gpiolib task, the irq task, both writing sysfs files; an interrupt left on by the boot before, or an output set high; four operations, one failing access; any number of edges | updates undo each other only if they overlap; no edge is lost |
| `BlockFiles` | two administrators, the probe and a reboot, two commands, one failing access; any value of `cfg7`, settings for the whole register and for one bit of it | two commands only where a request asked for them, none lost; whole settings; words torn only by overlaps or failures |
| `MfdCells` | ROMs of up to five blocks of seven kinds, counts of 0, 1, at and above the table and all ones, old ROMs, wrong magic numbers; four descriptions by the firmware; three filters | the cells are those of the definition over the whole ROM; buffers hold them; the two passes agree |
| `PowerSeq` | two registers of two rails, none to more rails than bits; every source of `active`; any number of probes and removals | lines of a file are true at some time of the read; the delayed work never starts on a device that goes away |

`MfdCells` runs without the deadlock check because the function returns.

Why these bounds are enough to be interesting. Two hosts are all there are. A
second task on a host makes the mutex matter; a third adds nothing, as only one
is past it, and the hosts are alike. One failing access and one restart, at any point, already give
every orphan; budgets are needed because each failure adds histories, and the
theorems hold for any budget. Two chunks and two messages are the least that
distinguish a stale status or window from a fresh one, two units of the window
the least of which one is not read, and two failing accesses
the least that make a retry fail in its turn. In `ExtTransfer` one user is
enough for what a lone caller finds: a restart makes its call nobody's and
leaves the engine as it was, in any line of the call, and the next call is like
that of another host. Two users at once only meet in tainted periods, where only
`CallEnds` and `CallsShrink` claim anything; that steps of others add nothing to
a call, and what they leave for the period after, is covered by the theorems,
which hold for any users. In the timed run the sized settings
are the smallest with `grant > retry + LateBound`, in two values so that sysfs
has something to change. In `GpioPin` two overlapping updates are the least
that lose a setting, and two more operations put the pin into any state before
and enable the interrupt; the fields are symmetric, so three forms of `config`
(input, output with a level, interrupt) suffice. In `GpioBoots` nothing bounds the number of reboots. In `BlockFiles`
two tasks are the least that overlap, and two commands the least that can be
pending together; a word has one significant bit, which is enough to tell two
values apart. In `MfdCells` the table has six entries, so that the limits are
at counts that can be explored, and five blocks hold two of any kind with a
tail and a silent block between. In `I2cSmb` two failures are the least by
which one call leaves something behind and another one finds it and fails.

## Fairness

`FairSpec` of `Arbitration`: a task that is past the mutex goes on (its thread
is runnable or in a timed sleep); a poll that finds the semaphore free, or the
expiry, eventually happens (the loop has a deadline); a transfer ends (which
`CallEnds` of `I2cExt` shows for the engine); and the `rt_mutex` serves its
waiters, hence strong fairness for `LockBus`. Nobody is obliged to ask for the
bus. `OrphanReclaimed` assumes explicitly that the segment stays in use.

`FairSpec` of `I2cExt`: a call does not stop between two accesses. The engine
owes nothing: `WaitDone` may give up as long as the start bit is set, because
the loop has a deadline, so `CallEnds` does not need the engine to answer.

`FairSpec` of `I2cSmb`: a call goes on, nothing more. The wait and the recovery
both have deadlines (`cisco-fpga-i2c.c` 85-110, 243-271), so the engine need
not answer, and `CallReturns` holds without any promise by it.

The other specifications are checked for safety only.

## The proofs

`ArbitrationProofs` proves, for any set of tasks on the two hosts and any
budgets, `TypeCorrect` (`Spec => []TypeOK`), `MutexHeld` (`[]LockHeld`) and
`MutualExclusion` (`[]Exclusive`). `Exclusive` is not inductive: it says
nothing of a task about to enter. The inductive invariant is

    IInv == TypeOK /\ LockHeld /\ OwnerHoldsSem

`OwnerHoldsSem` says that in an untainted period a task that took the
semaphore finds its host's name in it, so owners on different hosts exclude
each other; `LockHeld` says that a task past `lock_bus` holds its host's mutex,
so tasks of one host do. The proof has one step per action. All three
conjuncts were first checked by TLC, and the other two are invariants of `Arb`;
`OwnerHoldsSemaphore` states the third for itself.

`Refinement`, in the same module, is `Spec => ImplementsSegment`: every step is a
step of `BusMutex` or leaves its state alone, with the users being the tasks
at `bus`. It uses `IInv` for the case that matters, that a task which reads
the semaphore as free enters an empty or tainted segment.

The three invariants of `Arb` that hold while no access has failed and no host
has restarted are `NoLeak`, `NeverSelfWait` and `RequestsWithdrawn` (`SemaphoreNotLeaked`, `NoSelfWait`, `NoStaleRequest`). The
invariant is

    FInv == TypeOK /\ LockHeld /\ (FaultFree => Held /\ Asked)

`Held`: a semaphore that is not free is held for a session which will write it
back. `Asked`: a raised flag belongs to a session that disputes the segment.
Sessions that expire write the semaphore back too, and may free that of the
other host, which is why `Held` asks for some owner on the host and not for a
particular one. `NeverSelfWait` follows: the session that the semaphore is held
for would be a second one behind the host's `rt_mutex`, against `LockHeld`.

About `ArbitrationTimed`, also in `ArbitrationProofs`: every timed step is a
step of `Arbitration`, so all of the above holds of it too. `ReturnsInTime`
(`LockReturnsInTime`) holds for any settings and with failing accesses; its
invariant, `TimerInv`, is that what a wait has lasted and what is left of its
sleep come to no more than the deadline and one sleep. `OvertakingBounded`,
`WaitsBounded` and `SizedIsExclusive` (`BoundedOvertaking`, `WaitBounded`,
`ExclusiveWhenSized`) assume that no access fails (`FaultBudget = 0`, as in the
run) and hold for all other values of the constants, including settings of
very unequal length. Their invariant `TurnInv` says of a waiting task that it is
in one of two situations:

* `FirstSleep`: it has not polled yet. Its flag is up, so a session of the other
  host that begins now sleeps a grant first: the n-th that overtakes does so
  after n - 1 grants (`Due`).
* `Retrying`: it has found the semaphore taken, so its rival was on the bus,
  leaving it, or handing over. Whoever waits now wakes later than the task
  (a grant exceeds a retry and the lateness), so nobody overtakes any more, and
  once the bus is vacated it polls within a retry, or within two if it met
  the hand-over.

The attempt to prove it corrected the property. `BoundedOvertaking` used to say
"two sessions", which is right for grants of about the same length and false if
one host's grant is several times the other's: the long sleeper is overtaken
once per grant of the other. It now counts grants. From `SettingsAssumption`: a
set of settings has a least and a largest value, as settings are `u32`.

`GpioPinProofs` proves `OverlapOnly`, `Spec => []UpdatesKept`, for any tasks,
operations, files' contents and failures. `UpdatesKept` speaks of the register;
what makes it inductive is the same for the drafts:

    IInv == Shape /\ UpdatesKept /\ DraftsFit

`DraftsFit` says that a task about to write the register back holds, for the
fields it is about, values that suit it and, for all others, values that suit
whoever set them last: either nobody has set them since it read them, or
nobody may count on them. `UpdateStep` shows that a read keeps the invariant
and `AssignStep` that a write does; every operation is an instance of the two,
but for the write of `clr` in `config`. `Shape` is the part of the type
invariant that is needed.

`EdgesSeen` (`NoEdgeLost`) adds

    EdgeInv == (intState, msi, unseen are Booleans) /\ Latched /\ Waiting

which speak of runs without a failed access: a latch that is set while its
interrupt is enabled has a message on its way or a handler about to look
(`Latched`), and an edge that no handler has seen is in the latch with such a
message or handler coming, or is in the hands of the handler that cleared it
(`Waiting`).

Assumptions: `ConfigsAssumption`, that `config` accepts only values of its
tables (`Accepted`; `cisco-fpga-gpio-sysfs.c:275-422`), and `TriggersAssumption`, that a
trigger is of edges or of levels, as the irq core defines them; and, for the
arbitration, that the two hosts differ, `Free` is neither, `NoTask` is no task, and
each task has a host. TLC evaluates all of them in the runs.

`BlockFilesProofs` proves `SingleCommand`, `CommandNotLost` and `TripleWhole`
(`OneCommand`, `PendingKept`, `WholeTriple`), for any tasks, commands, modes,
settings, values and failures. The invariant is the three with `CommandInv`: a
control store that nothing has overtaken finds nothing owed (`FreshIsFirst`);
what the notifier has loaded of settings that nobody is storing is what they
are (`Loaded`); and each mode's setting was given as a whole, or is being stored,
or is known to be mixed (`Whole`), with the fields a lone store has written so
far equal to those it was given. `OneCommand` needs no help from these: each
writer either leaves at most one command, or says that it may not. From
`BlockAssumption`: settings are made of a register, bits of `cfg7` as a mask
and bits as a value, with no further condition.

Of the other family of files it proves `WideStays` (`WideWhole`). `WideInv` follows each
store through its registers: what it has written is its own and what is left is
as it read it, unless another call has met it (`CallFits`); a file that nobody
is storing to holds its ideal value, unless it was marked unclean
(`Resting`).

`I2cExtProofs` proves `SuccessIsReal`, `StartsOnIdleEngine` and
`LeavesEngineIdle` (`SuccessMeansExecuted`, `StartsOnIdle`, `LeavesIdle`), for
any users, transfers, failures and restarts, and for every way in which the
engine may end an access. `Alone` says of each user of an untainted segment:
the engine works on the chunk that user is at (`EngineOwn`), a start bit that
dropped with a status free of errors means that chunk has completed
(`Completed`), all chunks before it have (`Behind`) and in their order
(`InOrder`), and while no access failed the engine is idle and out of reset
where the driver takes it to be (`Clean`). `Common` is what also holds when the
segment is tainted. From `TransfersAssumption`: a transfer has a message, and a
message a chunk.

`ReadsAreOwn` and `RepeatsWithinRetries` (`ReadsOwnData`, `RepeatsBounded`) use
`DataInv`, which adds to this, for a user of an untainted segment: the
completions of its current chunk, with the one the engine may still add
(`Spent`), never outrun the retries it has counted (`RepeatInv`); from the
write of `cfg2` to the copy, RDATASIZE is what its chunk asks for, as much of the
read window holds the chunk when the status says so, and it has copied out
one entry for each chunk of a read behind it (`ReadInv`, `Copied`).
`ReadsOwnData` is therefore about the first 256 bytes of each chunk, which is
all of it on an engine before version 5; the rest is the second finding.

`CallsRunDown` (`CallsShrink`) is the safety half of `CallEnds`. `Left` counts
what is left of a call, the outermost loop first: the chunks that may have to be
sent again after a failed `Fill`, the tries of the I2C core, the messages, the
chunks of the message, the attempts at the chunk, and the lines. Every step of
the call makes this less in the lexicographic order, and other users, the engine
and the arbitration never add to it; `NoEndlessDescent` is that the order has no
endless descent. So a call stops if only its steps go on being taken, which is
what the fairness of `CallEnds` adds. `CountInv` keeps the counters within their
limits, and `CallInv` the position within the transfer. The first count is paid
in failing accesses, of which the model allows any number but a finite one; the
code pays it in bytes, as a `Fill` that fails has always consumed some.

`I2cSmbProofs` proves `OwnAccessOnly` and `SuccessIsReal` (`OwnAccess`,
`SuccessMeansExecuted`). Its invariant is

    IInv == Shape /\ OneCall /\ \A u \in User : UserInv(u)

where `OneCall` is the lock, and `UserInv` says what a call has loaded into the
engine's registers by the time it is at each line (`Loaded`), that the access in
the engine is then the one its message asks for (`InEngine`), and that a call
about to report success has seen that access completed (`Executed`). What an
earlier call left in `ext0` or the buffers may be there when the next begins;
`Loaded` shows each being overwritten before the start bit. From
`UserAssumption`: the names of no, the recovery's and a forgotten access are
not users.

`BmcRegmapProofs` proves `TypeCorrect`, `NoUpdateLost` and `StaysInRegister`
(`TypeOK`, `NoLostUpdate`, `OnlyOwnRegister`). Its `IInv` has the users of the
segment be the tasks on the bus; while untainted there is one, and the latched
address is the one it sent (`BusInv`); whoever is in `regmap_update_bits` holds
the regmap's lock (`LockInv`); and, as long as no period has been tainted, a
value just read is the register's, a value about to be written differs from it
in the task's own bit at most, and a task that is done finds its bit as it left
it (`Fits`).

`DriverLifeProofs` is about two drivers over loads, boots and removals; that
the names of `PowerSeq`'s specification begin with `Pseq` is so that one module
can extend it together with `GpioReboot`.

Of `GpioReboot` it proves `OneDecisionForAll`, `ColdBoot`, `WarmBoot` and
`OneReboot`, for any blocks, parameters, failing accesses, loads and reboots.
`DecisionInv` says what `m_reboot_type` can be wherever a lone probe is, and
that pins written or kept show the type that was decided; `ColdInv` and
`WarmInv` say, of a first load, that until the type is decided no block has got
past reading its scratch register, and that the register still holds what was
asked for. From `ParamsAssumption`, the values `module_param` can take, and
`BoundsAssumption`.

Of `PowerSeq` it proves `RailsAsTheyWere` and `WorkStartsInTime` (`RailsShown`,
`NeverStartsLate`), for any registers, names, pages, probes and removals, and
rails that change at any time. Its invariant is

    PseqInv == PseqShape /\ ReadInv /\ RailsShown /\ WorkInv

`ReadInv` follows the reader through its registers: each bit it has read was so
at some time since it came, as its history says, and the history has whatever is
so now, which it may read next. What the loop of `_show_rails` prints is a recursive function over the
bits of a register; that it exists is proved first (`LoopExists`), then, by
induction over the bits, that it appends the lines of the rails whose bit is
set, lowest first, each by its own name and none twice (`Adds`, `Orders`), and
that two registers one after the other make one such list. `WorkInv` has the
delayed work scheduled only on a bound device. From `PowerSeqAssumption`: the
table of names has an entry for each bit of both registers.

`MfdCellsProofs` proves `BuffersNeverOverrun`, `PassesAgreeOnIrqs` and
`CellsAreTheRoms` (`BuffersFit`, `IrqsAgree`, `CellsMatch`), for ROMs and tables
of any length. Each has an invariant of its own on top of the one before.

* `FitInv`: a programmed count that passed the checks is below the size of the
  table, also with the ROM's own cell (`Admitted`), and the second pass has made
  no more cells than it has gone over blocks, with two resources and a name each
  (`Room`). A count of all ones is not such a count: with the ROM's own block
  added it wraps to zero, passes the checks, and yields buffers without room.
  `BuffersFit` has its case too, that the second pass then builds nothing. It is
  about the buffers that are written; a read of the table beyond its end, which
  a walk with no silent block to stop it makes, is exempt.
* `PassInv`: `off` is where the block at hand starts; the first pass has met no
  end before it, and `max_irqs` is then that of the interrupt block it stopped at
  (`Scanned`), which is the one that the second pass meets (`Passed`, `Stopped`).
* `CellsInv`: the cells so far come from the blocks to be kept, each from one, in
  order (`Match`), and `adjust_cell_ids` has compared the first `i` with all
  after them, and changed those that have a twin and no others (`Adjusted`).

The start of a block is a sum over all blocks before it, a recursive function.
That it exists, and that starts increase, is proved by induction, as the
absence of a least counterexample (`LeastNatural`, from the well-foundedness of
the naturals; `BeginsExist`, `StartExists`, `StartsGrow`). From `MfdAssumption`:
a row of the table of known blocks lists one interrupt at most, as all rows of
`cisco_fpga_blks` do; and, of the ROM image, that the first block of a good one
is the ROM itself and that no block is empty.

Only model-checked: liveness under fairness (`RequestServed`,
`OrphanReclaimed`, `CallEnds`, `CallReturns`), which the proof system does not
cover. Every other property of a passing run is stated by a theorem, and so are the
types of `Arbitration` and `BmcRegmap`, which no run repeats.

## Findings

* `ArbReadError`: the comment at `i2c-arbitrate.c:94` says that an error is
  taken for ownership; the error is stored in a `u32` and `arb <= 0` is false.

* `ExtLongRead`: `cisco-fpga-i2c-ext.c:230` limits the length to 256 before
  RDATASIZE is made of it (241), while line 246 lets up to `hw->bufsize`, 512
  from version 5 on, be copied out. The window (`i2c-ext.h:29`, "0x23c - 0x43c
  rdata for v5") and the RDATASIZE field have room for 512. A read of more than
  256 bytes reports success with bytes that its access has not read.

Observed while modelling, without a run of their own:

* The comment at `i2c-arbitrate.c:71` promises exclusive access; after an
  expired wait `obtain_arbitration` returns all the same. `Exclusive` exempts
  such periods, `ExclusiveWhenSized` says when they do not occur.
* The comment at `cisco-fpga-gpio-init.c:181` says that pins are initialised
  for a cold reboot only; the first load of the module after a warm reboot
  consumes the request, so loading it again initialises them too
  (`ColdBootInitialises` and `WarmBootKeeps` speak of the first load).
* ROMs older than version 6 are refused always (`mfd.c` 508 and 71), although
  lines 505 and 527-534 provide for them.
* `cisco-fpga-i2c.c:136` tests `I2C_FUNC_10BIT_ADDR` where `I2C_M_TEN` is the
  flag of a message, so a ten-bit message is not refused.
* `_scratch_store_str` (`msd_xil_sysfs.c` 361-371) reports success after a
  write that failed half-way.
* The power sequencer's delayed work, if it is running when the device is
  removed, goes on with memory that is freed (`orphans`).

## What is not modelled

Left out for good: formatting and parsing of text, identification registers,
the version checks and regions in the probes of MSD, XIL, info and CPLD, the
NPU status that XIL decodes, `cfg5` and `fc_ready`, the register trace, which
nothing calls, and the kernel's management of object lifetimes. Left for later:
step 7 of the plan. In `I2cExt` lengths count in units of 256 bytes and empty
messages are left out (they succeed without an access); in `I2cSmb` a failing
lock and the addresses are left out; in `BlockFiles`, what a notifier action
does to a register other than `cfg7`, and a second probe; in `MfdCells` the
resources and names beyond their number; in `GpioPin`, the parsing of `config`
is the set of requests it accepts, and level interrupts are set but do not
fire; in the arbitration, the wrap of `jiffies` and other writers of the
request registers.
