# A TLA+ model of OpenHypervisor

OpenHypervisor is a replacement for Apple's Hypervisor.framework: a library a
virtual machine monitor (VMM) links, which talks to the kernel through its raw
hypervisor trap. It runs guests that are themselves hypervisors, and it does in
the process a good deal of what the framework leaves to the kernel or to nobody:
nested virtualisation, emulated timers, an interrupt gate, a GIC. This project
models the parts of it that are hard to test: what two threads, the guest and
the kernel can do to each other between two lines of the library.

Paths are those of the repository (`src/ohv_vcpu.cpp` is the file of that name
in its `src/` directory). "External" means code outside the library, modelled
from how the library uses it: kernel, hardware, guest, VMM.

## 1. The system

| Component | State | Operations | Module |
|---|---|---|---|
| vCPU run loop and cancel (`ohv_vcpu.cpp`) | `exit_requested`, `pub_exit`, the timer mask in the context page | `hv_vcpu_run`, `exit_from_ro`, `hv_vcpus_exit`, `hv_vcpu_set_vtimer_mask` | `VcpuRun`, which implements `VcpuPromise` |
| Guest level, nested virtualisation (`ohv_vcpu.cpp`) | `HCR_EL2.NV` and its dirty mark, `guest_at_el2`, `nv_off_for_geret`, the return pairs | `exit_from_ro` on ERET, HVC, guarded exits, kernel addresses; the handoff write in `service_nv2_access` | `GuestLevel` |
| Interrupt gate, emulated timers (`ohv_vcpu.cpp`) | `vmm_fiq`, `vmm_irq`, `in_wfx`, the timers' control words, `HCR_EL2.VF` and `VI` | `hv_vcpu_set_pending_interrupt`, `ohv_vcpu_set_parked`, `ohv_expire_timers`, `ohv_set_fiq_level`, `ohv_set_irq_level`, timer writes in `service_nv2_access` | `InterruptGate`, composed with `MonitorBand` |
| Monitor band (`ohv_vcpu.cpp`) | `g_monitor_band`, each slot's `sptm_base` | `ohv_note_image_band` | `MonitorBand` |
| VM, vCPU, GIC lifecycle (`ohv_vm.cpp`, `ohv_vcpu.cpp`, `ohv_gic.cpp`, `ohv_state.cpp`) | `g_vm_alive`, `g_vm_el2`, `g_gic`, `g_vcpus`, `g_nested_asid`, the threads' `tl_current_vcpu`, two mutexes | create and destroy of each | `Lifecycle` |
| GIC model (`ohv_gic.cpp`) | distributor bits, list registers, the dirty word | `hv_gic_set_spi`, the register setters, reset, state transfer, `mark_dirty` | `GicSpi` |
| Guest memory (`ohv_vm.cpp`) | `g_maps`, `g_map_count`, the kernel's mappings, nested copies | `hv_vm_map`, `hv_vm_unmap`, `hv_vm_protect`, the calls on one space, `ohv_guest_ptr` | `GuestMemory` |
| Trapped registers (`ohv_vcpu.cpp`) | blocks of the context page, `el2_shadow`, `gl2_bank`, `id_regs`, `gic_if`, `apple_shadow`, one function-level static | `service_nv2_access`, `sysreg_access`, `control_field_access` | `TrappedRegs` |
| Stage-1 walk (`ohv_vcpu.cpp`) | none: it reads the guest's tables | `ohv_translate_stage1` | `Stage1Walk` |
| Configuration, ID registers, capabilities, SME state (`ohv_misc.cpp`, `ohv_vm.cpp`, `ohv_object.cpp`) | plain objects | getters, setters | not modelled |
| C++ wrapper, exports, generated tables and prototypes, tools, tests | | | not modelled, except that the wrapper's run loop and `exit_vcpus` are the VMM of `VcpuRun` |

How they interact. A VMM thread owns a vCPU and calls `hv_vcpu_run` in a loop;
other VMM threads call `hv_vcpus_exit` to bring it out. One `hv_vcpu_run` is
many entries into the guest: before each, `ohv_expire_timers` notes where the
guest is (the monitor band, shared by all vCPUs) and recomputes the guest's
interrupt levels by it; after each, `exit_from_ro` decides whether the exit is
the library's (guest level, register traps) or the VMM's. Library, kernel and
hardware communicate through a context page with a dirty word: a control
register changed and not marked is not loaded. The slots `g_vcpus` are shared by
all threads; the lifecycle calls guard them with two different mutexes.

What is hard here:

* a cancel lands between two entries, where the kernel cannot deliver it;
* an exit that a cancel overtakes is dropped, and must come again;
* `HCR_EL2.NV` is turned on and off by five handlers, with two flags beside it
  and a hardware copy behind it;
* the guest goes into its monitor without an exit, with whatever interrupt level
  was decided on at the last entry;
* several vCPUs learn and publish the monitor's address at once, and each goes by
  what it learnt first;
* a VM is destroyed and another created in the same process;
* the dirty word is a plain word that the vCPU's thread and every thread that
  makes `hv_gic_*` calls change by load and store, so each can undo the others'
  marks, those for the controls and the register blocks too;
* `hv_gic_set_spi` decides by copies of the list registers that are as old as
  the last exit;
* the record of mappings is changed outside the mutex and read without one, and
  either side of the pair of record and kernel mapping can fail;
* a block of registers is carried to the hardware as a whole, so a write of one
  register carries whatever the page has of its neighbours;
* the same silicon is reached by several names and from three sides: the guest
  in hardware, the guest through a trap, the VMM.

The hazards, each at its line, are listed in `PROJECT.json`.

## 2. Modules

### VcpuRun: the run loop and the cancel

One action per step of the thread between two accesses to shared state.

| Action | Code |
|---|---|
| `Enter`, `EnterRefused` | top of the loop in `hv_vcpu_run`, the run trap, and its error return |
| `CheckAfterRun` | the latch exchanged right after the trap; a hit returns CANCELED and drops the exit |
| `ExitFromRo` | the classification by the kernel's reason, one disjunct per class |
| `ReturnExit`, `CheckTurnaround` | EXIT_TO_VMM clears the latch unread; EXIT_KEEP_RUNNING exchanges it once more |
| `ExitCall`, `LatchExit`, `RunCancel` | `hv_vcpus_exit`: the latches one by one, then the trap |
| `VmmHandle`, `VmmInject`, `GuestExit`, `GuestTimer` | external: VMM, kernel, guest |

The guest is a stream of trapping instructions, each the library's or the VMM's
to carry out; `effects` counts how often each was. `work` stands for whatever
the VMM wants injected when it kicks. `slack`, `kicks` and `cancels` are history
variables. Two things are assumed of the kernel: it reports reason 0 ("nothing
to report") only for a cancel, and, as the comment after the run trap says, it
may report something else although a cancel was asked for.

### VcpuPromise: what the calls promise

The run loop as a VMM sees it, without latch, trap or classification: a vCPU is
with the VMM, in the library or in the guest; work wanted of it is collected when
the VMM next runs it; trapping instructions are carried out one by one in program
order, by the library in passing or by the VMM, which a returning `hv_vcpu_run`
leaves owing exactly one or none. `VcpuRun!ImplementsPromise` is its
specification under the mapping `Holder` (where the thread is), `work` and
`effects`. The dropped exits, the turnarounds and the latch are all stutters;
what the mapping forbids is a cancelled call that leaves an instruction half
done, an instruction handed to the VMM that the library has already carried out,
and work that goes away without a return.

### GuestLevel: NV and the level the guest believes in

Every exit goes through the prologue of `exit_from_ro` (`NvAtExit`,
`MarkAtExit`, `GeretAtExit`: the restore at the guarded exit and the re-arming
at kernel addresses) and then through the part for its class: `TrappedEret`
(`HandOver`, `CompleteEret` or `EretToVmm`), `TrappedHvc`, `GuardedExit`,
`HandoffWrite`, `OtherExit`. `hwNv` and `hwPair` are what the hardware runs with;
`Enter` loads each if its block is marked. Returns are abstracted to the level
they name, which is all the code looks at: EL0, EL1, EL2, or a mode no return may
name. The `OHV_NO_*` switches are off.

`DeviceLoad` and `DeviceStore` are `mark_dirty` on other threads, for the
`hv_gic_*` calls they make: the load and the store of the dirty word with anything
in between. A mark the store takes away is in `lost` until the vCPU's thread makes
it again. The vCPU's own `mark_dirty` is one step: what could come between its
load and its store are a device's steps, and of those it discards the device's
marks, which are `GicSpi`'s subject.

Assumed of the guest: the returns it prepares in the banked pair are legal, and
only a hypervisor names EL2 in one (`PrepareReturn`); what it leaves in SPSR_GL1
is anything. The boot loader branches to the monitor with NV as it is
(`BranchToMonitor`, as the comment in `exit_from_ro` has it). An ERET that was
handed back to the hardware (`intent = "handed"`) is the next instruction of the
guest: exits may come first, an exception taken inside the guest does not.

### MonitorBand

`ohv_note_image_band` on every vCPU at once: each load and each
compare-and-exchange of `g_monitor_band` is a step, and the weak exchange may
fail for no reason. Bands are numbers with 0 for "none", as in the code.

### InterruptGate: when the lines may be up

The gate of one vCPU, `Self`, on top of `MonitorBand`, whose state and steps it
shares (`EXTENDS`). The lines, the timers and the gate are as in the code with the
default `OHV_TIMER_GATE`; the other gate modes and the `OHV_..._UNGATED` switches
are diagnostics and left out.

| Action | Code |
|---|---|
| `NoteBand`, `PublishBand` | `ohv_note_image_band` at the start of `ohv_expire_timers`, with the PC the guest really has; other vCPUs step in between |
| `Enter` | the rest of `ohv_expire_timers`, and the run trap |
| `SetPendingFiq`, `SetPendingIrq`, `SetParked` | the VMM's calls |
| `OtherCore` | `ohv_note_image_band` on another vCPU, whose guest code may be in any band |
| `Release` | external: a kernel on another vCPU, which has therefore been through an entry at its addresses, starts this one as a secondary |
| `Take`, the exits, `SetMask`, `Genter`, `MonitorMoves`, `Gexit`, `MonitorUnmasks` | external: hardware and guest |

`SetLevels` is the pair `ohv_set_fiq_level`, `ohv_set_irq_level`, applied to the
state the caller has just established. Both return early where the level does not
change and mark the controls where it does; the levels are taken here as the
hardware's at once, and what becomes of a mark is `GuestLevel`'s subject. `where`
is what the guest executes: nothing ("off", a secondary before its release), the
firmware, a secondary's entry into the monitor at physical addresses, SPTM, TXM
(the monitor's two images) or the kernel. `GuestInMonitor` compares its band with
the one the slot holds, as the code does. Assumed of the guest: SPTM is the lowest
of its images, TXM and the kernel the next two; the monitor comes out at least
once before the boot core has a kernel (on real boots it does hundreds of times),
from either image; a secondary's entry is masked; a handler touches its device (an
exit) before it enters the monitor, and a GENTER masks.

### Lifecycle

`hv_vm_create` and `hv_vm_destroy` are one critical section each.
`hv_gic_create` is three steps under `g_vm_mutex` (scan, publish, enable),
`hv_vcpu_create` four (unlocked checks, then kernel vCPU, slot and interface
under `g_vcpus_mutex`), `hv_vcpu_destroy` two, because these interleave. The
scan of `hv_gic_create` over the slots is one step. A slot records what the
properties need: used, owner, interface enabled, nested space joined. Any thread
may destroy any id, and a VM may be destroyed under its vCPUs; the trap destroys
the caller's vCPU whatever the id. The kernel may refuse it (`DestroyRefused`):
the slot is freed all the same, and the thread is left with a vCPU that the
library has forgotten. The same may happen to the vCPU that a create gives up
because its context has the wrong version (`CreateAbandoned`). Such threads are in
the history variable `stranded`, by name, until the VM goes; `KernelAgrees` says of
them what the code leaves behind and of all others that library and kernel agree.
The history variable `disorderly` says whether a VM was destroyed under its vCPUs
or a vCPU by another thread, and `KernelAgrees` is claimed only until then.

### GicSpi: shared interrupts

| Action | Code |
|---|---|
| `SpiDisabled`, `SpiNotFilled`, `SpiFill`, `SpiDown` | `hv_gic_set_spi`, one disjunct per way through it |
| `SetDistributorReg`, `SetInterfaceReg`, `SetIchReg`, `Reset`, `SetState` | the setters by what they change, `hv_gic_reset`, `hv_gic_set_state` |
| `MarkLoad`, `MarkStore` | `mark_dirty`, by the VMM's thread and, after `VcpuMark`, by the vCPU's |
| `Enter`, `Exit`, `Acknowledge`, `EndOfInterrupt` | external: kernel and hardware |

An entry of the page has the flag `OHV_ICH_LR_DIRTY` beside it: the kernel loads
the flagged ones when the GIC state is marked and reports on the others at the
exit. The VMM makes its `hv_gic_*` calls one at a time. Priorities are left out;
the registers of the model nothing reads back are one.

### GuestMemory: mappings and their record

`Map`, `Unmap`, `Protect` begin a call; `TrapDone` and `TrapRefused` are `map_op`
for one space after another, the main one first, whose answer is the call's;
`Remember` and `Store` change `g_maps`, the count and the slot being stores of
their own in either order. `Lookup` and `Scan` are `ohv_guest_ptr`, one turn of
the loop a step, with sums modulo `Word`. `SpaceOp` is the exported family that
changes one space. One thread maps. External: the kernel carries a trap out or
refuses it.

### Stage1Walk: the answer to a trapped AT

The walk as a recursive function, beside a definition of what an AT answers that
does not walk: the address is split into fields from the bottom, and a translation
is a chain of tables that ends in a leaf. The reference has the architecture's
rules where the code has its own: the first table begins at a multiple of its own
size (`FirstTable`), blocks are at level 2, and at level 1 with the smallest pages
only (`BlockLevels`), and with the MMU off an address beyond the physical ones
faults. `Supported` says for which addresses, sizes and tables the two are
compared; section 4 lists what the code does with the others. Permissions, the
access flag, TBI and EPD are in neither.

The widths are parameters: in the code pages of 12, 14 and 16 bits, descriptors of
3, addresses of 64, physical ones of 48 and none smaller than 16; for TLC pages of
4, 5 and 6, addresses of 10, physical ones of 9 and none smaller than 5. Granule
codes, start level, index width, table base and block offset are computed as in the
code. The guest writes descriptors and controls, so the states are all tables.

### TrappedRegs: registers and the ways to them

One vCPU, whose thread makes all the calls, so a call is one step; device threads
mark the same dirty word, by load and store. A register stands for each way of
keeping one: the banked EL1 block, the shared registers that go with it, the GXF
block, a control field, a word of the VNCR page, the three tables that fill in
order of first use, a slot of its own, the static that vCPUs share, and one that
the VMM answers for.

| Action | Code |
|---|---|
| `Trap`, `OtherExit`, `Enter`, `GuestWrite` | external: guest and kernel; `ExitBlocks` are the sets of blocks an exit may bring |
| `ServeGxf` to `ServeTable`, `ServeAt`, `ServeMaintenance`, `Unmatched` | `service_nv2_access`, in its order of tests |
| `VmmCompletes` | external: the VMM carries out what was left to it |
| `VmmGet`, `VmmSet`, `VmmGetSlot`, `VmmSetSlot` | `sysreg_access`, by kind of register, with the sync, its refusal, and the filter of CPTR_EL2 (`Out`) |
| `VmmGetControl`, `VmmSetControl` | `control_field_access` and its callers |
| `DeviceLoad`, `DeviceStore` | `mark_dirty` in `hv_gic_*` calls of other threads |

Properties are about places. `truth` is a history variable: what was last written
to a place, by anyone. A register may have a place for each side: the guest's
TTBR0_EL2 is the banked TTBR0_EL1, the VMM's a word of `el2_shadow` (`VmmPlace`);
SCTLR_EL2, VBAR_EL2, CPTR_EL2, MDCR_EL2, VPIDR_EL2, VMPIDR_EL2 and the CTRR
registers are split alike. What one side writes to such a name the other does not
read, and the properties do not say that it does.

Any exit may leave any block behind, that of a trapped access too, and
`service_nv2_access` does not sync. What is then old in the page is `Stale`. The
history variable `astray` has the registers for which the code leaves the value
open, and the properties are claimed outside it. There are three ways into it: a
device's store takes a mark away or puts a used one back while page and hardware
differ; a trapped write marks a block that the exit left behind, and carries its
stale neighbours along; the VMM writes a shared register, which nothing marks. The
next write that arrives takes a register out again.

Calls of the VMM for other registers while an access is handed to it commute with
its answer, and are made after it. An access to CSSELR_EL1 always traps (TID2 is
in the kernel's fixed set, says the code), so the guest does not write it in
hardware.

Memory is sequentially consistent in all modules. The atomics of the library
that are modelled are single words whose accesses are all atomic. Plain words
written by several threads are loads and stores of their own (`mark_dirty` in
`GicSpi`, `GuestLevel` and `TrappedRegs`, `g_maps` in `GuestMemory`).

## 3. Runs

| Run | Bounds | Shows |
|---|---|---|
| `run_loop` | 1 vCPU, 2 kickers, 2 calls, 2 instructions | `NoLostKick`, `ExactlyOnce`, `MaskedTimerTold`, `PromptCancel`, `CancelBudget`, the refinement `ImplementsPromise`, and `WorkCollected` under `Spec` |
| `run_loop_quiet` | 1 vCPU, 1 call, 1 instruction | violation of `WorkCollected` under `QuietSpec` |
| `guest_level` | 2 device threads; the rest is finite | `HypervisorHasNv`, `NoIllegalReturn`, `ControlsReachHardware` |
| `interrupt_gate` | 1 vCPU, 3 bands, 1 timer | `NeverTakenInMonitor`, `LevelDownAtGenter`, `HeldIrqOffered`, `TimerOffered` |
| `gate_two_cores` | 2 vCPUs, 3 bands, no timer | `LowestKnown`, `BandNeverRises`, and with them `NeverTakenInMonitor`, `LevelDownAtGenter` |
| `parked_genter` | 1 vCPU, 3 bands, 1 timer | violation of `NothingCarriesTheLevel` |
| `lifecycle` | 3 threads, 2 slots, 2 VMs, any order of destroying | `InterfaceOn`, `KernelAgrees` |
| `gic_spi` | 2 SPIs and an interrupt of the VMM's own, 2 list registers | `QueuedOnce`, `QueuedUntilTaken`, `LoweredTakenBack`, `WrittenIsMarked` |
| `spi_dropped` | 1 SPI, 2 list registers | violation of `SomewhereToDeliver` |
| `guest_memory` | 3 regions, 2 buffers, a table of 2 records, 1 nested space, addresses modulo 8, 1 refused trap | `RecordedIsMapped`, `MappedIsRecorded`, `NestedFollowMain`, `QuietLookupRight` |
| `stage1_walk` | 4 descriptors, 2 outputs, all granules and sizes | `WalkAgrees` |
| `trapped_regs` | 2 values, 2 writes, a table of 1 for 2 names, 2 sets of blocks an exit may bring, 1 device thread | `ReadsBack`, `HardwareCurrent` |

Each passing run of a module that has one also checks its type invariant.

Why the bounds are enough. vCPUs do not read each other's slots in `VcpuRun`, so
one shows what several would, and the theorems hold for any number; two kickers
give overlapping kicks, two calls a kick during the handling of another, two
instructions an exit dropped while the fields of the one before are still
published. The guest's timers differ only in their register numbers and are joined
by an "or"; one of them is enough for the gate, and the theorems hold for any. The
run with two vCPUs leaves it out: the VMM's lines pass the same gate. It has
secondaries released with no band of their own, and vCPUs that keep a band higher
than the one another has published since. Three bands give
an exchange that loses to a lower and to a higher value. Two VMs give one life
after another, three threads two creators and a `hv_gic_create`. In `GicSpi`,
two list registers and three interrupts give a full set, and an entry emptied and
another filled in its stead between two entries into the guest. In `GuestMemory`
three regions overfill the table and force a record to be moved, two buffers give
a region mapped anew elsewhere, and the ranges looked up lie across a border of
two regions and at the end of one. In `GuestLevel` a device may load the word before any mark
and store it after, and two of them may restore what each other took away. In
`Stage1Walk` an address of full width has
all four levels of the smallest page, and the four descriptors are two tables, of
which the second may name itself, so chains of every length occur; TTBR has an
ASID above the physical address and CnP below the table. In `TrappedRegs` a second
name finds the table of one full; one set of blocks has the guarded bank and not
the others, the other the reverse, so each block is left behind by some exit; two
writes give a register and a neighbour whose older value must not come back.
Two runs declare a symmetry, `gic_spi` of the
SPIs and `guest_memory` of the buffers, which nothing orders; neither checks a
liveness property.

Deadlock is checked except in two runs. In `lifecycle` the last VM may be
destroyed, after which every call is refused and changes nothing. In
`guest_memory` the VMM may have nothing left to do that changes anything.

Fairness. `VcpuRun!ThreadFairness`: threads of the process are scheduled, and a
cancel delivered inside the run trap ends it (that is what the trap is for).
`QuietSpec` has nothing more: a guest may compute for ever. `Spec` adds that host
interrupts end every stay in the guest sooner or later, which holds on a host
whose timer ticks; with it the library re-examines the latch at each turnaround.
`InterruptGate!Spec`: the thread in `hv_vcpu_run` is scheduled (weak fairness of
`Thread`), and the weak compare-and-exchange does not fail for no reason for ever
(strong fairness of the exchange). Nothing is assumed of the guest;
`HeldIrqOffered` and `TimerOffered` ask as their premise that it keeps entering
with the line open, on a vCPU that holds SPTM's band.

## 4. Where the code and its comments disagree

Each has a run that ends in the counterexample; the quotations are in
`PROJECT.json`.

1. `run_loop_quiet`. The loop enters the guest without a look at the latch. A
   kick latched after the last check whose RUN_CANCEL comes before the entry
   reaches nobody, until the guest comes out for another reason. The latch is
   not lost (`NoLostKick`), but nothing bounds the wait.
2. `parked_genter`. A parked vCPU is given a line whatever its masks say. Woken
   with its interrupts masked, the guest does not take it and enters the
   monitor with the level up.
3. `spi_dropped`. An entry that is only active counts as queued. A line that goes
   down and comes up before the guest ends the interrupt is a bit in
   GICD_ISPENDR, which nothing reads again.

More was seen while modelling and has no run. Levels and interrupts:

* The race of `mark_dirty` can lose the mark of the controls: a device thread that
  loaded the word before the mark and stores it after leaves the hardware with the
  old NV, and with the old return pair, until something marks them again.
  `ControlsReachHardware` and `NoIllegalReturn` say it is the only way.
* `eret_is_guarded` asks SPSR_GL1 alone, which keeps its value after a guarded
  return; a later ordinary return is then handed to the hardware with that pair. That is
  legal to the hardware and goes where the guest did not ask; `NoIllegalReturn`
  does not forbid it.
* `ohv_internal.h` says `nv_off_for_geret` means NV is off until the guarded
  exit, and that NV is on only while the guest hypervisor runs its own code; the
  re-arming at kernel addresses in `exit_from_ro` looks at neither flag.
* A timer routed to the IRQ line (`OHV_TIMER_IRQ_VCPUS`) passes the gate of the
  FIQ as well: `TimerOffered` fails with `TimerAsIrq = TRUE`.
* `sptm_base` is refreshed from `g_monitor_band` only while zero, so a vCPU keeps
  a higher band when a lower one is published, until its own guest is found
  there. That is safe (`gate_two_cores`, `MonitorNeverInterrupted`): the band is
  never above the guest's at an entry, so the monitor is not taken for the
  kernel. The kernel may be taken for the monitor, and lines are then held back
  there, which is why the liveness properties ask for the right band.

Lifecycle:

* `hv_vm_destroy` rebuilds the slots and leaves the threads' `tl_current_vcpu`;
  an old thread passes `owned_vcpu` in the next VM.
* `hv_vcpu_destroy` destroys the caller's vCPU in the kernel whatever the id, and
  frees the slot whether the kernel destroyed it or not. A thread whose destroy was
  refused can create no other vCPU if the kernel keeps to one for each thread, and
  the lowest free slot has a number the kernel has given away, so creates on other
  threads fail until the VM goes.
* `hv_gic_create` looks for vCPUs under one mutex while `hv_vcpu_create` adds one
  under another. The documented order is not enforced; the outcome is benign
  (`InterfaceOn`).
* `g_nested_count` is not set back with the VM, so a second VM's vCPUs join the
  first one's nested spaces. `g_maps` survives `hv_vm_destroy` as well.

GIC:

* The race of `mark_dirty` can lose a GIC mark; `WrittenIsMarked` says it is the
  only way to lose one. Nothing marks again until the next call.
* An SPI that finds the list registers full, or is enabled after its line went
  up, is not offered later. `hv_gic_reset` leaves the list registers.
* `hv_gic_state_create` gives an object of zeroes, and restoring it zeroes
  GICD_TYPER.

Memory and walk:

* `ipa + len` wraps in `ohv_guest_ptr`; `QuietLookupRight` excludes such ranges.
  A record being moved can be read half moved, and a raised count before its
  slot. `hv_vm_unmap` of part of a mapping leaves or loses the whole record.
* A region mapped anew has the old record until the new one is stored;
  `__hv_vm_map_space` records nothing; two mapping threads can interleave their
  stores.
* The walk ignores address bits above `va_bits`, wraps its index for 49 to 52
  bits with pages of 4K, takes sizes of address below 16 bits, and accepts a type 1
  descriptor at level 3 and a block at levels 0 and, with pages of 16K and 64K, 1.
  It rounds TTBR to a page where the first table is smaller than one, and with the
  MMU off cuts an address to 48 bits. `Supported` excludes these. Permissions, the
  access flag, TBI and EPD are not looked at.

Registers:

* The static behind the PSTATE field is shared by all vCPUs.
* The VMM's SCTLR_EL2, TTBR0_EL2, VBAR_EL2 (`el2_shadow`), CPTR_EL2, MDCR_EL2,
  VPIDR_EL2, VMPIDR_EL2 and CTRR registers are other places than the guest's trapped
  accesses to them use.
* `service_nv2_access` reads and marks blocks without a look at STATE_VALID and
  without the sync that `sysreg_access` makes for the guarded bank: a trapped read
  of a block the exit left behind is old, and a trapped write carries the block's
  old values to the hardware. `__hv_vcpu_get_ext_reg` reads without a sync as well.
* A VMM's write of a shared register is not marked, and reaches the hardware only
  if something else marks the block.
* The race of `mark_dirty` can lose the mark of a register block, or put back one
  that the entry has used up: then an old page is loaded over newer hardware.
* `synth_msr_trap_syndrome` reads PC as a physical address also with the MMU on.

## 5. Proofs

`tlapm` checks eight modules of proofs, one for each component, with
`MonitorBand` and `InterruptGate` together, for every value of the constants. TLC
has checked every inductive invariant below on the bounds of the component's run.

| Theorem | Inductive invariant and why it is needed |
|---|---|
| `VcpuRunProofs!TypeCorrect` | `TypeInv`, which adds `ExitDescribesGuest`: an exit being decoded or handed to the VMM names the instruction the guest is at. The VMM moves the guest on the strength of it, so the bound on `gpc` needs it |
| `KickNeverLost` (`NoLostKick`) | `KickInv` adds that an idle kicker has nothing left to latch: a new call starts with a fresh list and would otherwise drop what was left of the last |
| `CancelIsPrompt` (`PromptCancel`) | `SlackInv`: a latch that stands before the entry has not been passed by any entry yet, so the one that is permitted is still left |
| `EffectsExactlyOnce` (`ExactlyOnce`) | inductive together with `TypeInv`: servicing an exit retires the instruction the guest is at and no other |
| `TimerMaskIsTold` (`MaskedTimerTold`) | inductive together with `TypeOK` |
| `CancelsAccountedFor` (`CancelBudget`) | `BudgetInv`: for each vCPU the cancels heard and those still due (a standing latch, a cancel in the trap, a kicker that has still to make its own) are at most two for each setting of its latch. The number of kickers still to come is a cardinality, hence `KickersFinite` |
| `PromiseKept` (`ImplementsPromise`) | `TypeInv` and `ExactlyOnce`: an exit that is answered is of the next instruction in program order (`RetireCarriesOut`), and a step moves one vCPU only (`OnlyOneMoves`) |
| `GuestLevelProofs!LevelTypeCorrect`, `HypervisorKeepsNv`, `NvReachesHardware`, `ReturnsAreLegal` | `LevelInv`: NV decided and NV loaded agree unless the controls are marked or their mark was lost (`MarkedOrLoaded`); while no mark is missing, wherever NV is off the pair the hardware has, or will be given, is one it performs (`PairReturnable`); and a hypervisor is without NV only on its way into the guarded level and in it (`OffForGuarded`) |
| `InterruptGateProofs!BandTypeCorrect`, `LowestBandIsKnown`, `BandOnlyFalls` | `BandInv`: every band a vCPU ran in is accounted for, by the shared word or by a vCPU still in the loop with one as low; an exchange stores a lower value than the one it expects; a vCPU that is through the loop with a band has left one as low in the shared word |
| `GateImplementsBand` | every step of gate, guest and VMM is one of `ohv_note_image_band` or leaves the bands alone (`BandStep`), so `BandInv` holds in the composition |
| `GateTypeCorrect`, `MonitorNeverInterrupted` (`NeverTakenInMonitor`), `LevelNeverCarried` (`LevelDownAtGenter`) | `GateInv`, with `BandInv`. At an entry the vCPU holds a band, not above the one its guest is in (`NoteLeaves`), so that in the monitor the gate says so, however stale the band (`EntryAllows`). A secondary is masked until it leaves physical addresses, and finds a band to take over, because the vCPU whose kernel released it had published one (`BandInv`) and it never goes back to 0 (`BandFalls`). Hence a line up in the kernel of an unparked vCPU is takeable or being handled, so no GENTER can happen first, and in the monitor no line is up |
| `LifecycleProofs!LifecycleTypeCorrect`, `InterfaceAlwaysOn` (`InterfaceOn`) | `IdInv`: a call has the number of a slot exactly while it works on one, so that two creators can be told apart when one of them fills and the other joins |
| `KernelAlwaysAgrees` (`KernelAgrees`) | `OrderInv`: as long as all is in order, no two threads have the same vCPU in the kernel (`Distinct`), and each thread's own idea of its vCPU, the kernel's and the owner of the slot agree up to the step of a create or destroy that the kernel has already carried out and the slot does not show yet (`AgreeInv`, by `InStep` for the threads in step and `LeftBehind` for the stranded ones, whose slot no create can take because the kernel has its number) |
| `GicSpiProofs!GicTypeCorrect`, `WrittenEntriesMarked` (`WrittenIsMarked`) | inductive together with the types |
| `InterruptQueuedOnce` (`QueuedOnce`), `QueuedStaysQueued` (`QueuedUntilTaken`), `LoweredIsTakenBack` (`LoweredTakenBack`) | `LrInv`, about `Due(i)`, what a list register of the hardware will hold once the page is loaded: the flagged entry of the page, or the hardware's own. Copies in the page are as old as the last exit, and what is due is not; in it no interrupt occurs twice |
| `GuestMemoryProofs!MemoryTypeCorrect`, `RecordAlwaysMapped` (`RecordedIsMapped`), `MappedAlwaysRecorded` (`MappedIsRecorded`) | `RecordInv`, about `Due(s)`, the record as the stores under way will leave it, which the stores themselves do not change: no region is due twice (so the slot that `map_forget` finds is the only one), each due record is backed except the one whose memory a map has just exchanged, and each mapping is due except the one that an unmap has forgotten (`CallDue`) |
| `NestedAlwaysFollow` (`NestedFollowMain`) | `NestedInv`: in the middle of `map_op` a space the loop has not come to has what the trap will turn into the main one's |
| `LookupRight` (`QuietLookupRight`) | `ScanInv`: a lookup that has met no update has passed only records that do not contain the range. `RegionFacts` and `ContainsIsInside` say that comparing sums modulo the word is right where nothing wraps |
| `TrappedRegsProofs!RegsTypeCorrect`, `AlwaysReadsBack` (`ReadsBack`), `HardwareAlwaysCurrent` (`HardwareCurrent`) | `RegsInv`. Pages, for registers not astray: in a block that is current or marked they are right in the page, in one that is not marked, or while the guest runs, in the hardware (`BlocksInv`); controls and the VNCR page are always right in the page (`ControlsInv`). A write that is marked makes its own register right and sends astray what is stale beside it (`ArrivesInv`); a sync leaves nothing stale (`SyncedRight`). Tables: entries are right and of different registers; a register without one is right in the VMM's file, and unwritten while there is room; what the VMM is handed from a table has no room there |
| `Stage1WalkProofs!WalkAlwaysAgrees` (`WalkAgrees`) | no state carries over but the guest's tables, so the invariant is their type; the work is in the operators, below |

`WalkAlwaysAgrees` covers the widths of the code as well as TLC's. Its argument:
the loop that looks for the first level stops where the fields of the address,
counted from the bottom, use it up (`FirstLevel`); the index, cut short at the
first level, is the architecture's field (`IndexIsField`), the leaf the base of its
block with the offset in it (`LeafIsPa`), the two granule tables agree
(`GranuleIsPageBits`). The walk is a recursive function over four levels: that it
exists and obeys its equation is shown by giving it level by level, from the last
up (`WalkUnfolds`), and in the same order that from each table of each level it
comes to the one address the chains from there lead to, or to a fault where there
is none (`AgreeHere`, `AgreeAll`). The provers know nothing of `^`, so
`PowerAssumption` states the two facts that are used of powers of two (they are
positive numbers, and the power of a sum is the product), up to the width of an
address; TLC evaluates it.

Assumptions on the constants are those named in the modules (`RunAssumption` and
the like): bounds are naturals, flags Booleans, bands numbers, and the set of
kicking threads is finite. `GateAssumption`: the guest's images are in three bands
that follow one another, and no code is below them. `WalkAssumption`: pages are of
three growing sizes, larger than a descriptor, and no block of them is larger than
the physical addresses. `MemoryAssumption`: regions are disjoint, not empty and
end below the top of the word; the null pointer is no buffer. `RegsAssumption`: an
encoding is of one register, so the names of the tables are not those of another
kind (the code's tests are made in an order, and the first that matches answers);
`gic_if` and `ctrr` have room for one entry at least (they have 48 and 6). With a
`ctrr` of no entries `AlwaysReadsBack` would be false: the VMM would be handed one
register under two names.

Only model-checked: liveness (`WorkCollected`, `HeldIrqOffered`, `TimerOffered`),
which is out of the prover's reach. Every invariant and action property of a
passing run is proved.

## 6. Not modelled

* Configuration objects, capabilities and ID register tables (`ohv_misc.cpp`,
  `ohv_vm.cpp`, `ohv_object.cpp`): getters, setters and reference counts of plain
  objects; the tables are data. That ID registers are loaded before the first
  access is in `TrappedRegs`.
* SME and AMX state: copies of register files with no decision in between.
* The initial register values of a vCPU: constants.
* `hv_vm_allocate`, `hv_vm_deallocate`: mmap and munmap.
* `hv_gic_send_msi`: checks and no effect.
* Gate modes 0 to 3 and the `OHV_*` environment switches: diagnostics, off by
  default.
* The counter and AMXIDR reads of `service_nv2_access`, and
  `synth_msr_trap_syndrome`: a decoding of one instruction.
* Exports, generated enums and prototypes, tools and tests: declarations,
  forwarding, and programs outside the library.

## 7. Plan

What could follow: several mapping threads in `GuestMemory`; the nested spaces of
one VM's life and the next in `Lifecycle` (now only described above); the initial
register values of a vCPU against what `sysreg_access` reads of them.
