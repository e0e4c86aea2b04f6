---------------------------- MODULE GuestLevel -----------------------------
(***************************************************************************)
(* The level a guest hypervisor believes it is at.                         *)
(*                                                                         *)
(* The hardware runs the guest at EL1 or EL0; HCR_EL2.NV makes EL1 look    *)
(* like EL2 to it and traps its ERETs.  exit_from_ro (ohv_vcpu.cpp) turns  *)
(* NV on and off, records the level in guest_at_el2, completes the guest's *)
(* returns, and hands a return into the guarded level to the hardware,     *)
(* which it can only do with NV off (nv_off_for_geret).                    *)
(*                                                                         *)
(* One vCPU.  Its slot and HCR_EL2 are touched by its own thread only; the  *)
(* dirty word beside them is not: the hv_gic_* calls of device threads mark *)
(* it too, with the same plain |= (mark_dirty), and can take a mark away.   *)
(* Modes stand for the M field of an SPSR.  An exit that hv_vcpu_run drops  *)
(* for a cancel never reaches exit_from_ro, and is no step here.            *)
(***************************************************************************)

CONSTANT Devices     \* threads of the VMM that make hv_gic_* calls

VARIABLES
  nv,                \* HCR_EL2.NV in the context's controls
  guest_at_el2,      \* VcpuSlot::guest_at_el2
  nv_off_for_geret,  \* VcpuSlot::nv_off_for_geret
  pair,              \* mode in the page's banked SPSR
  spsr_gl1,          \* mode in SPSR_GL1, which nothing clears
  where,             \* what the guest is executing
  intent,            \* the return the guest has prepared; "handed": its ERET was
                     \* trapped and is to be executed again
  dirty,             \* the blocks of the page marked for the next entry
  running,           \* the vCPU is in the guest
  hwNv, hwPair,      \* NV and the banked SPSR as the hardware has them
  marking, seen,     \* devices inside mark_dirty, and the dirty word they loaded
  lost,              \* history: marks a device's store took away, and the vCPU's
                     \* thread has not made since
  illegal            \* history: the hardware was given a return it refuses,
                     \* although no mark was lost

nvVars     == <<nv, guest_at_el2, nv_off_for_geret>>
guestVars  == <<where, intent>>
hwVars     == <<hwNv, hwPair>>
markVars   == <<dirty, lost>>
deviceVars == <<marking, seen>>
vars == <<nvVars, pair, spsr_gl1, guestVars, markVars, running, hwVars, deviceVars,
          illegal>>

Modes == {"EL0", "EL1", "EL2", "reserved"}

Blocks == {"CONTROLS", "SYSREGS"}

\* hypervisor: its own code at hardware EL1.  nested: the EL1 guest it hosts
\* (to the boot loader, itself).  monitor: the monitor's own code, which the boot
\* loader branches to.  task: EL0.  guarded: what a guarded return entered.
Places == {"hypervisor", "nested", "monitor", "task", "guarded"}

AtEl1 == {"hypervisor", "nested", "monitor"}

TypeOK ==
  /\ nv \in BOOLEAN /\ guest_at_el2 \in BOOLEAN /\ nv_off_for_geret \in BOOLEAN
  /\ pair \in Modes /\ hwPair \in Modes
  /\ spsr_gl1 \in Modes \union {"none"}
  /\ where \in Places
  /\ intent \in {"none", "ordinary", "guarded", "handed"}
  /\ dirty \subseteq Blocks /\ lost \subseteq Blocks
  /\ marking \subseteq Devices /\ seen \in [Devices -> SUBSET Blocks]
  /\ running \in BOOLEAN /\ hwNv \in BOOLEAN
  /\ illegal \in BOOLEAN

\* hv_vcpu_create of a VM with EL2: NV set and marked, at EL2.
Init ==
  /\ nv = TRUE /\ guest_at_el2 = TRUE /\ nv_off_for_geret = FALSE
  /\ pair = "EL1" /\ hwPair = "EL1" /\ spsr_gl1 = "none"
  /\ where = "hypervisor" /\ intent = "none"
  /\ dirty = {"CONTROLS"} /\ lost = {} /\ running = FALSE /\ hwNv = FALSE
  /\ marking = {} /\ seen = [d \in Devices |-> {}]
  /\ illegal = FALSE

-----------------------------------------------------------------------------
(* The dirty word. *)

\* mark_dirty on the vCPU's thread, whose marks no other step comes between:
\* what its store could discard is a device's mark, not one of its own.
MarkDirty(blocks) == dirty' = dirty \union blocks /\ lost' = lost \ blocks

\* mark_dirty on a device's thread: the load, and
DeviceLoad(d) ==
  /\ d \notin marking
  /\ marking' = marking \union {d}
  /\ seen' = [seen EXCEPT ![d] = dirty]
  /\ UNCHANGED <<nvVars, pair, spsr_gl1, guestVars, markVars, running, hwVars, illegal>>

\* the store: of what was loaded, with the GIC's bit, and for some calls the
\* controls' as well.  Marks made in between are gone.
DeviceStore(d, blocks) ==
  /\ d \in marking
  /\ marking' = marking \ {d}
  /\ dirty' = seen[d] \union blocks
  /\ lost' = lost \union (dirty \ dirty')
  /\ UNCHANGED <<nvVars, pair, spsr_gl1, guestVars, running, hwVars, seen, illegal>>

-----------------------------------------------------------------------------
(* What every exit goes through before its reason is looked at.  ec is the   *)
(* syndrome's exception class; high: the pc is in the kernel's half.         *)

\* The vCPU has left the guest; the hardware's copies stay as they are.
Exited == running /\ running' = FALSE /\ UNCHANGED <<hwVars, deviceVars>>

\* The banked pair is in the page and left alone there.
PairKept == pair' = hwPair

\* The guarded exit ends what the guarded ERET began.
NvBack(ec) == nv_off_for_geret /\ ec = "guarded exit"

\* NV after the restore, and after the re-arming for code in the kernel's half.
NvAtExit(ec, high) == nv \/ NvBack(ec) \/ high

\* What those two mark.
MarkAtExit(ec, high) ==
  IF NvBack(ec) \/ (high /\ ~nv) THEN {"CONTROLS"} ELSE {}

GeretAtExit(ec) == nv_off_for_geret /\ ~(ec = "guarded exit")

\* The exit changes nothing beyond that.
PrologueOnly(ec, high) ==
  /\ nv' = NvAtExit(ec, high)
  /\ MarkDirty(MarkAtExit(ec, high))
  /\ nv_off_for_geret' = GeretAtExit(ec)
  /\ UNCHANGED guest_at_el2

-----------------------------------------------------------------------------
(* Trapped returns. *)

\* spsr_illegal_reason: modes a hardware return refuses at any level.
SpsrIllegal(m) == m = "reserved"

\* Mutant of EretIsGuarded: any value in SPSR_GL1 will do.
EretAlwaysGuarded == spsr_gl1 # "none"

\* Mutant of EretIsGuarded: a pair that was never written will do as well.
EretUnwritten == ~SpsrIllegal(spsr_gl1) /\ spsr_gl1 # "EL2"

\* eret_is_guarded.
EretIsGuarded == spsr_gl1 # "none" /\ ~SpsrIllegal(spsr_gl1) /\ spsr_gl1 # "EL2"

\* Mutant of HandOver: the change of HCR_EL2 is not marked.
HandOverUnmarked ==
  /\ EretIsGuarded
  /\ pair' = spsr_gl1
  /\ nv' = FALSE /\ nv_off_for_geret' = TRUE /\ MarkDirty({"SYSREGS"})
  /\ intent' = "handed"
  /\ UNCHANGED <<guest_at_el2, where>>

\* A guarded return left to the hardware: the guarded pair goes where an ERET
\* looks for it, NV comes off, and the instruction is executed again.
HandOver ==
  /\ EretIsGuarded
  /\ pair' = spsr_gl1
  /\ nv' = FALSE /\ nv_off_for_geret' = TRUE /\ MarkDirty({"SYSREGS", "CONTROLS"})
  /\ intent' = "handed"
  /\ UNCHANGED <<guest_at_el2, where>>

\* A return completed here.  NV comes off only for the guest's EL1.
CompleteEret(high) ==
  /\ ~EretIsGuarded /\ guest_at_el2
  /\ IF hwPair = "EL1"
       THEN nv' = FALSE /\ guest_at_el2' = FALSE /\ MarkDirty({"CONTROLS"})
       ELSE /\ nv' = NvAtExit("eret", high) /\ MarkDirty(MarkAtExit("eret", high))
            /\ UNCHANGED guest_at_el2
  /\ nv_off_for_geret' = GeretAtExit("eret")
  /\ where' = CASE hwPair = "EL1" -> "nested"
                [] hwPair = "EL0" -> "task"
                [] OTHER -> "hypervisor"
  /\ intent' = "none"
  /\ PairKept

\* Not a hypervisor's: the VMM is given the exception.
EretToVmm(high) ==
  /\ ~EretIsGuarded /\ ~guest_at_el2
  /\ PrologueOnly("eret", high)
  /\ PairKept
  /\ UNCHANGED guestVars

\* An ERET at hardware EL1 traps while NV is on.
TrappedEret ==
  /\ where \in AtEl1 /\ intent # "none" /\ hwNv
  /\ Exited
  /\ HandOver \/ \E high \in BOOLEAN : CompleteEret(high) \/ EretToVmm(high)
  /\ UNCHANGED <<spsr_gl1, illegal>>

-----------------------------------------------------------------------------
(* The other exits that change the level.  An ERET that was handed back is the *)
(* next instruction of its guest, so none of these comes first.                *)

\* Mutant of EnterGuestEl2: the entry is built without NV.
EnterWithoutNv ==
  /\ pair' = "EL1" /\ guest_at_el2' = TRUE /\ nv' = FALSE
  /\ MarkDirty({"SYSREGS", "CONTROLS"})
  /\ nv_off_for_geret' = GeretAtExit("hvc")
  /\ where' = "hypervisor" /\ intent' = "none"

\* enter_guest_el2: an exception into the guest hypervisor's own EL2.
EnterGuestEl2 ==
  /\ pair' = "EL1" /\ guest_at_el2' = TRUE /\ nv' = TRUE
  /\ MarkDirty({"SYSREGS", "CONTROLS"})
  /\ nv_off_for_geret' = GeretAtExit("hvc")
  /\ where' = "hypervisor" /\ intent' = "none"

\* An HVC of the hosted guest goes to its hypervisor, any other to the VMM.
TrappedHvc ==
  /\ where = "nested" /\ intent # "handed"
  /\ Exited
  /\ IF ~guest_at_el2
       THEN EnterGuestEl2
       ELSE /\ \E high \in BOOLEAN : PrologueOnly("hvc", high)
            /\ PairKept
            /\ UNCHANGED guestVars
  /\ UNCHANGED <<spsr_gl1, illegal>>

\* The guest leaves the guarded level and is back in the code that entered it.
GuardedExit ==
  /\ where = "guarded"
  /\ Exited
  /\ \E high \in BOOLEAN : PrologueOnly("guarded exit", high)
  /\ where' = (IF guest_at_el2 THEN "hypervisor" ELSE "monitor") /\ intent' = "none"
  /\ PairKept
  /\ UNCHANGED <<spsr_gl1, illegal>>

\* The boot loader's write of s3_6_c15_c15_7: the monitor runs next.
HandoffWrite ==
  /\ where = "nested" /\ intent # "handed"
  /\ Exited
  /\ nv' = TRUE /\ guest_at_el2' = TRUE /\ MarkDirty({"CONTROLS"})
  /\ nv_off_for_geret' = GeretAtExit("msr")
  /\ where' = "hypervisor" /\ intent' = "none"
  /\ PairKept
  /\ UNCHANGED <<spsr_gl1, illegal>>

\* An exit about something else, at any point of the guest.
OtherExit ==
  /\ Exited
  /\ \E high \in BOOLEAN : PrologueOnly("other", high)
  /\ PairKept
  /\ UNCHANGED <<spsr_gl1, guestVars, illegal>>

-----------------------------------------------------------------------------
(* The kernel and the guest. *)

\* The run trap loads the blocks that are marked.
Enter ==
  /\ ~running /\ running' = TRUE
  /\ hwNv' = IF "CONTROLS" \in dirty THEN nv ELSE hwNv
  /\ hwPair' = IF "SYSREGS" \in dirty THEN pair ELSE hwPair
  /\ dirty' = {}
  /\ UNCHANGED <<nvVars, pair, spsr_gl1, guestVars, lost, deviceVars, illegal>>

\* Modes that an ERET at EL1 does not go to: PSTATE.IL is set, at the same level.
Refused(m) == m \in {"EL2", "reserved"}

\* With NV off the hardware performs an ERET, from EL1 and by the banked pair.
HardwareEret ==
  /\ running /\ ~hwNv
  /\ where \in AtEl1 /\ intent # "none"
  /\ illegal' = (illegal \/ (lost = {} /\ Refused(hwPair)))
  /\ where' = CASE Refused(hwPair) -> where
                [] ~Refused(hwPair) /\ intent = "handed" -> "guarded"
                [] hwPair = "EL0" /\ intent # "handed" -> "task"
                [] OTHER -> "nested"
  /\ intent' = "none"
  /\ UNCHANGED <<nvVars, pair, spsr_gl1, markVars, running, hwVars, deviceVars>>

\* A return is prepared in the banked pair; the guest prepares legal ones, and
\* only a hypervisor names EL2.
PrepareReturn ==
  /\ running
  /\ where \in AtEl1 /\ intent \in {"none", "ordinary"}
  /\ hwPair' \in IF where = "hypervisor" THEN {"EL0", "EL1", "EL2"} ELSE {"EL0", "EL1"}
  /\ intent' = "ordinary"
  /\ UNCHANGED <<nvVars, pair, spsr_gl1, where, markVars, running, hwNv, deviceVars,
                 illegal>>

\* MSR ELR_GL1, MSR SPSR_GL1: never trapped, whether NV is on or not.
PrepareGuardedReturn ==
  /\ running
  /\ where \in {"hypervisor", "monitor"} /\ intent # "handed"
  /\ spsr_gl1' \in Modes
  /\ intent' = "guarded"
  /\ UNCHANGED <<nvVars, pair, where, markVars, running, hwVars, deviceVars, illegal>>

\* The boot loader enters the monitor with a branch: nobody hears of it, and NV
\* is as it was, until an exit at the monitor's addresses.
BranchToMonitor ==
  /\ running
  /\ where = "nested" /\ intent # "handed"
  /\ where' = "monitor" /\ intent' = "none"
  /\ UNCHANGED <<nvVars, pair, spsr_gl1, markVars, running, hwVars, deviceVars, illegal>>

\* An SVC from EL0 is taken at EL1 by the hardware.
Svc ==
  /\ running
  /\ where = "task"
  /\ where' = IF guest_at_el2 THEN "hypervisor" ELSE "nested"
  /\ UNCHANGED <<nvVars, pair, spsr_gl1, intent, markVars, running, hwVars, deviceVars,
                 illegal>>

Next ==
  \/ TrappedEret \/ TrappedHvc \/ GuardedExit \/ HandoffWrite \/ OtherExit
  \/ Enter \/ HardwareEret \/ PrepareReturn \/ PrepareGuardedReturn
  \/ BranchToMonitor \/ Svc
  \/ \E d \in Devices :
       DeviceLoad(d) \/ DeviceStore(d, {}) \/ DeviceStore(d, {"CONTROLS"})

Spec == Init /\ [][Next]_vars

-----------------------------------------------------------------------------
(* Properties. *)

\* While the library takes the guest for a hypervisor in its own code, NV is on:
\* otherwise its next CurrentEL reads EL1 and its next ERET is not trapped.
HypervisorHasNv == guest_at_el2 /\ ~nv_off_for_geret => nv

\* The hardware is never given a return it refuses (a return to EL2 from EL1,
\* or a reserved mode): it would set PSTATE.IL and fault somewhere else.  Returns
\* made while a mark is missing that a device's mark_dirty took away do not count.
NoIllegalReturn == ~illegal

\* The hardware runs with the NV the library decided on: every change of
\* HCR_EL2 is marked before the guest is entered again.  The one thing that comes
\* between is a device's mark_dirty that took the mark away, and only until the
\* vCPU's thread marks the controls again.
ControlsReachHardware == running /\ "CONTROLS" \notin lost => hwNv = nv

=============================================================================
