--------------------------- MODULE InterruptGate ---------------------------
(***************************************************************************)
(* When the guest's virtual FIQ and IRQ lines may be up.                   *)
(*                                                                         *)
(* HCR_EL2.VF and VI are levels.  A level standing while the guest crosses *)
(* from the kernel into its monitor (GENTER, no exit) is taken inside the  *)
(* monitor through the kernel's vectors, which wedges the core.  So        *)
(* ohv_expire_timers, before every entry, and the VMM's calls in between   *)
(* raise a line only where the guest takes it at once (ohv_vcpu.cpp, the   *)
(* default rule of OHV_TIMER_GATE, and no OHV_..._UNGATED).                *)
(*                                                                         *)
(* The gate of one vCPU, Self, composed with MonitorBand: all vCPUs run    *)
(* ohv_note_image_band, each where its own guest code takes it, and Self's *)
(* gate goes by the band that Self holds, which may be a higher one than   *)
(* the machine has come to know.                                           *)
(***************************************************************************)
EXTENDS MonitorBand

CONSTANTS
  Self,        \* the vCPU
  Sptm,        \* the band of SPTM; TXM's is the next, the kernel's the one after
  Timers,      \* the guest's timers: CNTP, CNTV
  TimerAsIrq   \* the vCPU is named in OHV_TIMER_IRQ_VCPUS

ASSUME GateAssumption ==
  /\ TimerAsIrq \in BOOLEAN /\ Self \in Vcpus
  /\ {Sptm, Sptm + 1, Sptm + 2} \subseteq Bands /\ \A b \in Bands : Sptm <= b

VARIABLES
  pc,              \* who has the vCPU: the guest, the VMM, or hv_vcpu_run
  why,             \* what the VMM was told the last time
  where,           \* what the guest executes; "off" before a secondary is released
  mask,            \* PSTATE.F, PSTATE.I
  handling,        \* line whose handler has not come out to its device yet
  wedged,          \* history: a line was taken inside the monitor
  vmm_fiq, vmm_irq, in_wfx,   \* as in VcpuSlot
  ctl,             \* control words: ENABLE, IMASK, ISTATUS
  due,             \* the counter has reached the compare value
  timer_fired,     \* timer_fired_v, timer_fired_p
  vf, vi           \* HCR_EL2.VF, HCR_EL2.VI

guestVars == <<where, mask, handling, wedged>>
lineVars  == <<vmm_fiq, vmm_irq, in_wfx>>
timerVars == <<ctl, due, timer_fired>>
levelVars == <<vf, vi>>
vars == <<pc, why, guestVars, bandVars, lineVars, timerVars, levelVars>>

Bits == {"ENABLE", "IMASK", "ISTATUS"}

TypeOK ==
  /\ BandTypeOK
  /\ pc \in {"guest", "loop", "note", "vmm"}
  /\ why \in {"wfx", "exception", "canceled"}
  /\ where \in {"off", "firmware", "entry", "sptm", "txm", "kernel"}
  /\ mask \in SUBSET {"F", "I"}
  /\ handling \in {"none", "F", "I"}
  /\ wedged \in BOOLEAN
  /\ vmm_fiq \in BOOLEAN /\ vmm_irq \in BOOLEAN /\ in_wfx \in BOOLEAN
  /\ ctl \in [Timers -> SUBSET Bits]
  /\ due \in [Timers -> BOOLEAN]
  /\ timer_fired \in [Timers -> BOOLEAN]
  /\ vf \in BOOLEAN /\ vi \in BOOLEAN

Init ==
  /\ BandInit
  /\ pc = "vmm" /\ why = "canceled"
  /\ where \in {"off", "firmware"} /\ mask = {"F", "I"}
  /\ handling = "none" /\ wedged = FALSE
  /\ vmm_fiq = FALSE /\ vmm_irq = FALSE /\ in_wfx = FALSE
  /\ ctl = [t \in Timers |-> {}]
  /\ due = [t \in Timers |-> TRUE]
  /\ timer_fired = [t \in Timers |-> FALSE]
  /\ vf = FALSE /\ vi = FALSE

-----------------------------------------------------------------------------
(* The gate. *)

\* A secondary runs its entry into SPTM at physical addresses.
Monitor == {"entry", "sptm", "txm"}

\* The band of the guest's PC; 0 for a physical address.
PcBand ==
  CASE where = "sptm" -> Sptm [] where = "txm" -> Sptm + 1 [] where = "kernel" -> Sptm + 2
    [] OTHER -> 0

\* ohv_guest_in_monitor: two bands from the one the vCPU holds.
GuestInMonitor ==
  sptm_base[Self] # 0 /\ PcBand >= sptm_base[Self] /\ PcBand < sptm_base[Self] + 2

\* Mutant of Takeable: the mask is not asked.
TakeableInKernel(l) == in_wfx \/ ~GuestInMonitor

\* ohv_fiq_takeable, ohv_irq_takeable: the guest takes line l as it enters.
Takeable(l) == in_wfx \/ (~GuestInMonitor /\ l \notin mask)

\* Before the monitor is known to exist there is nothing to be careful of.
Allowed(l) == sptm_base[Self] = 0 \/ Takeable(l)

\* ohv_timer_fiq_wanted, the default rule.
TimerFiqWanted == (\E t \in Timers : timer_fired[t]) /\ Allowed("F")

\* What ohv_set_fiq_level makes of HCR_EL2.VF.
FiqLevel == (TimerFiqWanted /\ ~TimerAsIrq) \/ (vmm_fiq /\ Allowed("F"))

\* Mutant of IrqLevel: the IRQ as it was, ungated.
IrqUngated == vmm_irq \/ (TimerAsIrq /\ TimerFiqWanted)

\* What ohv_set_irq_level makes of HCR_EL2.VI.
IrqLevel == (vmm_irq \/ (TimerAsIrq /\ TimerFiqWanted)) /\ Allowed("I")

\* Both lines, for the state the caller has just established.
SetLevels == vf' = FiqLevel' /\ vi' = IrqLevel'

-----------------------------------------------------------------------------
(* hv_vcpu_run: ohv_expire_timers, then the run trap. *)

\* The timer is enabled and its deadline has passed.
Expired(t) == "ENABLE" \in ctl[t] /\ due[t]

\* Mutant of CtlAtEntry: the status goes into a reserved bit.
CtlWrongBit(t) == IF Expired(t) THEN ctl[t] \union {"RES0"} ELSE ctl[t]

\* The control word as ohv_expire_timers leaves it.
CtlAtEntry(t) ==
  CASE Expired(t) -> ctl[t] \union {"ISTATUS"}
    [] "ENABLE" \in ctl[t] /\ ~due[t] -> ctl[t] \ {"ISTATUS"}
    [] OTHER -> ctl[t]

\* ohv_note_image_band, with which ohv_expire_timers begins; other vCPUs step in
\* between.
NoteBand ==
  /\ pc = "loop" /\ pc' = "note"
  /\ IF PcBand = 0 THEN NotePhysical(Self) ELSE Note(Self, PcBand)
  /\ UNCHANGED <<why, guestVars, lineVars, timerVars, levelVars>>

PublishBand ==
  /\ Load(Self) \/ Exchange(Self) \/ ExchangeFails(Self)
  /\ UNCHANGED <<pc, why, guestVars, lineVars, timerVars, levelVars>>

\* Mutant of Enter: the levels are left as the VMM's last call made them.
EnterStale ==
  /\ pc = "note" /\ step[Self] = "done" /\ pc' = "guest"
  /\ ctl' = [t \in Timers |-> CtlAtEntry(t)]
  /\ timer_fired' = [t \in Timers |-> Expired(t) /\ "IMASK" \notin ctl[t]]
  /\ UNCHANGED <<why, guestVars, bandVars, lineVars, due, levelVars>>

\* The rest of ohv_expire_timers: the timers, the levels; then the run trap.
Enter ==
  /\ pc = "note" /\ step[Self] = "done" /\ pc' = "guest"
  /\ ctl' = [t \in Timers |-> CtlAtEntry(t)]
  /\ timer_fired' = [t \in Timers |-> Expired(t) /\ "IMASK" \notin ctl[t]]
  /\ UNCHANGED <<why, guestVars, bandVars, lineVars, due>>
  /\ SetLevels

-----------------------------------------------------------------------------
(* The VMM, between two calls of hv_vcpu_run. *)

\* hv_vcpu_set_pending_interrupt.
SetPendingFiq ==
  /\ pc = "vmm"
  /\ vmm_fiq' = ~vmm_fiq
  /\ UNCHANGED <<pc, why, guestVars, bandVars, vmm_irq, in_wfx, timerVars, vi>>
  /\ vf' = FiqLevel'

SetPendingIrq ==
  /\ pc = "vmm"
  /\ vmm_irq' = ~vmm_irq
  /\ UNCHANGED <<pc, why, guestVars, bandVars, vmm_fiq, in_wfx, timerVars, vf>>
  /\ vi' = IrqLevel'

\* ohv_vcpu_set_parked: raised for a WFI or WFE, lowered for another exception.
SetParked ==
  /\ pc = "vmm"
  /\ why # "canceled" /\ in_wfx # (why = "wfx")
  /\ in_wfx' = (why = "wfx")
  /\ UNCHANGED <<pc, why, guestVars, bandVars, vmm_fiq, vmm_irq, timerVars>>
  /\ SetLevels

\* hv_vcpu_run is called again; a VMM that reports WFx takes that back at the
\* next exception that is none.
RunAgain ==
  /\ pc = "vmm" /\ where # "off"
  /\ why = "exception" => ~in_wfx
  /\ pc' = "loop"
  /\ UNCHANGED <<why, guestVars, bandVars, lineVars, timerVars, levelVars>>

-----------------------------------------------------------------------------
(* The guest. *)

CanTake == (vf /\ "F" \notin mask) \/ (vi /\ "I" \notin mask)

\* A line that is up and not masked is taken before anything else happens.
Take(l) ==
  /\ pc = "guest"
  /\ l \notin mask /\ IF l = "F" THEN vf ELSE vi
  /\ mask' = {"F", "I"} /\ handling' = l
  /\ wedged' = (wedged \/ where \in Monitor)
  /\ UNCHANGED <<pc, why, where, bandVars, lineVars, timerVars, levelVars>>

\* The guest comes out: to the library, or to the VMM with reason w.
Exits ==
  /\ pc = "guest" /\ ~CanTake
  /\ handling' = "none"
  /\ UNCHANGED <<mask, wedged, bandVars, lineVars, timer_fired, levelVars>>

LibraryExit ==
  /\ Exits /\ pc' = "loop"
  /\ UNCHANGED <<why, where, ctl, due>>

VmmExit(w) ==
  /\ Exits /\ pc' = "vmm" /\ why' = w
  /\ w = "wfx" => where = "kernel"
  /\ UNCHANGED <<where, ctl, due>>

\* A trapped write to a timer: CTL is stored as it is; TVAL and CVAL move the
\* deadline (service_nv2_access).
TimerCtlWrite(t) ==
  /\ Exits /\ pc' = "loop"
  /\ \E v \in SUBSET Bits : ctl' = [ctl EXCEPT ![t] = v]
  /\ UNCHANGED <<why, where, due>>

TimerDeadlineWrite(t) ==
  /\ Exits /\ pc' = "loop"
  /\ due' = [due EXCEPT ![t] = FALSE]
  /\ UNCHANGED <<why, where, ctl>>

\* The firmware goes into the monitor, masked, and comes out of it there many
\* times before there is a kernel.
FirstMonitorExit ==
  /\ pc = "guest" /\ ~CanTake /\ where = "firmware"
  /\ pc' = "loop" /\ where' \in {"sptm", "txm"}
  /\ mask' = {"F", "I"} /\ handling' = "none"
  /\ UNCHANGED <<why, wedged, bandVars, lineVars, timerVars, levelVars>>

\* The kernel, on a core that has been through an entry at its addresses, releases
\* a secondary.
Release ==
  /\ pc = "vmm" /\ where = "off"
  /\ \E v \in Vcpus \ {Self} : step[v] = "done" /\ sptm_base[v] # 0
  /\ where' = "entry"
  /\ UNCHANGED <<pc, why, mask, handling, wedged, bandVars, lineVars, timerVars,
                 levelVars>>

\* Firmware and kernel set their masks; a handler first sees its device.
SetMask ==
  /\ pc = "guest" /\ ~CanTake /\ where \in {"firmware", "kernel"} /\ handling = "none"
  /\ mask' \in SUBSET {"F", "I"}
  /\ UNCHANGED <<pc, why, where, handling, wedged, bandVars, lineVars, timerVars,
                 levelVars>>

\* GENTER, moves between the monitors, and the return, without an exit.
Genter ==
  /\ pc = "guest" /\ ~CanTake /\ where = "kernel" /\ handling = "none"
  /\ where' = "sptm" /\ mask' = {"F", "I"}
  /\ UNCHANGED <<pc, why, handling, wedged, bandVars, lineVars, timerVars,
                 levelVars>>

MonitorMoves ==
  /\ pc = "guest" /\ ~CanTake /\ where \in Monitor
  /\ where' \in {"sptm", "txm"} \ {where}
  /\ UNCHANGED <<pc, why, mask, handling, wedged, bandVars, lineVars, timerVars,
                 levelVars>>

Gexit ==
  /\ pc = "guest" /\ ~CanTake /\ where \in Monitor
  /\ where' = "kernel" /\ mask' \in SUBSET {"F", "I"}
  /\ UNCHANGED <<pc, why, handling, wedged, bandVars, lineVars, timerVars,
                 levelVars>>

\* The monitor restores its caller's DAIF around the call it makes.
MonitorUnmasks ==
  /\ pc = "guest" /\ where \in {"sptm", "txm"}
  /\ mask' \in SUBSET {"F", "I"}
  /\ UNCHANGED <<pc, why, where, handling, wedged, bandVars, lineVars, timerVars,
                 levelVars>>

\* Time passes; another core enters its guest, wherever that is.
Elapse(t) ==
  /\ ~due[t] /\ due' = [due EXCEPT ![t] = TRUE]
  /\ UNCHANGED <<pc, why, guestVars, bandVars, lineVars, ctl, timer_fired,
                 levelVars>>

OtherCore(v) ==
  /\ NoteStep(v)
  /\ UNCHANGED <<pc, why, guestVars, lineVars, timerVars, levelVars>>

Guest ==
  \/ \E l \in {"F", "I"} : Take(l)
  \/ LibraryExit \/ \E w \in {"wfx", "exception", "canceled"} : VmmExit(w)
  \/ \E t \in Timers : TimerCtlWrite(t) \/ TimerDeadlineWrite(t)
  \/ FirstMonitorExit \/ SetMask \/ Genter \/ MonitorMoves \/ Gexit \/ MonitorUnmasks

Vmm == SetPendingFiq \/ SetPendingIrq \/ SetParked

\* ohv_expire_timers and the run trap, on the vCPU's thread.
Thread == NoteBand \/ PublishBand \/ Enter

Next ==
  \/ Thread \/ Vmm \/ RunAgain \/ Release \/ Guest
  \/ \E t \in Timers : Elapse(t)
  \/ \E v \in Vcpus \ {Self} : OtherCore(v)

Safe == Init /\ [][Next]_vars

\* The thread in hv_vcpu_run is scheduled, and compare_exchange_weak does not fail
\* for no reason for ever.
Spec == Safe /\ WF_vars(Thread) /\ SF_vars(Exchange(Self) /\ PublishBand)

-----------------------------------------------------------------------------
(* Properties. *)

\* No interrupt is taken inside the monitor, where it would go through the
\* kernel's vectors and leave the monitor's nesting depth at one for ever,
\* unless the VMM had the vCPU down as parked (ohv_vcpu_set_parked).
NeverTakenInMonitor == [][~wedged /\ wedged' => in_wfx]_vars

\* A line is never up while the guest crosses into the monitor ("the level must
\* never be left standing across a GENTER"), for a vCPU that is not parked.
LevelDownAtGenter ==
  [][where = "kernel" /\ where' \in Monitor /\ (vf \/ vi) => in_wfx]_vars

\* ohv_vcpu_set_parked: "a WFx is never in the middle of a GENTER, so nothing can
\* carry the level into the monitor": parked or not, no line is up at a GENTER.
NothingCarriesTheLevel ==
  [][where = "kernel" /\ where' \in Monitor => ~vf /\ ~vi]_vars

\* The guest enters hv_vcpu_run's loop at a point where it would take line l, and
\* the vCPU holds the right band: with a higher one it takes the kernel for the
\* monitor.
EntersTakeable(l) ==
  pc = "loop" /\ where = "kernel" /\ l \notin mask /\ sptm_base[Self] = Sptm

\* An interrupt the VMM holds pending and the gate held back is offered again:
\* it is delivered late, not lost.
HeldIrqOffered ==
  <>[]vmm_irq /\ []<>EntersTakeable("I") => []<>(pc = "guest" /\ vi)

TimerLine == IF TimerAsIrq THEN "I" ELSE "F"

\* A timer that stays due and unmasked is offered on its line whenever the guest
\* keeps entering with that line open.
TimerOffered ==
  \A t \in Timers :
    <>[](Expired(t) /\ "IMASK" \notin ctl[t]) /\ []<>EntersTakeable(TimerLine)
      => []<>(pc = "guest" /\ IF TimerAsIrq THEN vi ELSE vf)
=============================================================================
