------------------------------ MODULE VcpuRun ------------------------------
(***************************************************************************)
(* The run loop of a vCPU and the cancel that brings it out.               *)
(*                                                                         *)
(* hv_vcpu_run (ohv_vcpu.cpp) is one call of the VMM and many entries into *)
(* the guest: what the library answers itself (exit_from_ro returning      *)
(* EXIT_KEEP_RUNNING) never reaches the VMM.  hv_vcpus_exit, called from   *)
(* any thread, latches VcpuSlot::exit_requested and then issues the        *)
(* RUN_CANCEL trap, which reaches only a vCPU that is inside the run trap. *)
(* Every load, store and exchange of the latch is a step of its own here.  *)
(*                                                                         *)
(* External to the library, modelled from the way it is used: the kernel's *)
(* run trap, the guest (a stream of trapping instructions and one virtual  *)
(* timer), and the VMM (it posts work for a vCPU, kicks it, handles the    *)
(* exit it gets and collects its work before it runs the vCPU again).      *)
(***************************************************************************)
EXTENDS Integers, FiniteSets

CONSTANTS
  Vcpus,      \* the vCPUs, each driven by the thread that owns it
  Kickers,    \* the VMM's other threads, callers of hv_vcpus_exit
  MaxCalls,   \* bound: calls of hv_vcpus_exit
  MaxInsn     \* bound: trapping instructions each guest executes

ASSUME RunAssumption == MaxCalls \in Nat /\ MaxInsn \in Nat

ASSUME KickersFinite == IsFiniteSet(Kickers)

VARIABLES
  pc,             \* where the thread of a vCPU is in its loop
  exit_requested, \* VcpuSlot::exit_requested
  vmexit,         \* the kernel's read-only page: reason, trapping instruction
  pub_exit,       \* VcpuSlot::pub_exit: reason, instruction it describes
  ret,            \* what the last hv_vcpu_run returned
  timerMask,      \* OHV_TIMER_MASK in the context's timer word
  insn,           \* class of the guest's next trapping instruction
  gpc,            \* trapping instructions the guest has got past
  effects,        \* how often each of them has been carried out
  fired,          \* the guest's CNTV_CTL reads 5: enabled, fired, unmasked
  kcancel,        \* a RUN_CANCEL reached the vCPU inside the run trap
  work,           \* VMM: something is to be injected into the vCPU
  told,           \* VMM: it has been told that the virtual timer fired
  kpc,            \* where a thread is in hv_vcpus_exit
  todo, mask,     \* its ids still to latch, and the mask for the trap
  calls,          \* calls of hv_vcpus_exit so far
  kicks,          \* history: times a vCPU's latch was set
  cancels,        \* history: times HV_EXIT_REASON_CANCELED was returned
  slack           \* history: guest entries the standing latch may still see

slotVars  == <<exit_requested, pub_exit, ret, timerMask>>
guestVars == <<insn, gpc, effects, fired>>
kickVars  == <<kpc, todo, mask, calls>>
vmmVars   == <<work, told>>
histVars  == <<kicks, cancels, slack>>
vars == <<pc, vmexit, kcancel, slotVars, guestVars, kickVars, vmmVars, histVars>>

Steps == {"handle", "inject", "enter", "guest", "exited", "decode", "return",
          "turnaround"}
\* Past the entry: no further entry is needed to see the latch.
InRun == {"guest", "exited", "decode", "return", "turnaround"}

VmexitReason == {"none", "handled", "physical", "trap", "other"}
ExitReason   == {"CANCELED", "EXCEPTION", "VTIMER_ACTIVATED", "UNKNOWN"}
InsnClass    == {"library", "vmm"}   \* answered here, or the VMM's to service
Insns        == 0 .. MaxInsn - 1

TypeOK ==
  /\ pc \in [Vcpus -> Steps]
  /\ exit_requested \in [Vcpus -> BOOLEAN]
  /\ vmexit \in [Vcpus -> [reason : VmexitReason, insn : 0 .. MaxInsn]]
  /\ pub_exit \in [Vcpus -> [reason : ExitReason, insn : 0 .. MaxInsn]]
  /\ ret \in [Vcpus -> {"HV_SUCCESS", "HV_ERROR"}]
  /\ timerMask \in [Vcpus -> BOOLEAN]
  /\ insn \in [Vcpus -> InsnClass]
  /\ gpc \in [Vcpus -> 0 .. MaxInsn]
  /\ effects \in [Vcpus -> [Insns -> Nat]]
  /\ fired \in [Vcpus -> BOOLEAN]
  /\ kcancel \in [Vcpus -> BOOLEAN]
  /\ work \in [Vcpus -> BOOLEAN]
  /\ told \in [Vcpus -> BOOLEAN]
  /\ kpc \in [Kickers -> {"idle", "latching"}]
  /\ todo \in [Kickers -> SUBSET Vcpus]
  /\ mask \in [Kickers -> SUBSET Vcpus]
  /\ calls \in 0 .. MaxCalls
  /\ kicks \in [Vcpus -> Nat]
  /\ cancels \in [Vcpus -> Nat]
  /\ slack \in [Vcpus -> -1 .. 1]

Init ==
  /\ pc = [v \in Vcpus |-> "inject"]
  /\ exit_requested = [v \in Vcpus |-> FALSE]
  /\ vmexit = [v \in Vcpus |-> [reason |-> "none", insn |-> 0]]
  /\ pub_exit = [v \in Vcpus |-> [reason |-> "CANCELED", insn |-> 0]]
  /\ ret = [v \in Vcpus |-> "HV_SUCCESS"]
  /\ timerMask = [v \in Vcpus |-> FALSE]
  /\ insn \in [Vcpus -> InsnClass]
  /\ gpc = [v \in Vcpus |-> 0]
  /\ effects = [v \in Vcpus |-> [i \in Insns |-> 0]]
  /\ fired = [v \in Vcpus |-> FALSE]
  /\ kcancel = [v \in Vcpus |-> FALSE]
  /\ work = [v \in Vcpus |-> FALSE]
  /\ told = [v \in Vcpus |-> FALSE]
  /\ kpc = [k \in Kickers |-> "idle"]
  /\ todo = [k \in Kickers |-> {}]
  /\ mask = [k \in Kickers |-> {}]
  /\ calls = 0
  /\ kicks = [v \in Vcpus |-> 0]
  /\ cancels = [v \in Vcpus |-> 0]
  /\ slack = [v \in Vcpus |-> 1]

-----------------------------------------------------------------------------
(* The VMM's part of the vCPU thread. *)

\* Instruction i has been carried out and the guest moved past it.
Retire(v, i) ==
  /\ effects' = [effects EXCEPT ![v] = [effects[v] EXCEPT ![i] = @ + 1]]
  /\ gpc' = [gpc EXCEPT ![v] = @ + 1]
  /\ \E c \in InsnClass : insn' = [insn EXCEPT ![v] = c]

NothingRetired == UNCHANGED <<effects, gpc, insn>>

\* What the VMM does with the exit: it services an exception and steps the
\* guest past it, and it remembers that the timer fired.
VmmHandle(v) ==
  LET reported == ret[v] = "HV_SUCCESS"
  IN  /\ pc[v] = "handle"
      /\ pc' = [pc EXCEPT ![v] = "inject"]
      /\ \/ /\ reported /\ pub_exit[v].reason = "EXCEPTION"
            /\ Retire(v, pub_exit[v].insn)
            /\ UNCHANGED told
         \/ /\ reported /\ pub_exit[v].reason = "VTIMER_ACTIVATED"
            /\ told' = [told EXCEPT ![v] = TRUE]
            /\ NothingRetired
         \/ /\ reported => pub_exit[v].reason \in {"CANCELED", "UNKNOWN"}
            /\ NothingRetired /\ UNCHANGED told
      /\ UNCHANGED <<vmexit, kcancel, slotVars, fired, kickVars, work, histVars>>

\* The VMM collects its work, lowers the timer mask once the guest has dealt
\* with the timer (hv_vcpu_set_vtimer_mask), and calls hv_vcpu_run.
VmmInject(v) ==
  /\ pc[v] = "inject"
  /\ pc' = [pc EXCEPT ![v] = "enter"]
  /\ work' = [work EXCEPT ![v] = FALSE]
  /\ IF told[v] /\ ~fired[v]
       THEN /\ told' = [told EXCEPT ![v] = FALSE]
            /\ timerMask' = [timerMask EXCEPT ![v] = FALSE]
       ELSE UNCHANGED <<told, timerMask>>
  /\ UNCHANGED <<vmexit, kcancel, exit_requested, pub_exit, ret, guestVars,
                 kickVars, histVars>>

-----------------------------------------------------------------------------
(* hv_vcpu_run. *)

\* The call returns r to the VMM; a later entry is another call's.
Return(v, r) ==
  /\ pc' = [pc EXCEPT ![v] = "handle"]
  /\ ret' = [ret EXCEPT ![v] = r]
  /\ slack' = [slack EXCEPT ![v] = 1]

\* Mutant of Enter: the call starts by clearing a latch left from before.
EnterForgetting(v) ==
  /\ pc[v] = "enter"
  /\ pc' = [pc EXCEPT ![v] = "guest"]
  /\ exit_requested' = [exit_requested EXCEPT ![v] = FALSE]
  /\ UNCHANGED <<vmexit, kcancel, pub_exit, ret, timerMask, guestVars, kickVars,
                 vmmVars, histVars>>

\* Top of the loop: the run trap, with no look at the latch before it.
Enter(v) ==
  /\ pc[v] = "enter"
  /\ pc' = [pc EXCEPT ![v] = "guest"]
  /\ slack' = [slack EXCEPT ![v] = IF exit_requested[v] /\ @ >= 0 THEN @ - 1 ELSE @]
  /\ UNCHANGED <<vmexit, kcancel, slotVars, guestVars, kickVars, vmmVars,
                 kicks, cancels>>

\* The run trap refuses the entry: the error goes to the VMM, the latch stays.
EnterRefused(v) ==
  /\ pc[v] = "enter"
  /\ Return(v, "HV_ERROR")
  /\ UNCHANGED <<vmexit, kcancel, exit_requested, pub_exit, timerMask, guestVars,
                 kickVars, vmmVars, kicks, cancels>>

\* Mutant of Latched: the loop relies on the RUN_CANCEL trap alone.
LatchIgnored(v) == FALSE

\* The value exit_requested.exchange(false) returns.
Latched(v) == exit_requested[v]

\* Mutant of HonourCancel: pub_exit keeps the reason of an earlier exit.
HonourSilently(v) ==
  /\ Latched(v)
  /\ exit_requested' = [exit_requested EXCEPT ![v] = FALSE]
  /\ cancels' = [cancels EXCEPT ![v] = @ + 1]
  /\ Return(v, "HV_SUCCESS")
  /\ UNCHANGED pub_exit

\* Mutant of HonourCancel: the latch is loaded, not exchanged.
HonourKeeping(v) ==
  /\ Latched(v)
  /\ pub_exit' = [pub_exit EXCEPT ![v] = [reason |-> "CANCELED",
                                          insn |-> pub_exit[v].insn]]
  /\ cancels' = [cancels EXCEPT ![v] = IF @ < 10 THEN @ + 1 ELSE @]
  /\ Return(v, "HV_SUCCESS")
  /\ UNCHANGED exit_requested

\* A check of the latch that finds it set: it is consumed and the call ends.
HonourCancel(v) ==
  /\ Latched(v)
  /\ exit_requested' = [exit_requested EXCEPT ![v] = FALSE]
  /\ pub_exit' = [pub_exit EXCEPT ![v] = [reason |-> "CANCELED",
                                          insn |-> pub_exit[v].insn]]
  /\ cancels' = [cancels EXCEPT ![v] = @ + 1]
  /\ Return(v, "HV_SUCCESS")

GoOn(v, step) ==
  /\ ~Latched(v)
  /\ pc' = [pc EXCEPT ![v] = step]
  /\ UNCHANGED <<exit_requested, pub_exit, ret, cancels, slack>>

\* The check right after the run trap, before the exit has been looked at.
\* A cancel honoured here drops the exit: the guest will take it again.
CheckAfterRun(v) ==
  /\ pc[v] = "exited"
  /\ HonourCancel(v) \/ GoOn(v, "decode")
  /\ UNCHANGED <<vmexit, kcancel, timerMask, guestVars, kickVars, vmmVars, kicks>>

\* Mutant of CheckTurnaround: straight back in.
TurnaroundUnchecked(v) ==
  /\ pc[v] = "turnaround"
  /\ pc' = [pc EXCEPT ![v] = "enter"]
  /\ UNCHANGED <<vmexit, kcancel, slotVars, guestVars, kickVars, vmmVars, histVars>>

\* The check before re-entering a guest whose exit was the library's business.
CheckTurnaround(v) ==
  /\ pc[v] = "turnaround"
  /\ HonourCancel(v) \/ GoOn(v, "enter")
  /\ UNCHANGED <<vmexit, kcancel, timerMask, guestVars, kickVars, vmmVars, kicks>>

\* exit_from_ro answers EXIT_TO_VMM with reason r.
Publish(v, r) ==
  /\ pub_exit' = [pub_exit EXCEPT ![v] = [reason |-> r, insn |-> vmexit[v].insn]]
  /\ pc' = [pc EXCEPT ![v] = "return"]

\* exit_from_ro fills the exception fields in any case, and answers
\* EXIT_KEEP_RUNNING.
KeepRunning(v) ==
  /\ pub_exit' = [pub_exit EXCEPT ![v] = [reason |-> pub_exit[v].reason,
                                          insn |-> vmexit[v].insn]]
  /\ pc' = [pc EXCEPT ![v] = "turnaround"]

\* Reason 0: the run came back with nothing to report.
NothingToReport(v) ==
  /\ vmexit[v].reason = "none"
  /\ Publish(v, "CANCELED")
  /\ NothingRetired /\ UNCHANGED timerMask

\* Reasons 2, 7, 11, 12: the kernel dealt with it.
HandledByKernel(v) ==
  /\ vmexit[v].reason = "handled"
  /\ KeepRunning(v)
  /\ NothingRetired /\ UNCHANGED timerMask

\* Reasons 3, 4: a physical interrupt, the virtual timer's if that has fired
\* and is not masked yet.
PhysicalInterrupt(v) ==
  /\ vmexit[v].reason = "physical"
  /\ IF fired[v] /\ ~timerMask[v]
       THEN /\ timerMask' = [timerMask EXCEPT ![v] = TRUE]
            /\ Publish(v, "VTIMER_ACTIVATED")
       ELSE /\ Publish(v, "UNKNOWN") /\ UNCHANGED timerMask
  /\ NothingRetired

\* Reason 1 or a register trap that the library answers: a register it holds
\* (service_nv2_access), an HVC or ERET of the nested guest.
LibraryTrap(v) ==
  /\ vmexit[v].reason = "trap" /\ insn[v] = "library"
  /\ Retire(v, gpc[v])
  /\ KeepRunning(v)
  /\ UNCHANGED timerMask

\* Every other exception of the guest is the VMM's to service.
GuestException(v) ==
  /\ vmexit[v].reason = "trap" /\ insn[v] = "vmm"
  /\ Publish(v, "EXCEPTION")
  /\ NothingRetired /\ UNCHANGED timerMask

\* Mutant of NotClassified: the kernel's own number is published.
NotClassifiedRaw(v) ==
  /\ vmexit[v].reason = "other"
  /\ Publish(v, vmexit[v].reason)
  /\ NothingRetired /\ UNCHANGED timerMask

\* A reason the library does not know.
NotClassified(v) ==
  /\ vmexit[v].reason = "other"
  /\ Publish(v, "UNKNOWN")
  /\ NothingRetired /\ UNCHANGED timerMask

\* exit_from_ro: the kernel's reason decides who the exit belongs to.
ExitFromRo(v) ==
  /\ pc[v] = "decode"
  /\ \/ NothingToReport(v) \/ HandledByKernel(v) \/ PhysicalInterrupt(v)
     \/ LibraryTrap(v) \/ GuestException(v) \/ NotClassified(v)
  /\ UNCHANGED <<vmexit, kcancel, exit_requested, ret, fired, kickVars, vmmVars,
                 histVars>>

\* Mutant of ReturnExit: a standing latch turns any exit into CANCELED.
ReturnExitCanceled(v) ==
  /\ pc[v] = "return"
  /\ exit_requested' = [exit_requested EXCEPT ![v] = FALSE]
  /\ pub_exit' = [pub_exit EXCEPT ![v] =
                    IF exit_requested[v] THEN [reason |-> "CANCELED", insn |-> @.insn]
                    ELSE @]
  /\ cancels' = [cancels EXCEPT ![v] = @ + 1]
  /\ Return(v, "HV_SUCCESS")
  /\ UNCHANGED <<vmexit, kcancel, timerMask, guestVars, kickVars, vmmVars, kicks>>

\* exit_from_ro said EXIT_TO_VMM: a standing latch is cleared unread, for the
\* VMM re-reads everything on the way back in.
ReturnExit(v) ==
  /\ pc[v] = "return"
  /\ exit_requested' = [exit_requested EXCEPT ![v] = FALSE]
  /\ cancels' = [cancels EXCEPT ![v] =
                   IF pub_exit[v].reason = "CANCELED" THEN @ + 1 ELSE @]
  /\ Return(v, "HV_SUCCESS")
  /\ UNCHANGED <<vmexit, kcancel, pub_exit, timerMask, guestVars, kickVars,
                 vmmVars, kicks>>

-----------------------------------------------------------------------------
(* The run trap and the guest inside it. *)

\* The trap comes back.  It says "none" only for a cancel, and it may say
\* something else although a cancel was asked for: the two coincided.
GuestExit(v, r) ==
  /\ pc[v] = "guest"
  /\ r = "none" => kcancel[v]
  /\ r = "trap" => gpc[v] < MaxInsn
  /\ pc' = [pc EXCEPT ![v] = "exited"]
  /\ vmexit' = [vmexit EXCEPT ![v] = [reason |-> r, insn |-> gpc[v]]]
  /\ kcancel' = [kcancel EXCEPT ![v] = FALSE]
  /\ UNCHANGED <<slotVars, guestVars, kickVars, vmmVars, histVars>>

\* The guest's virtual timer reaches its deadline, or the guest, which has
\* been given the interrupt, deals with it.
GuestTimer(v) ==
  /\ pc[v] = "guest"
  /\ fired[v] => told[v]
  /\ fired' = [fired EXCEPT ![v] = ~@]
  /\ UNCHANGED <<pc, vmexit, kcancel, slotVars, insn, gpc, effects, kickVars,
                 vmmVars, histVars>>

-----------------------------------------------------------------------------
(* hv_vcpus_exit, on a thread of the VMM that first posts the work. *)

ExitCall(k, S) ==
  /\ kpc[k] = "idle" /\ calls < MaxCalls
  /\ calls' = calls + 1
  /\ work' = [v \in Vcpus |-> work[v] \/ v \in S]
  /\ kpc' = [kpc EXCEPT ![k] = "latching"]
  /\ todo' = [todo EXCEPT ![k] = S]
  /\ mask' = [mask EXCEPT ![k] = S]
  /\ UNCHANGED <<pc, vmexit, kcancel, slotVars, guestVars, told, histVars>>

\* One turn of the latching loop.
LatchExit(k, v) ==
  /\ kpc[k] = "latching" /\ v \in todo[k]
  /\ todo' = [todo EXCEPT ![k] = @ \ {v}]
  /\ exit_requested' = [exit_requested EXCEPT ![v] = TRUE]
  /\ kicks' = [kicks EXCEPT ![v] = @ + 1]
  /\ slack' = [slack EXCEPT ![v] = IF exit_requested[v] THEN @
                                   ELSE IF pc[v] \in InRun THEN 0 ELSE 1]
  /\ UNCHANGED <<pc, vmexit, kcancel, pub_exit, ret, timerMask, guestVars, kpc,
                 mask, calls, vmmVars, cancels>>

\* The RUN_CANCEL trap: it finds the vCPUs of the mask that are in the guest.
RunCancel(k) ==
  /\ kpc[k] = "latching" /\ todo[k] = {}
  /\ kcancel' = [v \in Vcpus |-> kcancel[v] \/ (v \in mask[k] /\ pc[v] = "guest")]
  /\ kpc' = [kpc EXCEPT ![k] = "idle"]
  /\ mask' = [mask EXCEPT ![k] = {}]
  /\ UNCHANGED <<pc, vmexit, slotVars, guestVars, todo, calls, vmmVars, histVars>>

-----------------------------------------------------------------------------
RunLoop(v) ==
  \/ VmmHandle(v) \/ VmmInject(v)
  \/ Enter(v) \/ EnterRefused(v)
  \/ CheckAfterRun(v) \/ ExitFromRo(v) \/ CheckTurnaround(v) \/ ReturnExit(v)

AnyGuestExit(v) == \E r \in VmexitReason : GuestExit(v, r)

Kick(k) ==
  \/ \E v \in Vcpus : LatchExit(k, v)
  \/ RunCancel(k)

Next ==
  \/ \E v \in Vcpus : RunLoop(v) \/ AnyGuestExit(v) \/ GuestTimer(v)
  \/ \E k \in Kickers : Kick(k) \/ \E S \in SUBSET Vcpus \ {{}} : ExitCall(k, S)

Safe == Init /\ [][Next]_vars

\* Threads are scheduled; a cancel delivered inside the trap ends it.
ThreadFairness ==
  /\ \A v \in Vcpus : WF_vars(RunLoop(v)) /\ WF_vars(kcancel[v] /\ AnyGuestExit(v))
  /\ \A k \in Kickers : WF_vars(Kick(k))

\* The guest may compute for as long as it likes without leaving the trap.
QuietSpec == Safe /\ ThreadFairness

\* The host's own interrupts end every stay in the guest sooner or later.
Spec == QuietSpec /\ \A v \in Vcpus : WF_vars(AnyGuestExit(v))

-----------------------------------------------------------------------------
(* Properties. *)

\* A thread of the VMM that has posted work for v has yet to latch the kick.
KickUnderway(v) == \E k \in Kickers : v \in todo[k]

\* What hv_vcpus_exit latches is never forgotten: work posted for a vCPU whose
\* kick has been latched leaves the latch standing until the vCPU's thread is
\* back in the VMM, where it collects the work.  None of the three places that
\* clear exit_requested, nor the one that clears it unread, may lose a wake-up.
NoLostKick ==
  \A v \in Vcpus :
    work[v] /\ ~KickUnderway(v)
      => exit_requested[v] \/ pc[v] \in {"handle", "inject"}

\* Every trapping instruction takes effect exactly once, by the library or by
\* the VMM, although a cancel drops the exit that reported it and leaves the
\* fields of an earlier exit in pub_exit.
ExactlyOnce ==
  \A v \in Vcpus : \A i \in Insns : effects[v][i] = IF i < gpc[v] THEN 1 ELSE 0

\* The virtual timer is masked only on behalf of a VMM that knows, or is about
\* to be told: a mask raised for an activation that a cancel then swallowed
\* would silence the guest's timer for good.
MaskedTimerTold ==
  \A v \in Vcpus :
    timerMask[v] =>
      \/ told[v]
      \/ /\ pc[v] \in {"return", "handle"}
         /\ pub_exit[v].reason = "VTIMER_ACTIVATED"
         /\ pc[v] = "handle" => ret[v] = "HV_SUCCESS"

\* A latch set while the vCPU is past its entry lets it into the guest no more;
\* one set before the entry lets it in once.
PromptCancel == \A v \in Vcpus : slack[v] >= 0

\* The VMM is not told of cancels nobody asked for: each setting of the latch
\* accounts for at most two (the latch and the RUN_CANCEL trap may be reported
\* by different calls of hv_vcpu_run).
CancelBudget == \A v \in Vcpus : cancels[v] <= 2 * kicks[v]

\* Work posted for a vCPU and kicked is eventually collected by its thread.
WorkCollected == \A v \in Vcpus : work[v] ~> ~work[v]

\* Who has the vCPU, for a VMM that sees only calls and returns.
Holder(v) ==
  IF pc[v] = "handle" /\ ret[v] = "HV_SUCCESS" /\ pub_exit[v].reason = "EXCEPTION"
    THEN "owing"
  ELSE IF pc[v] \in {"handle", "inject"} THEN "vmm"
  ELSE IF pc[v] = "guest" THEN "guest" ELSE "library"

Promise == INSTANCE VcpuPromise WITH
  at <- [v \in Vcpus |-> Holder(v)], wanted <- work, carried <- effects

\* Through every race of latch, trap and exit, hv_vcpu_run and hv_vcpus_exit
\* are the calls the VMM takes them for: an exit reported as an exception owes
\* exactly the next instruction, a cancelled one owes nothing, and work leaves
\* the VMM's list only when its thread runs the vCPU again.
ImplementsPromise == Promise!Spec
=============================================================================
