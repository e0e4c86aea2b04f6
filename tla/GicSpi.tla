------------------------------- MODULE GicSpi -------------------------------
(***************************************************************************)
(* The interrupt controller of ohv_gic.cpp: the distributor's pending and  *)
(* enable bits, the list registers in the context page of the vCPU that    *)
(* takes the shared interrupts, and the dirty word beside them.            *)
(*                                                                         *)
(* hv_gic_* is called by the VMM, one call at a time (it holds its own     *)
(* lock; the library takes none), while the vCPU's thread is between       *)
(* entries or in the guest.  mark_dirty is a load and a store of a word    *)
(* that both threads and the kernel write.                                 *)
(*                                                                         *)
(* External: the kernel loads a list register that carries the flag        *)
(* OHV_ICH_LR_DIRTY when it enters the guest with the GIC state marked,    *)
(* clears the flag, and writes the state of the others back at the exit.   *)
(***************************************************************************)
EXTENDS Naturals

CONSTANTS
  Spis,     \* interrupts the VMM's devices raise through hv_gic_set_spi
  Ppi,      \* an interrupt the VMM queues itself through hv_gic_set_ich_reg
  NumLrs    \* list registers: ARRAY_COUNT(ich_lr_el2)

ASSUME GicAssumption == NumLrs \in Nat /\ Ppi \notin Spis

Lrs    == 1 .. NumLrs
Intids == Spis \union {Ppi}
Marks  == {"GIC", "CONTROLS"}   \* bits of the dirty word

VARIABLES
  ispendr, isenabler,   \* distributor: the pending and the enabled SPIs
  ich_lr, state_dirty,  \* context page: list registers, dirty word
  hwLr, inGuest,        \* the list registers in the hardware; who runs
  pc, mask, loaded,     \* per thread: in mark_dirty, its argument, what it read
  up,                   \* history: the lines that are up
  req,                  \* history: what became of each raising, until it is taken
  raced                 \* history: a store to the dirty word discarded a mark

dist == <<ispendr, isenabler>>
page == <<ich_lr, state_dirty>>
hw   == <<hwLr, inGuest>>
thr  == <<pc, mask, loaded>>
hist == <<up, req, raced>>
vars == <<dist, page, hw, thr, hist>>

Threads == {"vmm", "vcpu"}
Free    == [state |-> "inactive", intid |-> Ppi]
Entry(s, i) == [state |-> s, intid |-> i]
Entries == {Free} \union [state : {"pending", "active"}, intid : Intids]

TypeOK ==
  /\ ispendr \subseteq Spis /\ isenabler \subseteq Spis
  /\ ich_lr \in [Lrs -> [e : Entries, flag : BOOLEAN]]
  /\ hwLr \in [Lrs -> Entries]
  /\ inGuest \in BOOLEAN
  /\ state_dirty \subseteq Marks
  /\ pc \in [Threads -> {"idle", "load", "store"}]
  /\ mask \in [Threads -> SUBSET Marks] /\ loaded \in [Threads -> SUBSET Marks]
  /\ up \subseteq Spis /\ req \in [Spis -> {"none", "queued", "dropped"}]
  /\ raced \in BOOLEAN

Init ==
  /\ ispendr = {} /\ isenabler = {}
  /\ ich_lr = [i \in Lrs |-> [e |-> Free, flag |-> FALSE]]
  /\ hwLr = [i \in Lrs |-> Free]
  /\ inGuest = FALSE
  /\ state_dirty = {}
  /\ pc = [t \in Threads |-> "idle"]
  /\ mask = [t \in Threads |-> {}] /\ loaded = [t \in Threads |-> {}]
  /\ up = {} /\ req = [s \in Spis |-> "none"] /\ raced = FALSE

-----------------------------------------------------------------------------
(* mark_dirty: *word |= bits, a load and a store. *)

\* The call goes on with mark_dirty(ctx, bits).
MarkDirty(t, bits) ==
  /\ pc' = [pc EXCEPT ![t] = "load"]
  /\ mask' = [mask EXCEPT ![t] = bits]
  /\ UNCHANGED loaded

MarkLoad(t) ==
  /\ pc[t] = "load"
  /\ pc' = [pc EXCEPT ![t] = "store"]
  /\ loaded' = [loaded EXCEPT ![t] = state_dirty]
  /\ UNCHANGED <<dist, page, hw, mask, hist>>

MarkStore(t) ==
  /\ pc[t] = "store"
  /\ pc' = [pc EXCEPT ![t] = "idle"]
  /\ state_dirty' = loaded[t] \union mask[t]
  /\ mask' = [mask EXCEPT ![t] = {}]
  /\ loaded' = [loaded EXCEPT ![t] = {}]
  /\ raced' = (raced \/ ~(state_dirty \subseteq state_dirty'))
  /\ UNCHANGED <<dist, ich_lr, hw, up, req>>

-----------------------------------------------------------------------------
(* hv_gic_set_spi. *)

Queued(s)  == \E i \in Lrs : ich_lr[i].e.state # "inactive" /\ ich_lr[i].e.intid = s
FreeLrs    == {i \in Lrs : ich_lr[i].e.state = "inactive"}
FirstFree  == CHOOSE i \in FreeLrs : \A j \in FreeLrs : i <= j

\* The entry is written, flagged for the kernel, and the state marked.
WriteLr(i, e) == ich_lr' = [ich_lr EXCEPT ![i] = [e |-> e, flag |-> TRUE]]

\* A line that was down comes up and is not given a list register.
Dropped(s) == req' = IF s \in up THEN req ELSE [req EXCEPT ![s] = "dropped"]

\* Level up of a disabled interrupt: the pending bit is all there is.
SpiDisabled(s) ==
  /\ pc["vmm"] = "idle" /\ s \notin isenabler
  /\ ispendr' = ispendr \union {s} /\ up' = up \union {s}
  /\ UNCHANGED <<isenabler, page, hw, thr, req, raced>>

\* Level up, and a list register holds the interrupt already, or none is free.
SpiNotFilled(s) ==
  /\ pc["vmm"] = "idle" /\ s \in isenabler
  /\ Queued(s) \/ FreeLrs = {}
  /\ ispendr' = ispendr \union {s} /\ up' = up \union {s}
  /\ Dropped(s)
  /\ UNCHANGED <<isenabler, page, hw, thr, raced>>

\* Mutant of SpiFill: a second entry for an interrupt that is queued.
SpiFillAgain(s) ==
  /\ pc["vmm"] = "idle" /\ s \in isenabler
  /\ FreeLrs # {}
  /\ ispendr' = ispendr \union {s} /\ up' = up \union {s}
  /\ WriteLr(FirstFree, Entry("pending", s))
  /\ MarkDirty("vmm", {"GIC", "CONTROLS"})
  /\ req' = [req EXCEPT ![s] = "queued"]
  /\ UNCHANGED <<isenabler, state_dirty, hw, raced>>

\* Level up: the first free list register takes it.
SpiFill(s) ==
  /\ pc["vmm"] = "idle" /\ s \in isenabler
  /\ ~Queued(s) /\ FreeLrs # {}
  /\ ispendr' = ispendr \union {s} /\ up' = up \union {s}
  /\ WriteLr(FirstFree, Entry("pending", s))
  /\ MarkDirty("vmm", {"GIC", "CONTROLS"})
  /\ req' = [req EXCEPT ![s] = "queued"]
  /\ UNCHANGED <<isenabler, state_dirty, hw, raced>>

\* The entries that are still pending are written over.
TakeBack(s, lr) ==
  LET held == {i \in Lrs : ich_lr[i].e = Entry("pending", s)} IN
  /\ ich_lr' = [i \in Lrs |-> IF i \in held THEN lr ELSE ich_lr[i]]
  /\ IF held = {} THEN UNCHANGED thr ELSE MarkDirty("vmm", {"GIC", "CONTROLS"})

\* Mutant of SpiDown: the entry is emptied without the flag.
SpiDownUnflagged(s) ==
  /\ pc["vmm"] = "idle"
  /\ ispendr' = ispendr \ {s} /\ up' = up \ {s}
  /\ req' = [req EXCEPT ![s] = "none"]
  /\ TakeBack(s, [e |-> Free, flag |-> FALSE])
  /\ UNCHANGED <<isenabler, state_dirty, hw, raced>>

\* Mutant of SpiDown: only the state field is cleared.
SpiDownKeepsIntid(s) ==
  /\ pc["vmm"] = "idle"
  /\ ispendr' = ispendr \ {s} /\ up' = up \ {s}
  /\ req' = [req EXCEPT ![s] = "none"]
  /\ TakeBack(s, [e |-> Entry("inactive", s), flag |-> TRUE])
  /\ UNCHANGED <<isenabler, state_dirty, hw, raced>>

\* Level down: inactive, and say so.
SpiDown(s) ==
  /\ pc["vmm"] = "idle"
  /\ ispendr' = ispendr \ {s} /\ up' = up \ {s}
  /\ req' = [req EXCEPT ![s] = "none"]
  /\ TakeBack(s, [e |-> Free, flag |-> TRUE])
  /\ UNCHANGED <<isenabler, state_dirty, hw, raced>>

-----------------------------------------------------------------------------
(* The registers the VMM writes itself. *)

\* hv_gic_set_distributor_reg: a plain store (GICD_TYPER excepted), here of
\* GICD_ISENABLER; nothing is queued and nothing marked.
SetDistributorReg ==
  /\ pc["vmm"] = "idle"
  /\ \E s \in Spis : isenabler' \in {isenabler \union {s}, isenabler \ {s}}
  /\ UNCHANGED <<ispendr, page, hw, thr, hist>>

\* hv_gic_set_redistributor_reg, hv_gic_set_icc_reg, hv_gic_set_icv_reg: a slot
\* of the model that nothing else reads, and the mark.
SetInterfaceReg ==
  /\ pc["vmm"] = "idle"
  /\ MarkDirty("vmm", {"GIC"})
  /\ UNCHANGED <<dist, page, hw, hist>>

\* External: the VMM takes a list register that hv_gic_get_ich_reg reads as
\* inactive, for an interrupt that is in none.
PpiFor(i) == ich_lr[i].e.state = "inactive" /\ ~Queued(Ppi)

\* Mutant of SetIchReg: the mark is missing.
SetIchUnmarked ==
  /\ pc["vmm"] = "idle"
  /\ \E i \in Lrs : PpiFor(i) /\ WriteLr(i, Entry("pending", Ppi))
  /\ UNCHANGED <<dist, state_dirty, hw, thr, hist>>

\* hv_gic_set_ich_reg of a list register.
SetIchReg ==
  /\ pc["vmm"] = "idle"
  /\ \E i \in Lrs : PpiFor(i) /\ WriteLr(i, Entry("pending", Ppi))
  /\ MarkDirty("vmm", {"GIC", "CONTROLS"})
  /\ UNCHANGED <<dist, state_dirty, hw, hist>>

\* Mutant of Reset: the list registers are cleared as well.
ResetLrs ==
  /\ pc["vmm"] = "idle"
  /\ ispendr' = {} /\ isenabler' = {}
  /\ ich_lr' = [i \in Lrs |-> [e |-> Free, flag |-> FALSE]]
  /\ MarkDirty("vmm", {"GIC"})
  /\ UNCHANGED <<state_dirty, hw, hist>>

\* hv_gic_reset: the model is cleared; the context page is marked, and keeps
\* its list registers.
Reset ==
  /\ pc["vmm"] = "idle"
  /\ ispendr' = {} /\ isenabler' = {}
  /\ MarkDirty("vmm", {"GIC"})
  /\ UNCHANGED <<page, hw, hist>>

\* hv_gic_set_state of a saved model, of which only the distributor matters here.
\* What hv_gic_state_create and hv_gic_state_get_data give is all zeroes; a VMM
\* that keeps its own copy may put anything back.
SetState ==
  /\ pc["vmm"] = "idle"
  /\ ispendr' \in SUBSET Spis /\ isenabler' \in SUBSET Spis
  /\ MarkDirty("vmm", {"GIC"})
  /\ UNCHANGED <<page, hw, hist>>

-----------------------------------------------------------------------------
(* The vCPU's thread, the kernel and the guest. *)

\* Between two entries the library marks what it changed for the guest.
VcpuMark ==
  /\ ~inGuest /\ pc["vcpu"] = "idle"
  /\ MarkDirty("vcpu", {"CONTROLS"})
  /\ UNCHANGED <<dist, page, hw, hist>>

Loads(i) == "GIC" \in state_dirty /\ ich_lr[i].flag

\* The run trap enters the guest.
Enter ==
  /\ ~inGuest /\ pc["vcpu"] = "idle"
  /\ inGuest' = TRUE
  /\ hwLr' = [i \in Lrs |-> IF Loads(i) THEN ich_lr[i].e ELSE hwLr[i]]
  /\ ich_lr' = [i \in Lrs |-> [ich_lr[i] EXCEPT !.flag = @ /\ ~Loads(i)]]
  /\ state_dirty' = {}
  /\ UNCHANGED <<dist, thr, hist>>

\* It returns: the kernel reports what became of the entries it was given.
Exit ==
  /\ inGuest /\ inGuest' = FALSE
  /\ ich_lr' = [i \in Lrs |-> IF ich_lr[i].flag THEN ich_lr[i]
                              ELSE [e |-> hwLr[i], flag |-> FALSE]]
  /\ UNCHANGED <<dist, state_dirty, hwLr, thr, hist>>

\* The guest acknowledges a pending interrupt, and ends it.
Acknowledge(i) ==
  /\ inGuest /\ hwLr[i].state = "pending"
  /\ hwLr' = [hwLr EXCEPT ![i] = Entry("active", hwLr[i].intid)]
  /\ req' = [s \in Spis |-> IF s = hwLr[i].intid THEN "none" ELSE req[s]]
  /\ UNCHANGED <<dist, page, inGuest, thr, up, raced>>

EndOfInterrupt(i) ==
  /\ inGuest /\ hwLr[i].state = "active"
  /\ hwLr' = [hwLr EXCEPT ![i] = Free]
  /\ UNCHANGED <<dist, page, inGuest, thr, hist>>

SetSpi == \E s \in Spis :
  SpiDisabled(s) \/ SpiNotFilled(s) \/ SpiFill(s) \/ SpiDown(s)

Vmm == SetSpi \/ SetDistributorReg \/ SetInterfaceReg \/ SetIchReg \/ Reset \/ SetState

Next ==
  \/ \E t \in Threads : MarkLoad(t) \/ MarkStore(t)
  \/ Vmm
  \/ VcpuMark \/ Enter \/ Exit
  \/ \E i \in Lrs : Acknowledge(i) \/ EndOfInterrupt(i)

Spec == Init /\ [][Next]_vars

-----------------------------------------------------------------------------
(* Properties. *)

Held(i) == hwLr[i].state # "inactive"

\* No interrupt is in two list registers of the hardware, which the architecture
\* forbids: the scan of hv_gic_set_spi reads copies that are as old as the last
\* exit, and an entry emptied and one filled in its stead are loaded together.
QueuedOnce ==
  \A i, j \in Lrs : Held(i) /\ Held(j) /\ hwLr[i].intid = hwLr[j].intid => i = j

PendingAt(s, i) ==
  \/ ich_lr[i] = [e |-> Entry("pending", s), flag |-> TRUE]
  \/ ~ich_lr[i].flag /\ hwLr[i] = Entry("pending", s)

\* An SPI that hv_gic_set_spi put into a list register stays where the hardware
\* has it or will load it, until the guest takes it or the line goes down:
\* neither the kernel's report at an exit, a reset, a restored state nor the
\* VMM's own list registers overwrite it, even when a mark is lost.
QueuedUntilTaken == \A s \in Spis : req[s] = "queued" => \E i \in Lrs : PendingAt(s, i)

\* A line that went down leaves nothing pending behind: where the hardware still
\* has the interrupt, the page has the order to take it back.
LoweredTakenBack ==
  \A i \in Lrs : hwLr[i].state = "pending" /\ hwLr[i].intid \in Spis \ up => ich_lr[i].flag

MarkComing == \E t \in Threads : pc[t] # "idle" /\ "GIC" \in mask[t]

\* Every flagged entry is marked, or about to be, unless a store to the dirty
\* word has overwritten a mark of the other thread: mark_dirty's race is the one
\* way an entry stays unseen.
WrittenIsMarked ==
  (\E i \in Lrs : ich_lr[i].flag) => raced \/ MarkComing \/ "GIC" \in state_dirty

\* "The hardware has to be given somewhere to deliver it from": a line that comes
\* up while its interrupt is enabled is pending in a list register until it is
\* taken, and not only a bit in a model nothing looks at.
SomewhereToDeliver == \A s \in Spis : req[s] # "none" => \E i \in Lrs : PendingAt(s, i)
=============================================================================
