----------------------------- MODULE TrappedRegs -----------------------------
(***************************************************************************)
(* The system registers of one vCPU and the three ways to them: the guest  *)
(* uses the hardware, or traps and service_nv2_access answers, or the      *)
(* access is handed to the VMM; and the VMM reads and writes them through  *)
(* sysreg_access and the control fields.  Registers are kept in blocks of  *)
(* the context page, which the kernel carries to the hardware as a whole   *)
(* when they are marked, in tables and slots of the library, and, for one  *)
(* of them, in a word that all vCPUs share: a read of that one gives       *)
(* whatever the last of them wrote.                                        *)
(*                                                                         *)
(* Each class of registers has one or two members here.  All calls are of  *)
(* the vCPU's own thread, so a call is one step.  The dirty word is not of  *)
(* that thread alone: the hv_gic_* calls of device threads mark it with the *)
(* same plain |=, and can take a mark away or put an old one back.          *)
(*                                                                         *)
(* External: the kernel copies the blocks it says are valid to the page    *)
(* at an exit, and those that are neither valid nor marked at a            *)
(* SYSREGS_SYNC; it loads the marked ones at an entry.  Any exit, that of   *)
(* a trapped access as well, may leave any block behind, and trapped        *)
(* accesses are answered without a sync.                                    *)
(***************************************************************************)
EXTENDS Naturals, Sequences

CONSTANTS
  Values,     \* what a register holds, 0 among them
  GicNames,   \* interrupt controller's interface registers, ICC_SRE_EL1 among them
  AppleNames, \* implementation-defined registers that get a shadow
  MaxGic, MaxApple, MaxCtrr,  \* ARRAY_COUNT of gic_if, apple_shadow and ctrr
  ExitBlocks, \* sets of blocks that an exit may leave current
  Devices,    \* threads of the VMM that make hv_gic_* calls
  MaxWrites   \* bound: writes of anyone

\* Registers of the context page, by block.
Banked == {"TTBR0_EL1"}
Shared == {"CSSELR_EL1", "PAR_EL1"}
Ext    == {"GXF_CONFIG_EL1", "ELR_GL1"}
Ctl    == {"CPTR_EL2"}
Vncr   == {"HCR_EL2"}
Carried  == Banked \union Shared \union Ext \union Ctl
PageRegs == Carried \union Vncr
Blocks   == {"SYSREGS", "GXF", "CONTROLS"}
In(b)    == CASE b = "SYSREGS" -> Banked \union Shared [] b = "GXF" -> Ext [] b = "CONTROLS" -> Ctl
BlockOf(r) == IF r \in Ext THEN "GXF" ELSE IF r \in Ctl THEN "CONTROLS" ELSE "SYSREGS"

CtrrNames == {"c2_3", "c6_4"}           \* one register by both its names
Tables    == {"gic", "apple", "ctrr"}
Slots     == {"TPIDR_GL2", "MIDR_EL1", "shadow_TTBR0_EL2"}  \* gl2_bank, id_regs, el2_shadow
VmmOwn    == {"JCTL_EL0"}               \* nothing here answers for it

\* Mutant of Fold: CRm 6 is not folded onto CRm 2.
FoldNot(n) == n

\* One register with two names: c6, 4 is c2, 3.
Fold(n) == IF n = "c6_4" THEN "c2_3" ELSE n

TableOf(n) == CHOOSE t \in Tables : n \in (CASE t = "gic" -> GicNames
                                             [] t = "apple" -> AppleNames
                                             [] t = "ctrr" -> CtrrNames)
TableNames == GicNames \union AppleNames \union CtrrNames

\* Trapped names that kNv2Regs and the cases before it give a place in the page.
PageNames == {"TTBR0_EL2", "HCR_EL2", "CSSELR_EL1", "GXF_CONFIG_EL1"}
PlaceOf(n) == IF n = "TTBR0_EL2" THEN "TTBR0_EL1" ELSE n

\* The VMM's names for the slots.  An EL2 register may have a place for each side:
\* the guest's TTBR0_EL2 is the banked TTBR0_EL1, the VMM's a word of el2_shadow.
\* So have SCTLR_EL2, VBAR_EL2, CPTR_EL2, MDCR_EL2, VPIDR_EL2 and VMPIDR_EL2, of
\* which Ctl has the VMM's; what one side writes there the other does not read.
VmmPlace(n) == IF n = "TTBR0_EL2" THEN "shadow_TTBR0_EL2" ELSE n

\* Read-only: what is written to one of them goes to the VMM.
FixedNames == {"CLIDR_EL1", "CCSIDR_EL1"}
Insns == {"AT", "TLBI"}
Names == TableNames \union PageNames \union FixedNames \union VmmOwn \union
           {"TPIDR_GL2", "PSTATE"} \union Insns

\* Every encoding is of one register: the tables share none, and none of another kind.
OtherNames == PageRegs \union PageNames \union CtrrNames \union Slots \union VmmOwn \union
                FixedNames \union Insns \union {"PSTATE"}

ASSUME RegsAssumption ==
  /\ 0 \in Values /\ 1 \in Values
  /\ "ICC_SRE_EL1" \in GicNames
  /\ GicNames \intersect AppleNames = {} /\ (GicNames \union AppleNames) \intersect OtherNames = {}
  /\ MaxGic \in Nat \ {0} /\ MaxApple \in Nat /\ MaxCtrr \in Nat \ {0} /\ MaxWrites \in Nat
  /\ ExitBlocks \subseteq SUBSET Blocks

\* The place a trapped name stands for, by which the history is kept.
Silicon(n) == IF n = "c6_4" THEN "c2_3" ELSE IF n = "CCSIDR_EL1" THEN "CSSELR_EL1" ELSE PlaceOf(n)
Truths     == PageRegs \union TableNames \union Slots \union VmmOwn \union {"CLIDR_EL1"}

VARIABLES
  at,              \* "guest", "trap", "ready", "handed" or "vmm"
  acc, x,          \* the trapped access, and what it transfers
  page, hw,        \* context page and hardware
  valid, dirty,    \* what the kernel says is current; the marks
  marking, seen,   \* devices inside mark_dirty, and the dirty word they loaded
  tab, slots,      \* the library's tables and slots
  idsLoaded,
  vmmReg,          \* the VMM's own register file
  right,           \* history: the last read gave what was last written
  truth, writes,   \* history: what was last written to each register
  astray           \* history: registers of which it may not be what is found there

pageVars == <<page, hw, valid, dirty, astray>>
deviceVars == <<marking, seen>>
libVars  == <<tab, slots, idsLoaded>>
hist     == <<truth, writes>>
vars     == <<at, acc, x, pageVars, libVars, vmmReg, right, hist, deviceVars>>

NoAccess == [name |-> "AT", read |-> FALSE]
Max(t)   == CASE t = "gic" -> MaxGic [] t = "apple" -> MaxApple [] t = "ctrr" -> MaxCtrr
Host(n)  == IF n \in {"MIDR_EL1", "CLIDR_EL1", "ICC_SRE_EL1"} THEN 1 ELSE 0

RegsOK ==
  /\ at \in {"guest", "trap", "ready", "handed", "vmm"}
  /\ acc \in [name : Names, read : BOOLEAN] /\ x \in Values
  /\ page \in [PageRegs -> Values] /\ hw \in [Carried -> Values]
  /\ valid \subseteq Blocks /\ dirty \subseteq Blocks /\ astray \subseteq Carried
  /\ tab \in [Tables -> Seq([enc : TableNames, value : Values])]
  /\ \A t \in Tables : Len(tab[t]) <= Max(t)
  /\ slots \in [Slots -> Values] /\ idsLoaded \in BOOLEAN
  /\ vmmReg \in [Names -> Values]
  /\ right \in BOOLEAN
  /\ truth \in [Truths -> Values] /\ writes \in 0 .. MaxWrites

DevicesOK == marking \subseteq Devices /\ seen \in [Devices -> SUBSET Blocks]

TypeOK == RegsOK /\ DevicesOK

Init ==
  /\ at = "vmm" /\ acc = NoAccess /\ x = 0
  /\ page = [r \in PageRegs |-> 0] /\ hw = [r \in Carried |-> 0]
  /\ valid = Blocks /\ dirty = {} /\ astray = {}
  /\ marking = {} /\ seen = [d \in Devices |-> {}]
  /\ tab = [t \in Tables |-> <<>>]
  /\ slots = [n \in Slots |-> 0] /\ idsLoaded = FALSE
  /\ vmmReg = [n \in Names |-> 0]
  /\ right = TRUE /\ truth = [n \in Truths |-> Host(n)] /\ writes = 0

\* Someone writes v to n.
Written(n, v) ==
  /\ writes < MaxWrites /\ writes' = writes + 1
  /\ truth' = [truth EXCEPT ![n] = v]
\* Someone reads v from the place p.
Reads(p, v) == right' = (v = truth[p] \/ p \in astray)

\* What is old in the page: the kernel did not copy it, and it is not marked.
Stale == {r \in Carried \ Ctl : page[r] # hw[r] /\ BlockOf(r) \notin valid \union dirty}

\* mark_dirty on the vCPU's thread.  What its store may discard is a device's mark.
MarkDirty(bits) == dirty' = dirty \union bits

\* r is written in the page and the blocks marked: it will arrive, and with it
\* whatever the page has of the others.
Arrives(r, bits) == astray' = (astray \union {q \in Stale : BlockOf(q) \in bits}) \ {r}

-----------------------------------------------------------------------------
(* mark_dirty on a device's thread. *)

DeviceLoad(d) ==
  /\ d \notin marking /\ marking' = marking \union {d}
  /\ seen' = [seen EXCEPT ![d] = dirty]
  /\ UNCHANGED <<at, acc, x, pageVars, libVars, vmmReg, right, hist>>

\* The store: of what was loaded, with the GIC's bit, and for some calls the
\* controls' as well.  Marks made since are gone, marks used up since are back.
DeviceStore(d, bits) ==
  /\ d \in marking /\ marking' = marking \ {d} /\ seen' = [seen EXCEPT ![d] = {}]
  /\ dirty' = seen[d] \union bits
  /\ astray' = astray \union {r \in Carried : page[r] # hw[r] /\ BlockOf(r) \in dirty \ dirty'}
                      \union {r \in Stale : BlockOf(r) \in dirty'}
  /\ UNCHANGED <<at, acc, x, page, hw, valid, libVars, vmmReg, right, hist>>

-----------------------------------------------------------------------------
(* The guest and the kernel. *)

\* Whatever the kernel says is current, it has copied.
Exit(now) ==
  /\ valid' = now
  /\ page' = [r \in PageRegs |-> IF \E b \in now : r \in In(b) THEN hw[r] ELSE page[r]]

\* Controls are not the guest's, and an access to CSSELR_EL1 always traps (TID2).
GuestWrite(r, v) ==
  /\ at = "guest" /\ r \in Carried \ (Ctl \union {"CSSELR_EL1"})
  /\ hw' = [hw EXCEPT ![r] = v] /\ Written(r, v)
  /\ astray' = IF page[r] # v /\ BlockOf(r) \in dirty THEN astray \union {r} ELSE astray \ {r}
  /\ UNCHANGED <<at, acc, x, page, valid, dirty, libVars, vmmReg>>

\* A trapped MRS or MSR; a write brings its value along.
Trap(n, read, v, now) ==
  /\ at = "guest" /\ at' = "trap"
  /\ read \/ writes < MaxWrites
  /\ acc' = [name |-> n, read |-> read] /\ x' = v
  /\ Exit(now)
  /\ UNCHANGED <<hw, dirty, astray, libVars, vmmReg, hist>>

OtherExit(now) ==
  /\ at = "guest" /\ at' = "vmm"
  /\ Exit(now)
  /\ UNCHANGED <<acc, x, hw, dirty, astray, libVars, vmmReg, hist>>

Enter ==
  /\ at \in {"ready", "vmm"} /\ at' = "guest"
  /\ hw' = [r \in Carried |-> IF \E b \in dirty : r \in In(b) THEN page[r] ELSE hw[r]]
  /\ dirty' = {} /\ valid' = {} /\ x' = 0 /\ acc' = NoAccess
  /\ UNCHANGED <<page, astray, libVars, vmmReg, hist>>

-----------------------------------------------------------------------------
(* service_nv2_access. *)

\* The access is carried out and stepped over; a read gives v, of what is stale
\* anything.
Answer(v) ==
  /\ at' = "ready" /\ acc' = NoAccess /\ UNCHANGED vmmReg
  /\ IF acc.read THEN /\ x' = v /\ UNCHANGED hist
                      /\ IF Silicon(acc.name) \in Stale THEN UNCHANGED right ELSE Reads(Silicon(acc.name), v)
                 ELSE x' = 0 /\ UNCHANGED right /\ Written(Silicon(acc.name), x)

\* It is left to the VMM.
HandOver ==
  /\ at' = "handed"
  /\ UNCHANGED <<acc, x, vmmReg, right, hist>>

\* A register with a place in the page: read from it, or written and marked.
Transfer(r, bits) ==
  /\ Answer(page[r])
  /\ IF acc.read THEN UNCHANGED <<page, dirty, astray>>
     ELSE page' = [page EXCEPT ![r] = x] /\ MarkDirty(bits) /\ Arrives(r, bits)
  /\ UNCHANGED <<hw, valid, libVars>>

ServeGxf == at = "trap" /\ acc.name = "GXF_CONFIG_EL1" /\ Transfer(acc.name, {"GXF"})

ServeCsselr == at = "trap" /\ acc.name = "CSSELR_EL1" /\ Transfer(acc.name, {"SYSREGS"})

\* What kNv2Regs names: a banked EL1 register, or a word of the VNCR page.
ServeNv2 ==
  /\ at = "trap" /\ acc.name \in {"TTBR0_EL2", "HCR_EL2"}
  /\ LET r == PlaceOf(acc.name) IN Transfer(r, IF r \in Banked THEN {"SYSREGS"} ELSE {})

\* A fixed answer: CLIDR_EL1 from the host, CCSIDR_EL1 of the cache CSSELR_EL1 selects.
ServeFixed ==
  /\ at = "trap" /\ acc.name \in FixedNames
  /\ IF acc.read THEN Answer(IF acc.name = "CLIDR_EL1" THEN 1 ELSE page["CSSELR_EL1"]) ELSE HandOver
  /\ UNCHANGED <<pageVars, libVars>>

\* AT: the walk's answer goes to PAR_EL1.
ServeAt(par) ==
  /\ at = "trap" /\ acc.name = "AT" /\ at' = "ready"
  /\ page' = [page EXCEPT !["PAR_EL1"] = par]
  /\ MarkDirty({"SYSREGS"}) /\ Arrives("PAR_EL1", {"SYSREGS"})
  /\ Written("PAR_EL1", par)
  /\ UNCHANGED <<acc, x, hw, valid, libVars, vmmReg, right>>

\* Maintenance has nothing left to do, and is stepped over.
ServeMaintenance ==
  /\ at = "trap" /\ acc.name = "TLBI" /\ at' = "ready" /\ acc' = NoAccess
  /\ UNCHANGED <<x, pageVars, libVars, vmmReg, right, hist>>

\* The PSTATE field: a static of the function, and so a word that every vCPU of
\* the process writes.  A read gives what any of them left there.
ServeHeld(held) ==
  /\ at = "trap" /\ acc.name = "PSTATE" /\ at' = "ready"
  /\ x' = (IF acc.read THEN held ELSE x) /\ acc' = NoAccess
  /\ UNCHANGED <<pageVars, libVars, vmmReg, right, hist>>

\* The GL2 bank, and with it VM_TMR_FIQ_ENA and the trace registers: a slot each.
ServeSlot ==
  /\ at = "trap" /\ acc.name = "TPIDR_GL2"
  /\ Answer(slots["TPIDR_GL2"])
  /\ slots' = IF acc.read THEN slots ELSE [slots EXCEPT !["TPIDR_GL2"] = x]
  /\ UNCHANGED <<pageVars, tab, idsLoaded>>

\* The table as gic_if_slot makes it ready: ICC_SRE_EL1 comes first.
Ready(t) ==
  IF t = "gic" /\ tab[t] = <<>> THEN <<[enc |-> "ICC_SRE_EL1", value |-> 1]>> ELSE tab[t]

\* Mutant of Room: the bound is tested after the entry is taken.
RoomPastEnd(t) == Len(Ready(t)) <= Max(t)

Room(t)    == Len(Ready(t)) < Max(t)
Entries(t, n) == {i \in 1 .. Len(Ready(t)) : Ready(t)[i].enc = n}
\* The table with n in it.
With(t, n) == IF Entries(t, n) # {} THEN Ready(t) ELSE Append(Ready(t), [enc |-> n, value |-> 0])
Index(s, n) == CHOOSE i \in 1 .. Len(s) : s[i].enc = n

\* gic_if, ctrr and apple_shadow: by encoding, in the order of first use.
ServeTable ==
  /\ at = "trap" /\ acc.name \in TableNames
  /\ LET t == TableOf(acc.name)
         n == IF t = "ctrr" THEN Fold(acc.name) ELSE acc.name IN
     IF Entries(t, n) = {} /\ ~Room(t)
       THEN HandOver /\ tab' = [tab EXCEPT ![t] = Ready(t)]
       ELSE LET i == Index(With(t, n), n) IN
            /\ Answer(With(t, n)[i].value)
            /\ tab' = [tab EXCEPT ![t] = IF acc.read THEN With(t, n)
                                         ELSE [With(t, n) EXCEPT ![i].value = x]]
  /\ UNCHANGED <<pageVars, slots, idsLoaded>>

\* Nothing matches.
Unmatched ==
  /\ at = "trap" /\ acc.name \in VmmOwn
  /\ HandOver
  /\ UNCHANGED <<pageVars, libVars>>

\* The VMM carries the access out against its own register file, with
\* hv_vcpu_get_reg and hv_vcpu_set_reg for the operand and PC, and drops what is
\* written to a read-only register.  (Its calls for other registers meanwhile are as
\* well made after this one.)
VmmCompletes ==
  /\ at = "handed" /\ at' = "vmm" /\ acc' = NoAccess
  /\ IF acc.read
       THEN /\ x' = vmmReg[acc.name] /\ UNCHANGED <<vmmReg, hist>>
            /\ Reads(Silicon(acc.name), x')
       ELSE /\ IF acc.name \in FixedNames
                 THEN UNCHANGED <<vmmReg, hist>>
                 ELSE vmmReg' = [vmmReg EXCEPT ![acc.name] = x] /\ Written(Silicon(acc.name), x)
            /\ x' = 0 /\ UNCHANGED right
  /\ UNCHANGED <<pageVars, libVars>>

Serve == ServeGxf \/ ServeCsselr \/ ServeNv2 \/ ServeFixed \/ ServeSlot \/ ServeTable
           \/ ServeMaintenance \/ Unmatched
           \/ \E v \in Values : ServeAt(v) \/ ServeHeld(v)

-----------------------------------------------------------------------------
(* sysreg_access. *)

\* Mutant of NeedsSync: a write does without.
NeedsSyncToRead(r, write) == ~write

\* Mutant of NeedsSync: a read does without.
NeedsSyncToWrite(r, write) == write

\* sync_before, or the part of the page is not current.
NeedsSync(r, write) ==
  \/ r \in Banked \union Ext
  \/ r \in Shared /\ "SYSREGS" \notin valid
  \/ r \in Ctl \union Vncr /\ "CONTROLS" \notin valid

\* The page after SYSREGS_SYNC.
Synced == [r \in PageRegs |->
             IF r \in Stale THEN hw[r] ELSE page[r]]

Current(r, write) == IF NeedsSync(r, write) THEN Synced ELSE page

\* The sync may be refused: then that is the answer, and nothing happened.
VmmGet(r) ==
  /\ at = "vmm" /\ r \in PageRegs
  /\ page' = Current(r, FALSE)
  /\ valid' = IF NeedsSync(r, FALSE) THEN Blocks ELSE valid
  /\ Reads(r, page'[r])
  /\ UNCHANGED <<at, acc, x, hw, dirty, astray, libVars, vmmReg, hist>>

\* What is written: CPTR_EL2 keeps the bits the kernel put there, which among the
\* values 0 has not.
Out(r, v) == IF r = "CPTR_EL2" /\ v = 0 THEN 1 ELSE v

\* A shared register is not marked: it goes along if its block is, and else stays.
VmmSet(r, v) ==
  /\ at = "vmm" /\ r \in PageRegs
  /\ page' = [Current(r, TRUE) EXCEPT ![r] = Out(r, v)]
  /\ valid' = IF NeedsSync(r, TRUE) THEN Blocks ELSE valid
  /\ MarkDirty(IF r \in Shared THEN {} ELSE IF r \in Vncr THEN {"CONTROLS"} ELSE {BlockOf(r)})
  /\ astray' = IF r \in Shared /\ hw[r] # v /\ "SYSREGS" \notin dirty THEN astray \union {r}
                ELSE astray \ {r}
  /\ Written(r, Out(r, v))
  /\ UNCHANGED <<at, acc, x, hw, libVars, vmmReg>>

\* Kinds 5 and 7: a slot of the library's own; the ID registers are loaded first.
\* (An ID register without a slot reads zero, and what is written to it is dropped.)
IdsLoaded == IF idsLoaded THEN slots ELSE [slots EXCEPT !["MIDR_EL1"] = 1]

VmmGetSlot(n) ==
  /\ at = "vmm"
  /\ slots' = IF n = "MIDR_EL1" THEN IdsLoaded ELSE slots
  /\ idsLoaded' = (idsLoaded \/ n = "MIDR_EL1")
  /\ Reads(VmmPlace(n), slots'[VmmPlace(n)])
  /\ UNCHANGED <<at, acc, x, pageVars, tab, vmmReg, hist>>

VmmSetSlot(n, v) ==
  /\ at = "vmm"
  /\ slots' = [IF n = "MIDR_EL1" THEN IdsLoaded ELSE slots EXCEPT ![VmmPlace(n)] = v]
  /\ idsLoaded' = (idsLoaded \/ n = "MIDR_EL1")
  /\ Written(VmmPlace(n), v)
  /\ UNCHANGED <<at, acc, x, pageVars, tab, vmmReg>>

\* control_field_access, hv_vcpu_set_trap_debug_*: the control word as it
\* is given, without a sync.  A write of APSTS_EL1 is dropped.
VmmSetControl(r, v) ==
  /\ at = "vmm" /\ r \in Ctl
  /\ page' = [page EXCEPT ![r] = v] /\ MarkDirty({"CONTROLS"}) /\ Arrives(r, {"CONTROLS"})
  /\ Written(r, v)
  /\ UNCHANGED <<at, acc, x, hw, valid, libVars, vmmReg>>

VmmGetControl(r) ==
  /\ at = "vmm" /\ r \in Ctl
  /\ Reads(r, page[r])
  /\ UNCHANGED <<at, acc, x, pageVars, libVars, vmmReg, hist>>

-----------------------------------------------------------------------------

VmmSlotNames == {"MIDR_EL1", "TTBR0_EL2"}

Quiet ==
  \/ \E r \in Carried, v \in Values : GuestWrite(r, v)
  \/ \E n \in Names \ Insns, v \in Values, now \in ExitBlocks : Trap(n, FALSE, v, now)
  \/ \E n \in Names \ Insns, now \in ExitBlocks : Trap(n, TRUE, 0, now)
  \/ \E n \in Insns, now \in ExitBlocks : Trap(n, FALSE, 0, now)
  \/ \E now \in ExitBlocks : OtherExit(now)
  \/ Enter
  \/ \E r \in PageRegs, v \in Values : VmmSet(r, v)
  \/ \E n \in VmmSlotNames, v \in Values : VmmSetSlot(n, v)
  \/ \E r \in Ctl, v \in Values : VmmSetControl(r, v)

Own ==
  \/ Quiet /\ UNCHANGED right
  \/ Serve \/ VmmCompletes
  \/ \E r \in PageRegs : VmmGet(r)
  \/ \E n \in VmmSlotNames : VmmGetSlot(n)
  \/ \E r \in Ctl : VmmGetControl(r)

Next ==
  \/ Own /\ UNCHANGED deviceVars
  \/ \E d \in Devices : DeviceLoad(d)
  \/ \E d \in Devices, bits \in {{}, {"CONTROLS"}} : DeviceStore(d, bits)

Spec == Init /\ [][Next]_vars

-----------------------------------------------------------------------------
(* Properties.  Both are about places, and a place may have several names and *)
(* several ways to it.  Where the VMM's name of a register and the guest's     *)
(* are different places (VmmPlace), they say nothing of one against the other. *)
(* The code leaves open, and astray is where it does:                          *)
(*   - a device's store takes a mark away, or puts one back that is used up;   *)
(*   - a trapped write goes to a block that the exit did not bring, and is     *)
(*     marked: the old neighbours in the page are carried with it;             *)
(*   - the VMM writes a shared register, and nothing marks its block.          *)
(* In each the register is put right by the next write that arrives.           *)

\* Whoever reads a place, by whichever name and by whichever of the ways to it, gets
\* what was last written to it: a name that is folded, a table that is full, a block
\* the kernel has not copied, a register that the VMM answers for, a control whose
\* kernel bits are kept.  A trapped read of a block the exit did not bring may give
\* anything, as may one of the PSTATE field, which the vCPUs share.
ReadsBack == right

\* The guest runs with what was last written to every register the hardware has: no
\* write of the VMM carries an old value of its neighbours with it, no trapped write
\* does if the exit brought their block, and none is left behind in the page.
HardwareCurrent == at = "guest" => \A r \in Carried \ astray : hw[r] = truth[r]
=============================================================================
