-------------------------- MODULE GuestLevelProofs --------------------------
(***************************************************************************)
(* Proofs about GuestLevel, for any set of device threads.                 *)
(***************************************************************************)
EXTENDS GuestLevel, TLAPS

\* The hardware's NV is the library's unless a change is marked for the entry, or
\* its mark was taken away.
MarkedOrLoaded ==
  \/ "CONTROLS" \in lost \/ hwNv = nv
  \/ ~running /\ "CONTROLS" \in dirty

\* With NV off the pair an ERET will find is one the hardware may perform: it was
\* put there by HandOver, consumed by CompleteEret, or prepared at EL1.  While the
\* vCPU is out a device may add or restore a mark, so both copies have to do.
PairReturnable ==
  ~nv /\ "SYSREGS" \notin lost =>
    IF running THEN ~Refused(hwPair)
    ELSE ~Refused(pair) /\ ("SYSREGS" \in dirty \/ ~Refused(hwPair))

\* A hypervisor is without NV only on its way into the guarded level, and in it.
OffForGuarded ==
  guest_at_el2 /\ ~nv /\ "SYSREGS" \notin lost => where = "guarded" \/ intent = "handed"

LevelInv ==
  /\ TypeOK
  /\ MarkedOrLoaded
  /\ HypervisorHasNv
  /\ PairReturnable
  /\ OffForGuarded
  /\ where = "hypervisor" => guest_at_el2
  /\ intent = "handed" => EretIsGuarded
  /\ NoIllegalReturn

LEMMA LevelInvInit == Init => LevelInv
BY DEF Init, LevelInv, TypeOK, MarkedOrLoaded, HypervisorHasNv, PairReturnable,
       OffForGuarded, NoIllegalReturn, Modes, Places, Blocks

\* What the prologue does for an exit that is not a guarded one.
LEMMA PlainPrologue ==
  ASSUME TypeOK, NEW ec \in {"eret", "hvc", "other"}, NEW high \in BOOLEAN
  PROVE  /\ NvAtExit(ec, high) = (nv \/ high)
         /\ MarkAtExit(ec, high) = IF high /\ ~nv THEN {"CONTROLS"} ELSE {}
         /\ GeretAtExit(ec) = nv_off_for_geret
BY DEF TypeOK, NvAtExit, MarkAtExit, GeretAtExit, NvBack

LEMMA LevelInvNext == LevelInv /\ [Next]_vars => LevelInv'
<1> SUFFICES ASSUME LevelInv, [Next]_vars PROVE LevelInv'
  OBVIOUS
<1> USE DEF LevelInv, TypeOK, MarkedOrLoaded, HypervisorHasNv, PairReturnable,
            OffForGuarded, NoIllegalReturn, Modes, Places, Blocks, AtEl1, Refused,
            EretIsGuarded, SpsrIllegal, nvVars, guestVars, hwVars, markVars,
            deviceVars
<1>1. CASE TrappedEret
  <2>1. CASE HandOver
    BY <1>1, <2>1 DEF TrappedEret, Exited, HandOver, MarkDirty
  <2>2. ASSUME NEW high \in BOOLEAN, CompleteEret(high) PROVE LevelInv'
    BY <1>1, <2>2, PlainPrologue DEF TrappedEret, Exited, CompleteEret, PairKept, MarkDirty
  <2>3. ASSUME NEW high \in BOOLEAN, EretToVmm(high) PROVE LevelInv'
    BY <1>1, <2>3, PlainPrologue
    DEF TrappedEret, Exited, EretToVmm, PrologueOnly, PairKept, MarkDirty
  <2>4. QED BY <1>1, <2>1, <2>2, <2>3 DEF TrappedEret
<1>2. CASE TrappedHvc
  <2>1. CASE ~guest_at_el2
    BY <1>2, <2>1, PlainPrologue DEF TrappedHvc, Exited, EnterGuestEl2, GeretAtExit, MarkDirty
  <2>2. CASE guest_at_el2
    BY <1>2, <2>2, PlainPrologue DEF TrappedHvc, Exited, PrologueOnly, PairKept, MarkDirty
  <2>3. QED BY <2>1, <2>2
<1>3. CASE GuardedExit
  <2>1. PICK high \in BOOLEAN : PrologueOnly("guarded exit", high)
    BY <1>3 DEF GuardedExit
  <2>2. /\ nv' = (nv \/ nv_off_for_geret \/ high)
        /\ MarkDirty(IF nv_off_for_geret \/ (high /\ ~nv) THEN {"CONTROLS"} ELSE {})
        /\ nv_off_for_geret' = FALSE /\ guest_at_el2' = guest_at_el2
    BY <2>1 DEF PrologueOnly, NvAtExit, MarkAtExit, GeretAtExit, NvBack
  <2>3. QED
    BY <1>3, <2>2 DEF GuardedExit, Exited, PairKept, MarkDirty
<1>4. CASE HandoffWrite
  BY <1>4 DEF HandoffWrite, Exited, GeretAtExit, PairKept, MarkDirty
<1>5. CASE OtherExit
  <2>1. PICK high \in BOOLEAN : PrologueOnly("other", high)
    BY <1>5 DEF OtherExit
  <2>2. /\ nv' = (nv \/ high)
        /\ MarkDirty(IF high /\ ~nv THEN {"CONTROLS"} ELSE {})
        /\ nv_off_for_geret' = nv_off_for_geret /\ guest_at_el2' = guest_at_el2
    BY <2>1, PlainPrologue DEF PrologueOnly
  <2>3. /\ running /\ running' = FALSE /\ pair' = hwPair
        /\ UNCHANGED <<hwNv, hwPair, marking, seen, spsr_gl1, where, intent, illegal>>
    BY <1>5 DEF OtherExit, Exited, PairKept
  <2>4. CASE high /\ ~nv
    BY <2>2, <2>3, <2>4 DEF MarkDirty
  <2>5. CASE ~(high /\ ~nv)
    <3>1. MarkDirty({})
      BY <2>2, <2>5, Zenon
    <3>2. dirty' = dirty /\ lost' = lost
      BY <3>1 DEF MarkDirty
    <3>3. nv' = nv
      BY <2>2, <2>5
    <3>4. TypeOK'
      BY <2>2, <2>3, <3>2, <3>3
    <3>5. MarkedOrLoaded'
      BY <2>3, <3>2, <3>3
    <3>6. PairReturnable' /\ OffForGuarded' /\ HypervisorHasNv'
      BY <2>2, <2>3, <3>2, <3>3
    <3>7. QED
      BY <2>2, <2>3, <3>4, <3>5, <3>6
  <2>6. QED
    BY <2>4, <2>5
<1>6. CASE Enter
  BY <1>6 DEF Enter
<1>7. CASE HardwareEret
  BY <1>7 DEF HardwareEret
<1>8. CASE PrepareReturn
  BY <1>8 DEF PrepareReturn
<1>9. CASE PrepareGuardedReturn
  BY <1>9 DEF PrepareGuardedReturn
<1>10. CASE BranchToMonitor
  BY <1>10 DEF BranchToMonitor
<1>11. CASE Svc
  BY <1>11 DEF Svc
<1>12. ASSUME NEW d \in Devices, DeviceLoad(d) PROVE LevelInv'
  BY <1>12 DEF DeviceLoad
<1>13. ASSUME NEW d \in Devices, NEW blocks \in {{}, {"CONTROLS"}}, DeviceStore(d, blocks)
       PROVE  LevelInv'
  <2>1. dirty' \subseteq Blocks /\ lost' \subseteq Blocks /\ lost \subseteq lost'
    BY <1>13 DEF DeviceStore
  <2>2. "CONTROLS" \in dirty /\ "CONTROLS" \notin dirty' => "CONTROLS" \in lost'
    BY <1>13 DEF DeviceStore
  <2>3. "SYSREGS" \in dirty /\ "SYSREGS" \notin dirty' => "SYSREGS" \in lost'
    BY <1>13 DEF DeviceStore
  <2>4. TypeOK'
    BY <1>13, <2>1 DEF DeviceStore
  <2>5. MarkedOrLoaded' /\ PairReturnable' /\ OffForGuarded'
    BY <1>13, <2>1, <2>2, <2>3 DEF DeviceStore
  <2>6. QED
    BY <1>13, <2>4, <2>5 DEF DeviceStore
<1>14. CASE UNCHANGED vars
  BY <1>14 DEF vars
<1>15. QED
  BY <1>1, <1>2, <1>3, <1>4, <1>5, <1>6, <1>7, <1>8, <1>9, <1>10, <1>11, <1>12, <1>13,
     <1>14 DEF Next

\* Every variable keeps its type: in particular the written-or-not state of
\* SPSR_GL1 that eret_is_guarded reads is always one it knows.
THEOREM LevelTypeCorrect == Spec => []TypeOK
<1>1. LevelInv => TypeOK
  BY DEF LevelInv
<1>2. QED
  BY <1>1, LevelInvInit, LevelInvNext, PTL DEF Spec

\* No exit of the guest, whatever its order with others, makes the library ask
\* the hardware for a return to EL2 from EL1 or to a reserved mode, while no mark is
\* missing that a device took away.
THEOREM ReturnsAreLegal == Spec => []NoIllegalReturn
<1>1. LevelInv => NoIllegalReturn
  BY DEF LevelInv
<1>2. QED
  BY <1>1, LevelInvInit, LevelInvNext, PTL DEF Spec

\* A guest taken for a hypervisor outside a guarded return has NV set.
THEOREM HypervisorKeepsNv == Spec => []HypervisorHasNv
<1>1. LevelInv => HypervisorHasNv
  BY DEF LevelInv
<1>2. QED
  BY <1>1, LevelInvInit, LevelInvNext, PTL DEF Spec

\* The hardware runs with the NV decided on, however many devices mark the same
\* word, except while a mark is missing that one of them took away.
THEOREM NvReachesHardware == Spec => []ControlsReachHardware
<1>1. LevelInv => ControlsReachHardware
  BY DEF LevelInv, MarkedOrLoaded, ControlsReachHardware
<1>2. QED
  BY <1>1, LevelInvInit, LevelInvNext, PTL DEF Spec
=============================================================================
