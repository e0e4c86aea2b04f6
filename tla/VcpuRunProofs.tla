--------------------------- MODULE VcpuRunProofs ---------------------------
(***************************************************************************)
(* Proofs about VcpuRun, for any set of vCPUs, any set of kicking threads  *)
(* and any bounds.                                                         *)
(***************************************************************************)
EXTENDS VcpuRun, FiniteSetTheorems, TLAPS

\* The exit page of a vCPU that has just left the guest on a trapped
\* instruction describes the instruction the guest is standing on, and so does
\* an EXCEPTION the VMM has not handled yet.
ExitDescribesGuest ==
  \A v \in Vcpus :
    /\ pc[v] \in {"exited", "decode"} /\ vmexit[v].reason = "trap"
         => vmexit[v].insn = gpc[v] /\ gpc[v] < MaxInsn
    /\ \/ pc[v] = "return"
       \/ pc[v] = "handle" /\ ret[v] = "HV_SUCCESS"
       => (pub_exit[v].reason = "EXCEPTION"
             => pub_exit[v].insn = gpc[v] /\ gpc[v] < MaxInsn)

\* A latch that stands before the entry was not seen by any entry yet.
SlackInv ==
  \A v \in Vcpus :
    /\ slack[v] \in {0, 1}
    /\ exit_requested[v] /\ pc[v] \notin InRun => slack[v] = 1

-----------------------------------------------------------------------------
(* Types, together with what the exit pages say: the VMM moves the guest past
   an instruction on the strength of pub_exit, so the bound on gpc needs both. *)

TypeInv == TypeOK /\ ExitDescribesGuest

LEMMA TypeInvInit == Init => TypeInv
<1> SUFFICES ASSUME Init PROVE TypeInv
  OBVIOUS
<1> USE RunAssumption DEF Init, Steps, VmexitReason, ExitReason, InsnClass
<1>1. vmexit \in [Vcpus -> [reason : VmexitReason, insn : 0 .. MaxInsn]]
  OBVIOUS
<1>2. pub_exit \in [Vcpus -> [reason : ExitReason, insn : 0 .. MaxInsn]]
  OBVIOUS
<1>3. effects \in [Vcpus -> [Insns -> Nat]]
  OBVIOUS
<1>4. TypeOK
  BY <1>1, <1>2, <1>3 DEF TypeOK
<1>5. ExitDescribesGuest
  BY DEF ExitDescribesGuest
<1>6. QED
  BY <1>4, <1>5 DEF TypeInv

\* Retiring the instruction the guest stands on keeps the guest's types.
LEMMA RetireTypes ==
  ASSUME TypeOK, NEW v \in Vcpus, gpc[v] < MaxInsn, Retire(v, gpc[v])
  PROVE  /\ gpc' \in [Vcpus -> 0 .. MaxInsn]
         /\ insn' \in [Vcpus -> InsnClass]
         /\ effects' \in [Vcpus -> [Insns -> Nat]]
<1>1. gpc' \in [Vcpus -> 0 .. MaxInsn] /\ insn' \in [Vcpus -> InsnClass]
  BY RunAssumption DEF TypeOK, Retire
<1>2. [effects[v] EXCEPT ![gpc[v]] = effects[v][gpc[v]] + 1] \in [Insns -> Nat]
  BY RunAssumption DEF TypeOK, Insns
<1>3. effects' \in [Vcpus -> [Insns -> Nat]]
  BY <1>2 DEF TypeOK, Retire
<1>4. QED
  BY <1>1, <1>3

LEMMA TypeInvNext == TypeInv /\ [Next]_vars => TypeInv'
<1> SUFFICES ASSUME TypeInv, [Next]_vars PROVE TypeInv'
  OBVIOUS
<1> USE RunAssumption DEF TypeInv, TypeOK, ExitDescribesGuest
<1>1. ASSUME NEW v \in Vcpus, VmmHandle(v) PROVE TypeInv'
  <2> USE DEF slotVars, kickVars, histVars, Steps, InsnClass, Insns
  <2>1. /\ pc[v] = "handle" /\ pc' = [pc EXCEPT ![v] = "inject"]
        /\ UNCHANGED <<vmexit, kcancel, slotVars, fired, kickVars, work, histVars>>
    BY <1>1 DEF VmmHandle
  <2>2. CASE ret[v] = "HV_SUCCESS" /\ pub_exit[v].reason = "EXCEPTION"
    <3>1. pub_exit[v].insn = gpc[v] /\ gpc[v] < MaxInsn
      BY <2>1, <2>2
    <3>2. Retire(v, gpc[v]) /\ UNCHANGED told
      BY <1>1, <2>2, <3>1 DEF VmmHandle
    <3>3. TypeOK'
      BY <2>1, <3>1, <3>2, RetireTypes
    <3>4. ExitDescribesGuest'
      BY <2>1, <3>2 DEF Retire
    <3>5. QED BY <3>3, <3>4
  <2>3. CASE ~(ret[v] = "HV_SUCCESS" /\ pub_exit[v].reason = "EXCEPTION")
    <3>1. NothingRetired /\ (told' = [told EXCEPT ![v] = TRUE] \/ UNCHANGED told)
      BY <1>1, <2>3 DEF VmmHandle
    <3>2. TypeOK'
      BY <2>1, <3>1 DEF NothingRetired
    <3>3. ExitDescribesGuest'
      BY <2>1, <3>1 DEF NothingRetired
    <3>4. QED BY <3>2, <3>3
  <2>4. QED BY <2>2, <2>3
<1>2. ASSUME NEW v \in Vcpus, VmmInject(v) PROVE TypeInv'
  BY <1>2 DEF VmmInject, guestVars, kickVars, histVars, Steps
<1>3. ASSUME NEW v \in Vcpus, Enter(v) PROVE TypeInv'
  BY <1>3 DEF Enter, slotVars, guestVars, kickVars, vmmVars, Steps
<1>4. ASSUME NEW v \in Vcpus, EnterRefused(v) PROVE TypeInv'
  BY <1>4 DEF EnterRefused, Return, guestVars, kickVars, vmmVars, Steps
<1>5. ASSUME NEW v \in Vcpus, CheckAfterRun(v) PROVE TypeInv'
  <2> USE DEF guestVars, kickVars, vmmVars, Steps, ExitReason
  <2>1. CASE HonourCancel(v)
    <3>1. TypeOK'
      BY <1>5, <2>1 DEF CheckAfterRun, HonourCancel, Return
    <3>2. ExitDescribesGuest'
      BY <1>5, <2>1 DEF CheckAfterRun, HonourCancel, Return
    <3>3. QED BY <3>1, <3>2
  <2>2. CASE GoOn(v, "decode")
    BY <1>5, <2>2 DEF CheckAfterRun, GoOn
  <2>3. QED BY <1>5, <2>1, <2>2 DEF CheckAfterRun
<1>6. ASSUME NEW v \in Vcpus, ExitFromRo(v) PROVE TypeInv'
  <2> USE DEF kickVars, vmmVars, histVars, Steps, ExitReason, VmexitReason
  <2>1. /\ pc[v] = "decode"
        /\ UNCHANGED <<vmexit, kcancel, exit_requested, ret, fired, kickVars,
                       vmmVars, histVars>>
    BY <1>6 DEF ExitFromRo, NothingToReport, HandledByKernel,
       PhysicalInterrupt, LibraryTrap, GuestException, NotClassified
  <2>2. CASE vmexit[v].reason = "trap" /\ insn[v] = "library"
    <3>1. Retire(v, gpc[v]) /\ KeepRunning(v) /\ UNCHANGED timerMask
      BY <1>6, <2>2 DEF ExitFromRo, NothingToReport, HandledByKernel,
       PhysicalInterrupt, LibraryTrap, GuestException, NotClassified
    <3>2. gpc[v] < MaxInsn
      BY <2>1, <2>2
    <3>3. TypeOK'
      BY <2>1, <3>1, <3>2, RetireTypes DEF KeepRunning
    <3>4. ExitDescribesGuest'
      BY <2>1, <3>1 DEF Retire, KeepRunning
    <3>5. QED BY <3>3, <3>4
  <2>3. CASE ~(vmexit[v].reason = "trap" /\ insn[v] = "library")
    <3>1. /\ NothingRetired
          /\ timerMask' = [timerMask EXCEPT ![v] = TRUE] \/ UNCHANGED timerMask
          /\ KeepRunning(v) \/ \E r \in ExitReason :
               Publish(v, r) /\ (r = "EXCEPTION" => vmexit[v].reason = "trap")
      BY <1>6, <2>3 DEF ExitFromRo, NothingToReport, HandledByKernel,
       PhysicalInterrupt, LibraryTrap, GuestException, NotClassified
    <3>2. CASE KeepRunning(v)
      BY <2>1, <3>1, <3>2 DEF NothingRetired, KeepRunning
    <3>3. ASSUME NEW r \in ExitReason, Publish(v, r),
                 r = "EXCEPTION" => vmexit[v].reason = "trap"
          PROVE  TypeInv'
      <4>1. TypeOK'
        BY <2>1, <3>1, <3>3 DEF NothingRetired, Publish
      <4>2. ExitDescribesGuest'
        BY <2>1, <3>1, <3>3 DEF NothingRetired, Publish
      <4>3. QED BY <4>1, <4>2
    <3>4. QED BY <3>1, <3>2, <3>3
  <2>4. QED BY <2>2, <2>3
<1>7. ASSUME NEW v \in Vcpus, CheckTurnaround(v) PROVE TypeInv'
  <2> USE DEF guestVars, kickVars, vmmVars, Steps, ExitReason
  <2>1. CASE HonourCancel(v)
    <3>1. TypeOK'
      BY <1>7, <2>1 DEF CheckTurnaround, HonourCancel, Return
    <3>2. ExitDescribesGuest'
      BY <1>7, <2>1 DEF CheckTurnaround, HonourCancel, Return
    <3>3. QED BY <3>1, <3>2
  <2>2. CASE GoOn(v, "enter")
    BY <1>7, <2>2 DEF CheckTurnaround, GoOn
  <2>3. QED BY <1>7, <2>1, <2>2 DEF CheckTurnaround
<1>8. ASSUME NEW v \in Vcpus, ReturnExit(v) PROVE TypeInv'
  BY <1>8 DEF ReturnExit, Return, guestVars, kickVars, vmmVars, Steps
<1>9. ASSUME NEW v \in Vcpus, NEW r \in VmexitReason, GuestExit(v, r) PROVE TypeInv'
  BY <1>9 DEF GuestExit, slotVars, guestVars, kickVars, vmmVars, histVars, Steps
<1>10. ASSUME NEW v \in Vcpus, GuestTimer(v) PROVE TypeInv'
  BY <1>10 DEF GuestTimer, slotVars, kickVars, vmmVars, histVars
<1>11. ASSUME NEW k \in Kickers, NEW S \in SUBSET Vcpus, ExitCall(k, S) PROVE TypeInv'
  BY <1>11 DEF ExitCall, slotVars, guestVars, histVars
<1>12. ASSUME NEW k \in Kickers, NEW v \in Vcpus, LatchExit(k, v) PROVE TypeInv'
  BY <1>12 DEF LatchExit, guestVars, vmmVars
<1>13. ASSUME NEW k \in Kickers, RunCancel(k) PROVE TypeInv'
  BY <1>13 DEF RunCancel, slotVars, guestVars, vmmVars, histVars
<1>14. CASE UNCHANGED vars
  BY <1>14 DEF vars, slotVars, guestVars, kickVars, vmmVars, histVars
<1>15. QED
  BY <1>1, <1>2, <1>3, <1>4, <1>5, <1>6, <1>7, <1>8, <1>9, <1>10, <1>11, <1>12,
     <1>13, <1>14 DEF Next, RunLoop, AnyGuestExit, Kick

\* Every variable of the run loop keeps its type; in particular the guest is
\* never moved past an instruction it has not reached.
THEOREM TypeCorrect == Safe => []TypeOK
<1>1. Safe => []TypeInv
  BY TypeInvInit, TypeInvNext, PTL DEF Safe
<1>2. QED
  BY <1>1, PTL DEF TypeInv

-----------------------------------------------------------------------------
(* The cancel. *)

\* A thread outside hv_vcpus_exit has nothing left to latch.
IdleHasNothing == \A k \in Kickers : kpc[k] = "idle" => todo[k] = {}

\* NoLostKick is inductive together with it: a new call starts with a fresh
\* list, and would otherwise drop what the thread still had to latch.
KickInv == NoLostKick /\ IdleHasNothing

\* Work whose kick has been latched is never lost: at every moment the latch
\* stands or the vCPU's thread is in the VMM, about to collect the work,
\* whichever of hv_vcpu_run's three clears of exit_requested ran last.
THEOREM KickNeverLost == Safe => []NoLostKick
<1>1. Init => KickInv
  BY DEF Init, KickInv, NoLostKick, IdleHasNothing
<1>2. TypeInv /\ KickInv /\ [Next]_vars => KickInv'
  <2> SUFFICES ASSUME TypeInv, KickInv, [Next]_vars PROVE KickInv'
    OBVIOUS
  <2> USE DEF TypeInv, TypeOK, KickInv, NoLostKick, IdleHasNothing, KickUnderway
  <2>1. ASSUME NEW v \in Vcpus, VmmHandle(v) PROVE KickInv'
    BY <2>1 DEF VmmHandle, slotVars, kickVars
  <2>2. ASSUME NEW v \in Vcpus, VmmInject(v) PROVE KickInv'
    BY <2>2 DEF VmmInject, kickVars
  <2>3. ASSUME NEW v \in Vcpus, Enter(v) PROVE KickInv'
    BY <2>3 DEF Enter, slotVars, kickVars, vmmVars
  <2>4. ASSUME NEW v \in Vcpus, EnterRefused(v) PROVE KickInv'
    BY <2>4 DEF EnterRefused, Return, kickVars, vmmVars
  <2>5. ASSUME NEW v \in Vcpus, CheckAfterRun(v) PROVE KickInv'
    <3>1. CASE HonourCancel(v)
      BY <2>5, <3>1 DEF CheckAfterRun, HonourCancel, Return, kickVars, vmmVars
    <3>2. CASE GoOn(v, "decode")
      BY <2>5, <3>2 DEF CheckAfterRun, GoOn, kickVars, vmmVars
    <3>3. QED BY <2>5, <3>1, <3>2 DEF CheckAfterRun
  <2>6. ASSUME NEW v \in Vcpus, ExitFromRo(v) PROVE KickInv'
    <3>1. /\ pc[v] = "decode"
          /\ UNCHANGED <<exit_requested, kickVars, vmmVars>>
          /\ \E q \in {"return", "turnaround"} : pc' = [pc EXCEPT ![v] = q]
      BY <2>6 DEF ExitFromRo, NothingToReport, HandledByKernel,
       PhysicalInterrupt, LibraryTrap, GuestException, NotClassified, Publish, KeepRunning
    <3>2. QED BY <3>1 DEF kickVars, vmmVars
  <2>7. ASSUME NEW v \in Vcpus, CheckTurnaround(v) PROVE KickInv'
    <3>1. CASE HonourCancel(v)
      BY <2>7, <3>1 DEF CheckTurnaround, HonourCancel, Return, kickVars, vmmVars
    <3>2. CASE GoOn(v, "enter")
      BY <2>7, <3>2 DEF CheckTurnaround, GoOn, kickVars, vmmVars
    <3>3. QED BY <2>7, <3>1, <3>2 DEF CheckTurnaround
  <2>8. ASSUME NEW v \in Vcpus, ReturnExit(v) PROVE KickInv'
    BY <2>8 DEF ReturnExit, Return, kickVars, vmmVars
  <2>9. ASSUME NEW v \in Vcpus, NEW r \in VmexitReason, GuestExit(v, r)
        PROVE  KickInv'
    BY <2>9 DEF GuestExit, slotVars, kickVars, vmmVars
  <2>10. ASSUME NEW v \in Vcpus, GuestTimer(v) PROVE KickInv'
    BY <2>10 DEF GuestTimer, slotVars, kickVars, vmmVars
  <2>11. ASSUME NEW k \in Kickers, NEW S \in SUBSET Vcpus, ExitCall(k, S)
         PROVE  KickInv'
    <3>1. /\ UNCHANGED <<pc, exit_requested>>
          /\ work' = [v \in Vcpus |-> work[v] \/ v \in S]
          /\ todo[k] = {} /\ todo' = [todo EXCEPT ![k] = S]
          /\ kpc' = [kpc EXCEPT ![k] = "latching"]
      BY <2>11 DEF ExitCall, slotVars
    <3>2. ASSUME NEW v \in Vcpus, KickUnderway(v) \/ v \in S PROVE KickUnderway(v)'
      BY <3>1, <3>2
    <3>3. NoLostKick'
      BY <3>1, <3>2
    <3>4. IdleHasNothing'
      BY <3>1
    <3>5. QED BY <3>3, <3>4
  <2>12. ASSUME NEW k \in Kickers, NEW v \in Vcpus, LatchExit(k, v) PROVE KickInv'
    BY <2>12 DEF LatchExit, vmmVars
  <2>13. ASSUME NEW k \in Kickers, RunCancel(k) PROVE KickInv'
    BY <2>13 DEF RunCancel, slotVars, vmmVars
  <2>14. CASE UNCHANGED vars
    BY <2>14 DEF vars, slotVars, kickVars, vmmVars
  <2>15. QED
    BY <2>1, <2>2, <2>3, <2>4, <2>5, <2>6, <2>7, <2>8, <2>9, <2>10, <2>11, <2>12,
       <2>13, <2>14 DEF Next, RunLoop, AnyGuestExit, Kick
<1>3. KickInv => NoLostKick
  BY DEF KickInv
<1>4. QED
  BY <1>1, <1>2, <1>3, TypeInvInit, TypeInvNext, PTL DEF Safe

\* A cancel latched while the vCPU is past its entry brings it out without
\* another entry, and one latched before the entry lets it in once: the checks
\* after the run trap and at the turnaround together miss none.
THEOREM CancelIsPrompt == Safe => []PromptCancel
<1>1. Init => SlackInv
  BY DEF Init, SlackInv
<1>2. TypeInv /\ SlackInv /\ [Next]_vars => SlackInv'
  <2> SUFFICES ASSUME TypeInv, SlackInv, [Next]_vars PROVE SlackInv'
    OBVIOUS
  <2> USE DEF TypeInv, TypeOK, SlackInv, InRun
  <2>1. ASSUME NEW v \in Vcpus, VmmHandle(v) PROVE SlackInv'
    BY <2>1 DEF VmmHandle, slotVars, histVars
  <2>2. ASSUME NEW v \in Vcpus, VmmInject(v) PROVE SlackInv'
    BY <2>2 DEF VmmInject, histVars
  <2>3. ASSUME NEW v \in Vcpus, Enter(v) PROVE SlackInv'
    BY <2>3 DEF Enter, slotVars
  <2>4. ASSUME NEW v \in Vcpus, EnterRefused(v) PROVE SlackInv'
    BY <2>4 DEF EnterRefused, Return
  <2>5. ASSUME NEW v \in Vcpus, CheckAfterRun(v) PROVE SlackInv'
    <3>1. CASE HonourCancel(v)
      BY <3>1 DEF HonourCancel, Return
    <3>2. CASE GoOn(v, "decode")
      BY <3>2 DEF GoOn
    <3>3. QED BY <2>5, <3>1, <3>2 DEF CheckAfterRun
  <2>6. ASSUME NEW v \in Vcpus, ExitFromRo(v) PROVE SlackInv'
    <3>1. /\ UNCHANGED <<exit_requested, histVars>>
          /\ \E q \in {"return", "turnaround"} : pc' = [pc EXCEPT ![v] = q]
      BY <2>6 DEF ExitFromRo, NothingToReport, HandledByKernel,
       PhysicalInterrupt, LibraryTrap, GuestException, NotClassified, Publish, KeepRunning
    <3>2. QED BY <3>1 DEF histVars
  <2>7. ASSUME NEW v \in Vcpus, CheckTurnaround(v) PROVE SlackInv'
    <3>1. CASE HonourCancel(v)
      BY <3>1 DEF HonourCancel, Return
    <3>2. CASE GoOn(v, "enter")
      BY <3>2 DEF GoOn, Latched
    <3>3. QED BY <2>7, <3>1, <3>2 DEF CheckTurnaround
  <2>8. ASSUME NEW v \in Vcpus, ReturnExit(v) PROVE SlackInv'
    BY <2>8 DEF ReturnExit, Return
  <2>9. ASSUME NEW v \in Vcpus, NEW r \in VmexitReason, GuestExit(v, r)
        PROVE  SlackInv'
    BY <2>9 DEF GuestExit, slotVars, histVars
  <2>10. ASSUME NEW v \in Vcpus, GuestTimer(v) PROVE SlackInv'
    BY <2>10 DEF GuestTimer, slotVars, histVars
  <2>11. ASSUME NEW k \in Kickers, NEW S \in SUBSET Vcpus, ExitCall(k, S)
         PROVE  SlackInv'
    BY <2>11 DEF ExitCall, slotVars, histVars
  <2>12. ASSUME NEW k \in Kickers, NEW v \in Vcpus, LatchExit(k, v) PROVE SlackInv'
    BY <2>12 DEF LatchExit
  <2>13. ASSUME NEW k \in Kickers, RunCancel(k) PROVE SlackInv'
    BY <2>13 DEF RunCancel, slotVars, histVars
  <2>14. CASE UNCHANGED vars
    BY <2>14 DEF vars, slotVars, histVars
  <2>15. QED
    BY <2>1, <2>2, <2>3, <2>4, <2>5, <2>6, <2>7, <2>8, <2>9, <2>10, <2>11, <2>12,
       <2>13, <2>14 DEF Next, RunLoop, AnyGuestExit, Kick
<1>3. SlackInv => PromptCancel
  BY DEF SlackInv, PromptCancel
<1>4. QED
  BY <1>1, <1>2, <1>3, TypeInvInit, TypeInvNext, PTL DEF Safe

-----------------------------------------------------------------------------
(* What a dropped exit may not break. *)

\* No trapped instruction is carried out twice or skipped, although
\* hv_vcpu_run drops an exit when it honours a cancel and reuses pub_exit.
THEOREM EffectsExactlyOnce == Safe => []ExactlyOnce
<1>1. Init => ExactlyOnce
  BY DEF Init, ExactlyOnce, Insns
<1>2. TypeInv /\ ExactlyOnce /\ [Next]_vars => ExactlyOnce'
  <2> SUFFICES ASSUME TypeInv, ExactlyOnce, [Next]_vars PROVE ExactlyOnce'
    OBVIOUS
  <2>1. ASSUME NEW v \in Vcpus, gpc[v] < MaxInsn, Retire(v, gpc[v])
        PROVE  ExactlyOnce'
    <3> SUFFICES ASSUME NEW w \in Vcpus, NEW i \in Insns
                 PROVE  effects'[w][i] = IF i < gpc'[w] THEN 1 ELSE 0
      BY DEF ExactlyOnce
    <3>1. effects[w][i] = IF i < gpc[w] THEN 1 ELSE 0
      BY DEF ExactlyOnce
    <3>2. CASE w # v
      BY <2>1, <3>1, <3>2 DEF Retire, TypeInv, TypeOK
    <3>3. CASE w = v
      <4>1. effects'[v] = [effects[v] EXCEPT ![gpc[v]] = effects[v][gpc[v]] + 1]
        BY <2>1 DEF Retire, TypeInv, TypeOK
      <4>2. gpc'[v] = gpc[v] + 1
        BY <2>1 DEF Retire, TypeInv, TypeOK
      <4>3. gpc[v] \in Insns /\ effects[v] \in [Insns -> Nat]
        BY <2>1, RunAssumption DEF TypeInv, TypeOK, Insns
      <4>4. effects[v][gpc[v]] = 0
        BY <4>3 DEF ExactlyOnce, Insns
      <4>5. effects'[v][i] = IF i = gpc[v] THEN 1 ELSE effects[v][i]
        BY <4>1, <4>3, <4>4
      <4>6. i \in Int /\ gpc[v] \in Int
        BY <4>3, RunAssumption DEF Insns
      <4>7. QED
        BY <3>1, <3>3, <4>2, <4>5, <4>6
    <3>4. QED BY <3>2, <3>3
  <2>2. ASSUME UNCHANGED <<effects, gpc>> PROVE ExactlyOnce'
    BY <2>2 DEF ExactlyOnce
  <2>3. ASSUME NEW v \in Vcpus, VmmHandle(v) PROVE ExactlyOnce'
    <3>1. CASE ret[v] = "HV_SUCCESS" /\ pub_exit[v].reason = "EXCEPTION"
      <4>1. pub_exit[v].insn = gpc[v] /\ gpc[v] < MaxInsn
        BY <2>3, <3>1 DEF VmmHandle, TypeInv, ExitDescribesGuest
      <4>2. Retire(v, gpc[v])
        BY <2>3, <3>1, <4>1 DEF VmmHandle
      <4>3. QED BY <2>1, <4>1, <4>2
    <3>2. CASE ~(ret[v] = "HV_SUCCESS" /\ pub_exit[v].reason = "EXCEPTION")
      BY <2>2, <2>3, <3>2 DEF VmmHandle, NothingRetired
    <3>3. QED BY <3>1, <3>2
  <2>4. ASSUME NEW v \in Vcpus, ExitFromRo(v) PROVE ExactlyOnce'
    <3>1. CASE vmexit[v].reason = "trap" /\ insn[v] = "library"
      <4>1. gpc[v] < MaxInsn
        BY <2>4, <3>1 DEF ExitFromRo, NothingToReport, HandledByKernel,
       PhysicalInterrupt, LibraryTrap, GuestException, NotClassified, TypeInv, ExitDescribesGuest
      <4>2. Retire(v, gpc[v])
        BY <2>4, <3>1 DEF ExitFromRo, NothingToReport, HandledByKernel,
       PhysicalInterrupt, LibraryTrap, GuestException, NotClassified
      <4>3. QED BY <2>1, <4>1, <4>2
    <3>2. CASE ~(vmexit[v].reason = "trap" /\ insn[v] = "library")
      BY <2>2, <2>4, <3>2 DEF ExitFromRo, NothingToReport, HandledByKernel,
       PhysicalInterrupt, LibraryTrap, GuestException, NotClassified, NothingRetired
    <3>3. QED BY <3>1, <3>2
  <2>5. ASSUME NEW v \in Vcpus,
               \/ VmmInject(v) \/ Enter(v) \/ EnterRefused(v) \/ CheckAfterRun(v)
               \/ CheckTurnaround(v) \/ ReturnExit(v) \/ AnyGuestExit(v)
               \/ GuestTimer(v)
        PROVE  ExactlyOnce'
    BY <2>2, <2>5 DEF VmmInject, Enter, EnterRefused, CheckAfterRun, CheckTurnaround,
       ReturnExit, AnyGuestExit, GuestExit, GuestTimer, guestVars
  <2>6. ASSUME NEW k \in Kickers, Kick(k) \/ \E S \in SUBSET Vcpus : ExitCall(k, S)
        PROVE  ExactlyOnce'
    BY <2>2, <2>6 DEF Kick, LatchExit, RunCancel, ExitCall, guestVars
  <2>7. CASE UNCHANGED vars
    BY <2>2, <2>7 DEF vars, guestVars
  <2>8. QED
    BY <2>3, <2>4, <2>5, <2>6, <2>7 DEF Next, RunLoop
<1>3. QED
  BY <1>1, <1>2, TypeInvInit, TypeInvNext, PTL DEF Safe

\* The library never masks the virtual timer behind the VMM's back: a raised
\* mask means the VMM knows of the activation or the very next thing it sees
\* is HV_EXIT_REASON_VTIMER_ACTIVATED.
THEOREM TimerMaskIsTold == Safe => []MaskedTimerTold
<1>1. Init => MaskedTimerTold
  BY DEF Init, MaskedTimerTold
<1>2. TypeInv /\ MaskedTimerTold /\ [Next]_vars => MaskedTimerTold'
  <2> SUFFICES ASSUME TypeInv, MaskedTimerTold, [Next]_vars PROVE MaskedTimerTold'
    OBVIOUS
  <2> USE DEF TypeInv, TypeOK, MaskedTimerTold
  <2>1. ASSUME NEW v \in Vcpus, VmmHandle(v) PROVE MaskedTimerTold'
    BY <2>1 DEF VmmHandle, slotVars
  <2>2. ASSUME NEW v \in Vcpus, VmmInject(v) PROVE MaskedTimerTold'
    BY <2>2 DEF VmmInject
  <2>3. ASSUME NEW v \in Vcpus, Enter(v) PROVE MaskedTimerTold'
    BY <2>3 DEF Enter, slotVars, vmmVars
  <2>4. ASSUME NEW v \in Vcpus, EnterRefused(v) PROVE MaskedTimerTold'
    BY <2>4 DEF EnterRefused, Return, vmmVars
  <2>5. ASSUME NEW v \in Vcpus, CheckAfterRun(v) PROVE MaskedTimerTold'
    <3>1. CASE HonourCancel(v)
      BY <2>5, <3>1 DEF CheckAfterRun, HonourCancel, Return, vmmVars
    <3>2. CASE GoOn(v, "decode")
      BY <2>5, <3>2 DEF CheckAfterRun, GoOn, vmmVars
    <3>3. QED BY <2>5, <3>1, <3>2 DEF CheckAfterRun
  <2>6. ASSUME NEW v \in Vcpus, ExitFromRo(v) PROVE MaskedTimerTold'
    BY <2>6 DEF ExitFromRo, NothingToReport, HandledByKernel,
       PhysicalInterrupt, LibraryTrap, GuestException, NotClassified, Publish, KeepRunning, vmmVars
  <2>7. ASSUME NEW v \in Vcpus, CheckTurnaround(v) PROVE MaskedTimerTold'
    <3>1. CASE HonourCancel(v)
      BY <2>7, <3>1 DEF CheckTurnaround, HonourCancel, Return, vmmVars
    <3>2. CASE GoOn(v, "enter")
      BY <2>7, <3>2 DEF CheckTurnaround, GoOn, vmmVars
    <3>3. QED BY <2>7, <3>1, <3>2 DEF CheckTurnaround
  <2>8. ASSUME NEW v \in Vcpus, ReturnExit(v) PROVE MaskedTimerTold'
    BY <2>8 DEF ReturnExit, Return, vmmVars
  <2>9. ASSUME NEW v \in Vcpus, NEW r \in VmexitReason, GuestExit(v, r)
        PROVE  MaskedTimerTold'
    BY <2>9 DEF GuestExit, slotVars, vmmVars
  <2>10. ASSUME NEW v \in Vcpus, GuestTimer(v) PROVE MaskedTimerTold'
    BY <2>10 DEF GuestTimer, slotVars, vmmVars
  <2>11. ASSUME NEW k \in Kickers, NEW S \in SUBSET Vcpus, ExitCall(k, S)
         PROVE  MaskedTimerTold'
    BY <2>11 DEF ExitCall, slotVars
  <2>12. ASSUME NEW k \in Kickers, NEW v \in Vcpus, LatchExit(k, v)
         PROVE  MaskedTimerTold'
    BY <2>12 DEF LatchExit, vmmVars
  <2>13. ASSUME NEW k \in Kickers, RunCancel(k) PROVE MaskedTimerTold'
    BY <2>13 DEF RunCancel, slotVars, vmmVars
  <2>14. CASE UNCHANGED vars
    BY <2>14 DEF vars, slotVars, vmmVars
  <2>15. QED
    BY <2>1, <2>2, <2>3, <2>4, <2>5, <2>6, <2>7, <2>8, <2>9, <2>10, <2>11, <2>12,
       <2>13, <2>14 DEF Next, RunLoop, AnyGuestExit, Kick
<1>3. QED
  BY <1>1, <1>2, TypeInvInit, TypeInvNext, PTL DEF Safe
-----------------------------------------------------------------------------
(* What a kick may cost.  A setting of the latch pays for two cancels, and the
   invariant keeps the account of those still to come. *)

One(b) == IF b THEN 1 ELSE 0

\* A cancel delivered inside the run trap that has yet to be returned.
TrapCancel(v) ==
  \/ kcancel[v]
  \/ pc[v] \in {"exited", "decode"} /\ vmexit[v].reason = "none"
  \/ pc[v] = "return" /\ pub_exit[v].reason = "CANCELED"

\* The callers that have latched v and have yet to issue RUN_CANCEL.
Callers(v) == {k \in Kickers : v \in mask[k] /\ v \notin todo[k]}

Due(v) == cancels[v] + One(exit_requested[v]) + One(TrapCancel(v))

BudgetInv ==
  /\ \A v \in Vcpus : kcancel[v] => pc[v] = "guest"
  /\ \A v \in Vcpus : Due(v) + Cardinality(Callers(v)) <= 2 * kicks[v]

LEMMA CallersFinite ==
  ASSUME NEW v \in Vcpus
  PROVE  IsFiniteSet(Callers(v)) /\ Cardinality(Callers(v)) \in Nat
<1>1. Callers(v) \in SUBSET Kickers
  BY DEF Callers
<1>2. IsFiniteSet(Callers(v))
  BY <1>1, KickersFinite, FS_Subset
<1>3. QED
  BY <1>2, FS_CardinalityType

\* A step that no caller of hv_vcpus_exit takes keeps the account when nothing
\* falls due.
LEMMA NothingFallsDue ==
  ASSUME TypeOK, TypeOK', BudgetInv, UNCHANGED <<kickVars, kicks>>,
         \A v \in Vcpus : kcancel'[v] => pc'[v] = "guest",
         \A v \in Vcpus : Due(v)' <= Due(v)
  PROVE  BudgetInv'
<1> SUFFICES ASSUME NEW v \in Vcpus
             PROVE  (Due(v) + Cardinality(Callers(v)) <= 2 * kicks[v])'
  BY DEF BudgetInv
<1>1. Callers(v)' = Callers(v) /\ kicks'[v] = kicks[v]
  BY DEF Callers, kickVars
<1>2. Due(v) \in Nat /\ Due(v)' \in Nat /\ kicks[v] \in Nat
  BY DEF Due, One, TypeOK
<1>3. QED
  BY <1>1, <1>2, CallersFinite DEF BudgetInv

\* The VMM hears of at most two cancels for each time its threads set the
\* latch, however the latch and the RUN_CANCEL trap divide between them.
THEOREM CancelsAccountedFor == Safe => []CancelBudget
<1>1. Init => BudgetInv
  <2> SUFFICES ASSUME Init, NEW v \in Vcpus
               PROVE  /\ kcancel[v] => pc[v] = "guest"
                      /\ Due(v) + Cardinality(Callers(v)) <= 2 * kicks[v]
    BY DEF BudgetInv
  <2>1. Callers(v) = {}
    BY DEF Init, Callers
  <2>2. Due(v) = 0
    BY DEF Init, Due, One, TrapCancel
  <2>3. QED
    BY <2>1, <2>2, FS_EmptySet DEF Init
<1>2. TypeInv /\ TypeInv' /\ BudgetInv /\ [Next]_vars => BudgetInv'
  <2> SUFFICES ASSUME TypeInv, TypeInv', BudgetInv, [Next]_vars PROVE BudgetInv'
    OBVIOUS
  <2>0. TypeOK /\ TypeOK'
    BY DEF TypeInv
  <2>1. ASSUME NEW v \in Vcpus, VmmHandle(v) PROVE BudgetInv'
    BY <2>0, <2>1, NothingFallsDue
       DEF VmmHandle, slotVars, histVars, BudgetInv, TypeOK, Due, One, TrapCancel
  <2>2. ASSUME NEW v \in Vcpus, VmmInject(v) PROVE BudgetInv'
    BY <2>0, <2>2, NothingFallsDue
       DEF VmmInject, histVars, BudgetInv, TypeOK, Due, One, TrapCancel
  <2>3. ASSUME NEW v \in Vcpus, Enter(v) PROVE BudgetInv'
    BY <2>0, <2>3, NothingFallsDue
       DEF Enter, slotVars, BudgetInv, TypeOK, Due, One, TrapCancel
  <2>4. ASSUME NEW v \in Vcpus, EnterRefused(v) PROVE BudgetInv'
    BY <2>0, <2>4, NothingFallsDue
       DEF EnterRefused, Return, BudgetInv, TypeOK, Due, One, TrapCancel
  <2>5. ASSUME NEW v \in Vcpus, CheckAfterRun(v) PROVE BudgetInv'
    <3>1. CASE HonourCancel(v)
      BY <2>0, <2>5, <3>1, NothingFallsDue DEF CheckAfterRun, HonourCancel, Latched,
         Return, BudgetInv, TypeOK, Due, One, TrapCancel
    <3>2. CASE GoOn(v, "decode")
      BY <2>0, <2>5, <3>2, NothingFallsDue
         DEF CheckAfterRun, GoOn, BudgetInv, TypeOK, Due, One, TrapCancel
    <3>3. QED BY <2>5, <3>1, <3>2 DEF CheckAfterRun
  <2>6. ASSUME NEW v \in Vcpus, ExitFromRo(v) PROVE BudgetInv'
    <3>1. /\ pc[v] = "decode"
          /\ UNCHANGED <<kcancel, exit_requested, kickVars, kicks, cancels>>
          /\ \E q \in {"return", "turnaround"} : pc' = [pc EXCEPT ![v] = q]
          /\ pc'[v] = "return" /\ pub_exit'[v].reason = "CANCELED"
               => vmexit[v].reason = "none"
          /\ \A w \in Vcpus \ {v} : pub_exit'[w] = pub_exit[w]
          /\ UNCHANGED vmexit
      BY <2>0, <2>6 DEF ExitFromRo, NothingToReport, HandledByKernel, PhysicalInterrupt,
         LibraryTrap, GuestException, NotClassified, Publish, KeepRunning, histVars,
         TypeOK
    <3>2. QED
      BY <2>0, <3>1, NothingFallsDue DEF BudgetInv, TypeOK, Due, One, TrapCancel
  <2>7. ASSUME NEW v \in Vcpus, CheckTurnaround(v) PROVE BudgetInv'
    <3>1. CASE HonourCancel(v)
      BY <2>0, <2>7, <3>1, NothingFallsDue DEF CheckTurnaround, HonourCancel, Latched,
         Return, BudgetInv, TypeOK, Due, One, TrapCancel
    <3>2. CASE GoOn(v, "enter")
      BY <2>0, <2>7, <3>2, NothingFallsDue
         DEF CheckTurnaround, GoOn, BudgetInv, TypeOK, Due, One, TrapCancel
    <3>3. QED BY <2>7, <3>1, <3>2 DEF CheckTurnaround
  <2>8. ASSUME NEW v \in Vcpus, ReturnExit(v) PROVE BudgetInv'
    BY <2>0, <2>8, NothingFallsDue
       DEF ReturnExit, Return, BudgetInv, TypeOK, Due, One, TrapCancel
  <2>9. ASSUME NEW v \in Vcpus, NEW r \in VmexitReason, GuestExit(v, r)
        PROVE  BudgetInv'
    BY <2>0, <2>9, NothingFallsDue
       DEF GuestExit, slotVars, histVars, BudgetInv, TypeOK, Due, One, TrapCancel
  <2>10. ASSUME NEW v \in Vcpus, GuestTimer(v) PROVE BudgetInv'
    BY <2>0, <2>10, NothingFallsDue
       DEF GuestTimer, slotVars, histVars, BudgetInv, TypeOK, Due, One, TrapCancel
  <2>11. ASSUME NEW k \in Kickers, NEW S \in SUBSET Vcpus, ExitCall(k, S)
         PROVE  BudgetInv'
    <3> SUFFICES ASSUME NEW w \in Vcpus
                 PROVE  /\ kcancel'[w] => pc'[w] = "guest"
                        /\ (Due(w) + Cardinality(Callers(w)) <= 2 * kicks[w])'
      BY DEF BudgetInv
    <3>1. Due(w)' = Due(w) /\ UNCHANGED <<kcancel, pc, kicks>>
      BY <2>11 DEF ExitCall, slotVars, histVars, Due, One, TrapCancel
    <3>2. Callers(w)' \in SUBSET Callers(w)
      BY <2>0, <2>11 DEF ExitCall, Callers, TypeOK
    <3>3. Cardinality(Callers(w)') <= Cardinality(Callers(w))
      BY <3>2, CallersFinite, FS_Subset
    <3>4. Cardinality(Callers(w)') \in Nat /\ Due(w) \in Nat /\ kicks[w] \in Nat
      BY <2>0, <3>2, CallersFinite, FS_Subset, FS_CardinalityType DEF Due, One, TypeOK
    <3>5. QED
      BY <3>1, <3>3, <3>4, CallersFinite DEF BudgetInv
  <2>12. ASSUME NEW k \in Kickers, NEW v \in Vcpus, LatchExit(k, v) PROVE BudgetInv'
    <3> SUFFICES ASSUME NEW w \in Vcpus
                 PROVE  /\ kcancel'[w] => pc'[w] = "guest"
                        /\ (Due(w) + Cardinality(Callers(w)) <= 2 * kicks[w])'
      BY DEF BudgetInv
    <3>1. UNCHANGED <<kcancel, pc, vmexit, pub_exit, cancels, mask>>
      BY <2>12 DEF LatchExit
    <3>2. CASE w # v
      <4>1. Callers(w)' = Callers(w)
        BY <2>0, <2>12, <3>2 DEF LatchExit, Callers, TypeOK
      <4>2. Due(w)' = Due(w) /\ kicks'[w] = kicks[w]
        BY <2>0, <2>12, <3>1, <3>2 DEF LatchExit, Due, One, TrapCancel, TypeOK
      <4>3. QED BY <3>1, <4>1, <4>2 DEF BudgetInv
    <3>3. CASE w = v
      <4>1. Callers(v)' \in SUBSET (Callers(v) \cup {k})
        BY <2>0, <2>12 DEF LatchExit, Callers, TypeOK
      <4>2. /\ IsFiniteSet(Callers(v) \cup {k})
            /\ Cardinality(Callers(v) \cup {k}) <= Cardinality(Callers(v)) + 1
        <5>1. IsFiniteSet(Callers(v)) /\ Cardinality(Callers(v)) \in Nat
          BY CallersFinite
        <5>2. /\ IsFiniteSet(Callers(v) \cup {k})
              /\ Cardinality(Callers(v) \cup {k}) =
                   IF k \in Callers(v) THEN Cardinality(Callers(v))
                                       ELSE Cardinality(Callers(v)) + 1
          BY <5>1, FS_AddElement, Zenon
        <5>3. QED BY <5>1, <5>2
      <4>3. /\ Cardinality(Callers(v)') \in Nat
            /\ Cardinality(Callers(v)') <= Cardinality(Callers(v) \cup {k})
        BY <4>1, <4>2, FS_Subset, FS_CardinalityType
      <4>4. Cardinality(Callers(v) \cup {k}) \in Nat
        BY <4>2, FS_CardinalityType
      <4>5. /\ Due(v)' <= Due(v) + 1 /\ Due(v) \in Nat /\ Due(v)' \in Nat
            /\ kicks'[v] = kicks[v] + 1 /\ kicks[v] \in Nat
        BY <2>0, <2>12, <3>1 DEF LatchExit, Due, One, TrapCancel, TypeOK
      <4>6. QED
        BY <3>1, <3>3, <4>2, <4>3, <4>4, <4>5, CallersFinite DEF BudgetInv
    <3>4. QED BY <3>2, <3>3
  <2>13. ASSUME NEW k \in Kickers, RunCancel(k) PROVE BudgetInv'
    <3> SUFFICES ASSUME NEW w \in Vcpus
                 PROVE  /\ kcancel'[w] => pc'[w] = "guest"
                        /\ (Due(w) + Cardinality(Callers(w)) <= 2 * kicks[w])'
      BY DEF BudgetInv
    <3>1. /\ UNCHANGED <<pc, exit_requested, vmexit, pub_exit, cancels, kicks, todo>>
          /\ kcancel'[w] = (kcancel[w] \/ (w \in mask[k] /\ pc[w] = "guest"))
          /\ todo[k] = {} /\ mask' = [mask EXCEPT ![k] = {}]
      BY <2>13 DEF RunCancel, slotVars, histVars
    <3>2. Callers(w)' = Callers(w) \ {k}
      BY <2>0, <3>1 DEF Callers, TypeOK
    <3>3. /\ Cardinality(Callers(w)') = IF k \in Callers(w)
                                        THEN Cardinality(Callers(w)) - 1
                                        ELSE Cardinality(Callers(w))
      BY <3>2, CallersFinite, FS_RemoveElement
    <3>4. k \in Callers(w) <=> w \in mask[k]
      BY <3>1 DEF Callers
    <3>5. CASE w \in mask[k]
      <4>1. Due(w)' <= Due(w) + 1 /\ Due(w) \in Nat /\ Due(w)' \in Nat
        BY <2>0, <3>1 DEF Due, One, TrapCancel, TypeOK
      <4>2. kicks[w] \in Nat
        BY <2>0 DEF TypeOK
      <4>3. Cardinality(Callers(w)) \in Nat
        BY CallersFinite
      <4>4. Cardinality(Callers(w)') = Cardinality(Callers(w)) - 1
        BY <3>3, <3>4, <3>5
      <4>5. /\ Due(w) + Cardinality(Callers(w)) <= 2 * kicks[w]
            /\ kcancel[w] => pc[w] = "guest"
        BY DEF BudgetInv
      <4>6. (Due(w) + Cardinality(Callers(w)) <= 2 * kicks[w])'
        BY <3>1, <4>1, <4>2, <4>3, <4>4, <4>5
      <4>7. QED BY <3>1, <4>5, <4>6
    <3>6. CASE w \notin mask[k]
      <4>1. Due(w)' = Due(w)
        BY <3>1, <3>6 DEF Due, One, TrapCancel
      <4>2. QED
        BY <3>1, <3>3, <3>4, <3>6, <4>1 DEF BudgetInv
    <3>7. QED BY <3>5, <3>6
  <2>14. CASE UNCHANGED vars
    BY <2>0, <2>14, NothingFallsDue DEF vars, slotVars, kickVars, histVars, BudgetInv,
       TypeOK, Due, One, TrapCancel
  <2>15. QED
    BY <2>1, <2>2, <2>3, <2>4, <2>5, <2>6, <2>7, <2>8, <2>9, <2>10, <2>11, <2>12,
       <2>13, <2>14 DEF Next, RunLoop, AnyGuestExit, Kick
<1>3. TypeInv /\ BudgetInv => CancelBudget
  <2> SUFFICES ASSUME TypeOK, BudgetInv, NEW v \in Vcpus
               PROVE  cancels[v] <= 2 * kicks[v]
    BY DEF CancelBudget, TypeInv
  <2>1. Due(v) >= cancels[v] /\ Due(v) \in Nat /\ cancels[v] \in Nat /\ kicks[v] \in Nat
    BY DEF Due, One, TypeOK
  <2>2. QED
    BY <2>1, CallersFinite DEF BudgetInv
<1>4. QED
  BY <1>1, <1>2, <1>3, TypeInvInit, TypeInvNext, PTL DEF Safe

-----------------------------------------------------------------------------
(* The run loop implements VcpuPromise. *)

Holders == [v \in Vcpus |-> Holder(v)]

\* A step of one vCPU's thread moves that vCPU and no other.
LEMMA OnlyOneMoves ==
  ASSUME TypeOK, NEW v \in Vcpus, NEW from, NEW to,
         Holder(v) = from, Holder(v)' = to,
         \A w \in Vcpus \ {v} : Holder(w)' = Holder(w)
  PROVE  Promise!Moves(v, from, to)
<1>1. Holders' = [Holders EXCEPT ![v] = to]
  BY DEF Holders
<1>2. QED
  BY <1>1 DEF Holders, Promise!Moves

\* Retiring the instruction the guest stands on carries out the next one.
LEMMA RetireCarriesOut ==
  ASSUME TypeOK, ExactlyOnce, NEW v \in Vcpus, gpc[v] < MaxInsn, Retire(v, gpc[v])
  PROVE  Promise!CarryOut(v)
<1>1. gpc[v] \in Insns /\ effects[v] \in [Insns -> Nat]
  BY RunAssumption DEF TypeOK, Insns
<1>2. \A j \in Insns : effects[v][j] = IF j < gpc[v] THEN 1 ELSE 0
  BY DEF ExactlyOnce
<1>3. effects[v][gpc[v]] = 0
  BY <1>1, <1>2, RunAssumption DEF Insns
<1>4. [effects[v] EXCEPT ![gpc[v]] = effects[v][gpc[v]] + 1]
        = [effects[v] EXCEPT ![gpc[v]] = 1]
  BY <1>3
<1>5. effects' = [effects EXCEPT ![v] = [effects[v] EXCEPT ![gpc[v]] = 1]]
  BY <1>4 DEF Retire
<1>6. Promise!NextInsn(v, gpc[v])
  BY <1>2 DEF Promise!NextInsn
<1>7. QED
  BY <1>1, <1>5, <1>6 DEF Promise!CarryOut

\* hv_vcpu_run and hv_vcpus_exit, with the latch, the cancel trap and the
\* classification of exits, keep what VcpuPromise promises their caller.
THEOREM PromiseKept == Safe => ImplementsPromise
<1>1. Init => Promise!Init
  <2> SUFFICES ASSUME Init PROVE Promise!Init
    OBVIOUS
  <2>1. Holders = [v \in Vcpus |-> "vmm"]
    BY DEF Init, Holders, Holder
  <2>2. QED
    BY <2>1 DEF Init, Holders, Promise!Init
<1>2. TypeInv /\ ExactlyOnce /\ [Next]_vars => [Promise!Next]_(Promise!vars)
  <2> SUFFICES ASSUME TypeInv, ExactlyOnce, [Next]_vars
               PROVE  Promise!Next \/ UNCHANGED <<Holders, work, effects>>
    BY DEF Promise!vars, Holders
  <2> USE DEF TypeInv, TypeOK
  <2>1. ASSUME NEW v \in Vcpus, VmmHandle(v)
        PROVE  Promise!Next \/ UNCHANGED <<Holders, work, effects>>
    <3>1. /\ pc[v] = "handle" /\ pc' = [pc EXCEPT ![v] = "inject"]
          /\ UNCHANGED <<ret, pub_exit, work>>
      BY <2>1 DEF VmmHandle, slotVars
    <3>2. CASE ret[v] = "HV_SUCCESS" /\ pub_exit[v].reason = "EXCEPTION"
      <4>1. Promise!Moves(v, "owing", "vmm")
        BY <3>1, <3>2, OnlyOneMoves DEF Holder
      <4>2. pub_exit[v].insn = gpc[v] /\ gpc[v] < MaxInsn
        BY <3>1, <3>2 DEF ExitDescribesGuest
      <4>3. Retire(v, gpc[v])
        BY <2>1, <3>2, <4>2 DEF VmmHandle
      <4>4. Promise!CarryOut(v)
        BY <4>2, <4>3, RetireCarriesOut
      <4>5. QED
        BY <3>1, <4>1, <4>4 DEF Promise!Service, Promise!Next
    <3>3. CASE ~(ret[v] = "HV_SUCCESS" /\ pub_exit[v].reason = "EXCEPTION")
      <4>1. UNCHANGED effects
        BY <2>1, <3>3 DEF VmmHandle, NothingRetired
      <4>2. UNCHANGED Holders
        BY <3>1, <3>3 DEF Holders, Holder
      <4>3. QED BY <3>1, <4>1, <4>2
    <3>4. QED BY <3>2, <3>3
  <2>2. ASSUME NEW v \in Vcpus, VmmInject(v) PROVE Promise!Next
    <3>1. Promise!Moves(v, "vmm", "library")
      BY <2>2, OnlyOneMoves DEF VmmInject, Holder
    <3>2. QED
      BY <2>2, <3>1 DEF VmmInject, guestVars, Promise!Run, Promise!Next
  <2>3. ASSUME NEW v \in Vcpus, Enter(v) PROVE Promise!Next
    <3>1. Promise!Moves(v, "library", "guest")
      BY <2>3, OnlyOneMoves DEF Enter, slotVars, Holder
    <3>2. QED
      BY <2>3, <3>1 DEF Enter, guestVars, vmmVars, Promise!Enter, Promise!Next
  <2>4. ASSUME NEW v \in Vcpus, EnterRefused(v) PROVE Promise!Next
    <3>1. Promise!Moves(v, "library", "vmm")
      BY <2>4, OnlyOneMoves DEF EnterRefused, Return, Holder
    <3>2. QED
      BY <2>4, <3>1 DEF EnterRefused, guestVars, vmmVars, Promise!Return, Promise!Next
  <2>5. ASSUME NEW v \in Vcpus, pc[v] \in {"exited", "turnaround"}, HonourCancel(v),
               UNCHANGED <<work, effects>>
        PROVE  Promise!Next
    <3>1. Promise!Moves(v, "library", "vmm")
      BY <2>5, OnlyOneMoves DEF HonourCancel, Return, Holder
    <3>2. QED
      BY <2>5, <3>1 DEF Promise!Return, Promise!Next
  <2>6. ASSUME NEW v \in Vcpus, NEW step \in {"decode", "enter"}, GoOn(v, step),
               pc[v] \in {"exited", "turnaround"}
        PROVE  UNCHANGED Holders
    BY <2>6 DEF GoOn, Holders, Holder
  <2>7. ASSUME NEW v \in Vcpus, CheckAfterRun(v) \/ CheckTurnaround(v)
        PROVE  Promise!Next \/ UNCHANGED <<Holders, work, effects>>
    BY <2>5, <2>6, <2>7 DEF CheckAfterRun, CheckTurnaround, guestVars, vmmVars
  <2>8. ASSUME NEW v \in Vcpus, ExitFromRo(v)
        PROVE  Promise!Next \/ UNCHANGED <<Holders, work, effects>>
    <3>1. /\ pc[v] = "decode" /\ UNCHANGED <<ret, work>>
          /\ \E q \in {"return", "turnaround"} : pc' = [pc EXCEPT ![v] = q]
          /\ \A w \in Vcpus \ {v} : pub_exit'[w] = pub_exit[w]
      BY <2>8 DEF ExitFromRo, NothingToReport, HandledByKernel, PhysicalInterrupt,
         LibraryTrap, GuestException, NotClassified, Publish, KeepRunning, vmmVars
    <3>2. UNCHANGED Holders
      BY <3>1 DEF Holders, Holder
    <3>3. CASE vmexit[v].reason = "trap" /\ insn[v] = "library"
      <4>1. gpc[v] < MaxInsn
        BY <3>1, <3>3 DEF ExitDescribesGuest
      <4>2. Retire(v, gpc[v])
        BY <2>8, <3>3 DEF ExitFromRo, NothingToReport, HandledByKernel,
           PhysicalInterrupt, LibraryTrap, GuestException, NotClassified
      <4>3. Promise!CarryOut(v)
        BY <4>1, <4>2, RetireCarriesOut
      <4>4. Holders[v] = "library"
        BY <3>1 DEF Holders, Holder
      <4>5. QED
        BY <3>1, <3>2, <4>3, <4>4 DEF Holders, Promise!Answer, Promise!Next
    <3>4. CASE ~(vmexit[v].reason = "trap" /\ insn[v] = "library")
      BY <2>8, <3>1, <3>2, <3>4 DEF ExitFromRo, NothingToReport, HandledByKernel,
         PhysicalInterrupt, LibraryTrap, GuestException, NotClassified, NothingRetired
    <3>5. QED BY <3>3, <3>4
  <2>9. ASSUME NEW v \in Vcpus, ReturnExit(v) PROVE Promise!Next
    <3>1. \E to \in {"vmm", "owing"} : Promise!Moves(v, "library", to)
      BY <2>9, OnlyOneMoves DEF ReturnExit, Return, Holder
    <3>2. QED
      BY <2>9, <3>1 DEF ReturnExit, guestVars, vmmVars, Promise!Return, Promise!Next
  <2>10. ASSUME NEW v \in Vcpus, NEW r \in VmexitReason, GuestExit(v, r)
         PROVE  Promise!Next
    <3>1. Promise!Moves(v, "guest", "library")
      BY <2>10, OnlyOneMoves DEF GuestExit, slotVars, Holder
    <3>2. QED
      BY <2>10, <3>1 DEF GuestExit, guestVars, vmmVars, Promise!Leave, Promise!Next
  <2>11. ASSUME NEW k \in Kickers, NEW S \in SUBSET Vcpus, ExitCall(k, S)
         PROVE  Promise!Next
    BY <2>11 DEF ExitCall, slotVars, guestVars, Holder, Promise!Post, Promise!Next
  <2>12. ASSUME UNCHANGED <<pc, ret, pub_exit, work, effects>>
         PROVE  UNCHANGED <<Holders, work, effects>>
    BY <2>12 DEF Holders, Holder
  <2>13. ASSUME NEW v \in Vcpus, GuestTimer(v)
         PROVE  UNCHANGED <<Holders, work, effects>>
    BY <2>12, <2>13 DEF GuestTimer, slotVars, vmmVars
  <2>14. ASSUME NEW k \in Kickers, Kick(k)
         PROVE  UNCHANGED <<Holders, work, effects>>
    BY <2>12, <2>14 DEF Kick, LatchExit, RunCancel, slotVars, guestVars, vmmVars
  <2>15. CASE UNCHANGED vars
    BY <2>12, <2>15 DEF vars, slotVars, guestVars, vmmVars
  <2>16. QED
    BY <2>1, <2>2, <2>3, <2>4, <2>7, <2>8, <2>9, <2>10, <2>11, <2>13, <2>14, <2>15
       DEF Next, RunLoop, AnyGuestExit
<1>3. Safe => []ExactlyOnce
  BY EffectsExactlyOnce
<1>4. QED
  BY <1>1, <1>2, <1>3, TypeInvInit, TypeInvNext, PTL
     DEF Safe, ImplementsPromise, Promise!Spec
=============================================================================
