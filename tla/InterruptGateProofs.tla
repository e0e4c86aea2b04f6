------------------------ MODULE InterruptGateProofs ------------------------
(***************************************************************************)
(* Proofs about MonitorBand, and about InterruptGate, which composes the   *)
(* gate of one vCPU with it: for any vCPUs, bands and timers.              *)
(***************************************************************************)
EXTENDS InterruptGate, TLAPS

-----------------------------------------------------------------------------
(* MonitorBand. *)

\* Every word holds a band or 0.
LEMMA BandTypeNext ==
  ASSUME BandTypeOK, [BandNext]_bandVars
  PROVE  BandTypeOK'
<1> USE DEF BandTypeOK
<1>1. ASSUME NEW v \in Vcpus, NotePhysical(v) PROVE BandTypeOK'
  BY <1>1 DEF NotePhysical, Base
<1>2. ASSUME NEW v \in Vcpus, NEW b \in Bands, Note(v, b) PROVE BandTypeOK'
  <2>1. CASE Lower(Base(v), b)
    BY <1>2, <2>1 DEF Note
  <2>2. CASE ~Lower(Base(v), b)
    BY <1>2, <2>2 DEF Note, Base
  <2>3. QED
    BY <2>1, <2>2
<1>3. ASSUME NEW v \in Vcpus, Load(v) PROVE BandTypeOK'
  BY <1>3 DEF Load
<1>4. ASSUME NEW v \in Vcpus, Exchange(v) PROVE BandTypeOK'
  BY <1>4 DEF Exchange
<1>5. ASSUME NEW v \in Vcpus, ExchangeFails(v) PROVE BandTypeOK'
  BY <1>5 DEF ExchangeFails
<1>6. CASE UNCHANGED bandVars
  BY <1>6 DEF bandVars
<1>7. QED
  BY <1>1, <1>2, <1>3, <1>4, <1>5, <1>6 DEF BandNext, NoteStep

\* Bands are compared as numbers.
LEMMA Numbers ==
  ASSUME BandTypeOK
  PROVE  /\ g_monitor_band \in Nat
         /\ \A v \in Vcpus : /\ sptm_base[v] \in Nat
                             /\ band[v] \in Nat
                             /\ seen[v] \in Nat
         /\ \A b \in Bands : b \in Nat /\ b # 0
<1>1. \A b \in Bands : b \in Nat /\ b # 0
  BY BandAssumption
<1>2. \A b \in Bands \union {0} : b \in Nat
  BY <1>1
<1>3. \A v \in Vcpus : /\ sptm_base[v] \in Bands \union {0}
                      /\ band[v] \in Bands \union {0}
                      /\ seen[v] \in Bands \union {0}
  BY DEF BandTypeOK
<1>4. QED
  BY <1>1, <1>2, <1>3 DEF BandTypeOK

\* Band b is accounted for: the machine knows it or a lower one, or a vCPU is
\* on its way to publish such a band.
Accounted(b) ==
  \/ g_monitor_band # 0 /\ g_monitor_band <= b
  \/ \E v \in Vcpus : step[v] # "done" /\ band[v] <= b

\* What makes LowestKnown inductive: it must also say what is in flight.
BandInv ==
  /\ g_monitor_band \in ran \union {0}
  /\ \A v \in Vcpus : step[v] # "done" => band[v] \in ran /\ sptm_base[v] = band[v]
  /\ \A v \in Vcpus : step[v] = "exchange" => Lower(seen[v], band[v])
  /\ \A v \in Vcpus :
       step[v] = "done" /\ sptm_base[v] # 0
         => g_monitor_band # 0 /\ g_monitor_band <= sptm_base[v]
  /\ \A b \in ran : Accounted(b)

\* A successful exchange lowers the word: it was compared with the value that
\* the vCPU had found to be too high.
LEMMA ExchangeLowers ==
  ASSUME BandTypeOK, BandInv, NEW v \in Vcpus, Exchange(v)
  PROVE  /\ g_monitor_band' = band[v] /\ band[v] \in Bands
         /\ g_monitor_band # 0 => band[v] < g_monitor_band
  BY DEF BandTypeOK, BandInv, Exchange, Lower

\* Every step of the loop keeps the bands accounted for.
LEMMA BandInvNext == BandTypeOK /\ BandInv /\ [BandNext]_bandVars => BandInv'
<1> SUFFICES ASSUME BandTypeOK, BandInv, [BandNext]_bandVars PROVE BandInv'
  OBVIOUS
<1> USE BandAssumption
<1>1. ASSUME NEW v \in Vcpus, NotePhysical(v) PROVE BandInv'
  <2>1. sptm_base' = [sptm_base EXCEPT ![v] = Base(v)] /\ step[v] = "done"
    BY <1>1 DEF NotePhysical
  <2>2. UNCHANGED <<g_monitor_band, step, band, seen, ran>>
    BY <1>1 DEF NotePhysical
  <2>3. g_monitor_band <= g_monitor_band
    BY DEF BandTypeOK
  <2>4. \A b \in ran' : Accounted(b)'
    BY <2>2 DEF BandInv, Accounted
  <2>5. QED
    BY <2>1, <2>2, <2>3, <2>4 DEF BandInv, BandTypeOK, Base, Lower
<1>2. ASSUME NEW v \in Vcpus, NEW b \in Bands, Note(v, b) PROVE BandInv'
  <2>1. /\ step[v] = "done" /\ ran' = ran \union {b}
        /\ UNCHANGED <<g_monitor_band, seen>>
    BY <1>2 DEF Note
  <2>2. CASE Lower(Base(v), b)
    <3>1. /\ sptm_base' = [sptm_base EXCEPT ![v] = b]
          /\ band' = [band EXCEPT ![v] = b]
          /\ step' = [step EXCEPT ![v] = "load"]
      BY <1>2, <2>2 DEF Note
    <3>2. \A c \in ran' : Accounted(c)'
      <4>1. Accounted(b)'
        <5>1. step'[v] = "load" /\ band'[v] = b /\ b \in Nat
          BY <3>1 DEF BandTypeOK
        <5>2. QED
          BY <5>1 DEF Accounted
      <4>2. ASSUME NEW c \in ran PROVE Accounted(c)'
        <5>1. ASSUME NEW u \in Vcpus, step[u] # "done", band[u] <= c
              PROVE  step'[u] # "done" /\ band'[u] <= c
          BY <5>1, <2>1, <3>1 DEF BandTypeOK
        <5>2. QED
          BY <5>1, <2>1 DEF BandInv, Accounted
      <4>3. QED
        BY <4>1, <4>2, <2>1
    <3>3. QED
      BY <2>1, <3>1, <3>2 DEF BandInv, BandTypeOK, Lower
  <2>3. CASE ~Lower(Base(v), b)
    <3>1. /\ sptm_base' = [sptm_base EXCEPT ![v] = Base(v)]
          /\ UNCHANGED <<band, step>>
      BY <1>2, <2>3 DEF Note
    <3>2. g_monitor_band # 0 /\ g_monitor_band <= b /\ g_monitor_band <= Base(v)
      <4>1. g_monitor_band \in Nat /\ sptm_base[v] \in Nat /\ b \in Nat
        BY Numbers
      <4>2. Base(v) # 0 /\ Base(v) <= b
        BY <4>1, <2>3 DEF Base, Lower
      <4>3. sptm_base[v] # 0 => g_monitor_band # 0 /\ g_monitor_band <= sptm_base[v]
        BY <2>1 DEF BandInv
      <4>4. QED
        BY <4>1, <4>2, <4>3 DEF Base
    <3>3. \A c \in ran' : Accounted(c)'
      BY <2>1, <3>1, <3>2 DEF BandInv, Accounted
    <3>4. QED
      BY <2>1, <3>1, <3>2, <3>3 DEF BandInv, BandTypeOK, Lower
  <2>4. QED
    BY <2>2, <2>3
<1>3. ASSUME NEW v \in Vcpus, Load(v) PROVE BandInv'
  <2>1. UNCHANGED <<g_monitor_band, sptm_base, band, ran>>
    BY <1>3 DEF Load
  <2>2. CASE Lower(g_monitor_band, band[v])
    <3>1. /\ step' = [step EXCEPT ![v] = "exchange"] /\ step[v] = "load"
          /\ seen' = [seen EXCEPT ![v] = g_monitor_band]
      BY <1>3, <2>2 DEF Load
    <3>2. \A c \in ran' : Accounted(c)'
      BY <2>1, <3>1 DEF BandInv, Accounted, BandTypeOK
    <3>3. QED
      BY <2>1, <2>2, <3>1, <3>2 DEF BandInv, BandTypeOK, Lower
  <2>3. CASE ~Lower(g_monitor_band, band[v])
    <3>1. /\ step' = [step EXCEPT ![v] = "done"] /\ step[v] = "load"
          /\ seen' = [seen EXCEPT ![v] = g_monitor_band]
      BY <1>3, <2>3 DEF Load
    <3>2. g_monitor_band # 0 /\ g_monitor_band <= band[v]
      BY <2>3, Numbers DEF Lower
    <3>3. ASSUME NEW c \in ran' PROVE Accounted(c)'
      <4>1. c \in Nat /\ c \in ran /\ Accounted(c)
        BY <2>1 DEF BandInv, BandTypeOK
      <4>2. CASE g_monitor_band <= c
        BY <4>2, <3>2, <2>1 DEF Accounted
      <4>3. CASE \E u \in Vcpus : step[u] # "done" /\ band[u] <= c
        <5>1. PICK u \in Vcpus : step[u] # "done" /\ band[u] <= c
          BY <4>3
        <5>2. CASE u = v
          BY <5>1, <5>2, <3>2, <2>1, <4>1, Numbers DEF Accounted
        <5>3. CASE u # v
          BY <5>1, <5>3, <3>1, <2>1 DEF Accounted, BandTypeOK
        <5>4. QED
          BY <5>2, <5>3
      <4>4. QED
        BY <4>1, <4>2, <4>3 DEF Accounted
    <3>4. g_monitor_band <= sptm_base[v]
      BY <3>1, <3>2 DEF BandInv
    <3>5. QED
      BY <2>1, <3>1, <3>2, <3>3, <3>4 DEF BandInv, BandTypeOK, Lower
  <2>4. QED
    BY <2>2, <2>3
<1>4. ASSUME NEW v \in Vcpus, Exchange(v) PROVE BandInv'
  <2>1. /\ step' = [step EXCEPT ![v] = "done"] /\ step[v] = "exchange"
        /\ UNCHANGED <<sptm_base, band, seen, ran>>
    BY <1>4 DEF Exchange
  <2>2. /\ g_monitor_band' = band[v] /\ band[v] \in Bands /\ band[v] \in ran
        /\ g_monitor_band # 0 => band[v] < g_monitor_band
    BY <1>4, <2>1, ExchangeLowers DEF BandInv
  <2>3. ASSUME NEW c \in ran' PROVE Accounted(c)'
    <3>1. c \in Nat /\ c \in ran /\ Accounted(c)
      BY <2>1 DEF BandInv, BandTypeOK
    <3>2. CASE g_monitor_band # 0 /\ g_monitor_band <= c
      BY <3>1, <3>2, <2>2, Numbers DEF Accounted
    <3>3. CASE \E u \in Vcpus : step[u] # "done" /\ band[u] <= c
      <4>1. PICK u \in Vcpus : step[u] # "done" /\ band[u] <= c
        BY <3>3
      <4>2. CASE u = v
        BY <4>1, <4>2, <2>2 DEF Accounted
      <4>3. CASE u # v
        BY <4>1, <4>3, <2>1 DEF Accounted, BandTypeOK
      <4>4. QED
        BY <4>2, <4>3
    <3>4. QED
      BY <3>1, <3>2, <3>3 DEF Accounted
  <2>4. ASSUME NEW u \in Vcpus, step'[u] = "done", sptm_base'[u] # 0
        PROVE  g_monitor_band' # 0 /\ g_monitor_band' <= sptm_base'[u]
    <3>1. CASE u = v
      BY <3>1, <2>1, <2>2 DEF BandInv, BandTypeOK
    <3>2. CASE u # v
      <4>1. step[u] = "done" /\ sptm_base[u] # 0
        BY <2>1, <2>4, <3>2 DEF BandTypeOK
      <4>2. g_monitor_band # 0 /\ g_monitor_band <= sptm_base[u]
        BY <4>1 DEF BandInv
      <4>3. QED
        BY <4>2, <2>1, <2>2, Numbers
    <3>3. QED
      BY <3>1, <3>2
  <2>5. QED
    BY <2>1, <2>2, <2>3, <2>4 DEF BandInv, BandTypeOK, Lower
<1>5. ASSUME NEW v \in Vcpus, ExchangeFails(v) PROVE BandInv'
  <2>1. /\ step' = [step EXCEPT ![v] = "load"] /\ step[v] = "exchange"
        /\ UNCHANGED <<g_monitor_band, sptm_base, band, seen, ran>>
    BY <1>5 DEF ExchangeFails
  <2>2. \A c \in ran' : Accounted(c)'
    BY <2>1 DEF BandInv, Accounted, BandTypeOK
  <2>3. QED
    BY <2>1, <2>2 DEF BandInv, BandTypeOK, Lower
<1>6. CASE UNCHANGED bandVars
  BY <1>6 DEF bandVars, BandInv, Accounted, Lower
<1>7. QED
  BY <1>1, <1>2, <1>3, <1>4, <1>5, <1>6 DEF BandNext, NoteStep

\* At the start no band is known and none is in flight.
LEMMA BandStart == BandInit => BandTypeOK /\ BandInv
  BY DEF BandInit, BandTypeOK, BandInv, Lower

\* The words of ohv_note_image_band hold bands, on every vCPU.
THEOREM BandTypeCorrect == BandSpec => []BandTypeOK
  BY BandStart, BandTypeNext, PTL DEF BandSpec

\* The compare-and-exchange loop keeps the minimum, however the vCPUs
\* interleave: when none is publishing, the machine knows the lowest band.
THEOREM LowestBandIsKnown == BandSpec => []LowestKnown
<1>1. BandTypeOK /\ BandInv => LowestKnown
  BY DEF BandInv, Accounted, LowestKnown
<1>2. QED
  BY <1>1, BandStart, BandTypeNext, BandInvNext, PTL DEF BandSpec

\* A step that changes the machine's band is an exchange, which lowers it.
LEMMA BandFalls ==
  ASSUME BandTypeOK, BandInv, [BandNext]_bandVars, g_monitor_band # 0
  PROVE  g_monitor_band' # 0 /\ g_monitor_band' <= g_monitor_band
<1>1. ASSUME NEW v \in Vcpus, Exchange(v)
      PROVE  g_monitor_band' # 0 /\ g_monitor_band' <= g_monitor_band
  BY <1>1, ExchangeLowers, Numbers
<1>2. ASSUME NEW v \in Vcpus, NoteStep(v), ~Exchange(v)
      PROVE  UNCHANGED g_monitor_band
  BY <1>2 DEF NoteStep, NotePhysical, Note, Load, ExchangeFails
<1>3. CASE UNCHANGED bandVars
  BY <1>3, Numbers DEF bandVars
<1>4. QED
  BY <1>1, <1>2, <1>3, Numbers DEF BandNext

\* No vCPU ever raises the machine's band again.
THEOREM BandOnlyFalls == BandSpec => BandNeverRises
<1>1. BandTypeOK /\ BandInv /\ [BandNext]_bandVars
        => [g_monitor_band # 0
              => g_monitor_band' # 0 /\ g_monitor_band' <= g_monitor_band]_bandVars
  BY BandFalls
<1>2. QED
  BY <1>1, BandStart, BandTypeNext, BandInvNext, PTL DEF BandSpec, BandNeverRises

-----------------------------------------------------------------------------
(* The gate runs ohv_note_image_band. *)

\* The guest's PC is in a band, or physical.
LEMMA PcBands ==
  PcBand \in Bands \union {0} /\ PcBand \in Nat
<1>1. {Sptm, Sptm + 1, Sptm + 2} \subseteq Bands
  BY GateAssumption
<1>2. PcBand \in {0, Sptm, Sptm + 1, Sptm + 2}
  BY Zenon DEF PcBand
<1>3. QED
  BY <1>1, <1>2, BandAssumption

\* Each step of guest, library and VMM is one of ohv_note_image_band on some vCPU,
\* or leaves the bands alone.
LEMMA BandStep == [Next]_vars => [BandNext]_bandVars
<1> SUFFICES ASSUME [Next]_vars PROVE [BandNext]_bandVars
  OBVIOUS
<1> USE GateAssumption DEF BandNext, NoteStep
<1>1. CASE NoteBand
  BY <1>1, PcBands DEF NoteBand
<1>2. CASE PublishBand
  BY <1>2 DEF PublishBand
<1>3. CASE Enter
  BY <1>3 DEF Enter
<1>4. CASE Vmm
  BY <1>4 DEF Vmm, SetPendingFiq, SetPendingIrq, SetParked
<1>5. CASE RunAgain \/ Release
  BY <1>5 DEF RunAgain, Release
<1>6. CASE Guest
  <2>1. CASE \E l \in {"F", "I"} : Take(l)
    BY <2>1 DEF Take
  <2>2. CASE LibraryExit \/ \E w \in {"wfx", "exception", "canceled"} : VmmExit(w)
    BY <2>2 DEF LibraryExit, VmmExit, Exits
  <2>3. CASE \E t \in Timers : TimerCtlWrite(t) \/ TimerDeadlineWrite(t)
    BY <2>3 DEF TimerCtlWrite, TimerDeadlineWrite, Exits
  <2>4. CASE FirstMonitorExit \/ SetMask \/ Genter \/ MonitorMoves \/ Gexit
             \/ MonitorUnmasks
    BY <2>4 DEF FirstMonitorExit, SetMask, Genter, MonitorMoves, Gexit, MonitorUnmasks
  <2>5. QED
    BY <1>6, <2>1, <2>2, <2>3, <2>4 DEF Guest
<1>7. CASE \E t \in Timers : Elapse(t)
  BY <1>7 DEF Elapse
<1>8. CASE \E v \in Vcpus \ {Self} : OtherCore(v)
  BY <1>8 DEF OtherCore
<1>9. CASE UNCHANGED vars
  BY <1>9 DEF vars
<1>10. QED
  BY <1>1, <1>2, <1>3, <1>4, <1>5, <1>6, <1>7, <1>8, <1>9 DEF Next, Thread

\* The bands of the composed system are those of MonitorBand: what is proved of
\* ohv_note_image_band alone holds with guest, gate and VMM around it.
THEOREM GateImplementsBand == Safe => BandSpec
<1>1. Init => BandInit
  BY DEF Init
<1>2. QED
  BY <1>1, BandStep, PTL DEF Safe, BandSpec

-----------------------------------------------------------------------------
(* Types. *)

\* The types hold at the start.
LEMMA TypeInvInit == Init => TypeOK
<1>1. Init => BandTypeOK
  BY BandStart DEF Init
<1>2. QED
  BY <1>1 DEF Init, TypeOK

\* What ohv_expire_timers leaves in a control word is a control word.
LEMMA CtlTypes ==
  ASSUME TypeOK, NEW t \in Timers
  PROVE  CtlAtEntry(t) \in SUBSET Bits
<1>1. ctl[t] \in SUBSET Bits
  BY DEF TypeOK
<1>2. ctl[t] \union {"ISTATUS"} \in SUBSET Bits
  BY <1>1 DEF Bits
<1>3. ctl[t] \ {"ISTATUS"} \in SUBSET Bits
  BY <1>1
<1>4. QED
  BY <1>1, <1>2, <1>3, Zenon DEF CtlAtEntry

\* Every step of the library, the VMM and the guest keeps the types.
LEMMA TypeInvNext == TypeOK /\ [Next]_vars => TypeOK'
<1> SUFFICES ASSUME TypeOK, [Next]_vars PROVE TypeOK'
  OBVIOUS
<1> USE DEF TypeOK
<1>1. BandTypeOK'
  BY BandStep, BandTypeNext
<1>2. CASE NoteBand
  BY <1>1, <1>2 DEF NoteBand, guestVars, lineVars, timerVars, levelVars
<1>3. CASE PublishBand
  BY <1>1, <1>3 DEF PublishBand, guestVars, lineVars, timerVars, levelVars
<1>4. CASE Enter
  <2>1. ctl' \in [Timers -> SUBSET Bits]
    BY <1>4, CtlTypes DEF Enter
  <2>2. timer_fired' \in [Timers -> BOOLEAN]
    BY <1>4 DEF Enter
  <2>3. vf' \in BOOLEAN /\ vi' \in BOOLEAN
    BY <1>4 DEF Enter, SetLevels, FiqLevel, IrqLevel
  <2>4. QED
    BY <1>1, <1>4, <2>1, <2>2, <2>3 DEF Enter, guestVars, lineVars
<1>5. CASE Vmm
  <2>1. CASE SetPendingFiq
    BY <1>1, <2>1 DEF SetPendingFiq, FiqLevel, guestVars, timerVars
  <2>2. CASE SetPendingIrq
    BY <1>1, <2>2 DEF SetPendingIrq, IrqLevel, guestVars, timerVars
  <2>3. CASE SetParked
    BY <1>1, <2>3 DEF SetParked, SetLevels, FiqLevel, IrqLevel, guestVars, timerVars
  <2>4. QED
    BY <1>5, <2>1, <2>2, <2>3 DEF Vmm
<1>6. CASE RunAgain
  BY <1>1, <1>6 DEF RunAgain, guestVars, lineVars, timerVars, levelVars
<1>7. CASE Release
  BY <1>1, <1>7 DEF Release, lineVars, timerVars, levelVars
<1>8. CASE Guest
  <2> USE <1>1 DEF lineVars, timerVars, levelVars
  <2>1. ASSUME NEW l \in {"F", "I"}, Take(l) PROVE TypeOK'
    BY <2>1 DEF Take
  <2>2. CASE LibraryExit
    BY <2>2 DEF LibraryExit, Exits
  <2>3. ASSUME NEW w \in {"wfx", "exception", "canceled"}, VmmExit(w) PROVE TypeOK'
    BY <2>3 DEF VmmExit, Exits
  <2>4. ASSUME NEW t \in Timers, TimerCtlWrite(t) PROVE TypeOK'
    BY <2>4 DEF TimerCtlWrite, Exits
  <2>5. ASSUME NEW t \in Timers, TimerDeadlineWrite(t) PROVE TypeOK'
    BY <2>5 DEF TimerDeadlineWrite, Exits
  <2>6. CASE FirstMonitorExit
    BY <2>6 DEF FirstMonitorExit
  <2>7. CASE SetMask
    BY <2>7 DEF SetMask
  <2>8. CASE Genter
    BY <2>8 DEF Genter
  <2>9. CASE MonitorMoves
    BY <2>9 DEF MonitorMoves
  <2>10. CASE Gexit
    BY <2>10 DEF Gexit
  <2>11. CASE MonitorUnmasks
    BY <2>11 DEF MonitorUnmasks
  <2>12. QED
    BY <1>8, <2>1, <2>2, <2>3, <2>4, <2>5, <2>6, <2>7, <2>8, <2>9, <2>10, <2>11
    DEF Guest
<1>9. ASSUME NEW t \in Timers, Elapse(t) PROVE TypeOK'
  BY <1>1, <1>9 DEF Elapse, guestVars, lineVars, levelVars
<1>10. ASSUME NEW v \in Vcpus, OtherCore(v) PROVE TypeOK'
  BY <1>1, <1>10 DEF OtherCore, guestVars, lineVars, timerVars, levelVars
<1>11. CASE UNCHANGED vars
  BY <1>1, <1>11 DEF vars, guestVars, lineVars, timerVars, levelVars
<1>12. QED
  BY <1>2, <1>3, <1>4, <1>5, <1>6, <1>7, <1>8, <1>9, <1>10, <1>11 DEF Next, Thread

\* Slot, guest, bands and levels keep their types.
THEOREM GateTypeCorrect == Safe => []TypeOK
  BY TypeInvInit, TypeInvNext, PTL DEF Safe

-----------------------------------------------------------------------------
(* The gate, for a vCPU that is not parked. *)

\* What the gate rests on. The band the vCPU holds need not be the lowest one, but
\* at an entry it is no higher than the one the guest is in: a vCPU that enters in
\* the monitor never takes that for the kernel. A secondary that has run at
\* physical addresses only is masked, and there is a band for it to take over. So
\* a line that is up while the guest runs is taken at once in the kernel, or is
\* being handled there, and is never up in the monitor.
GateInv ==
  /\ where = "entry" => g_monitor_band # 0
  /\ where \in {"off", "entry"} => mask = {"F", "I"}
  /\ pc = "note" /\ where \in Monitor \union {"kernel"} => sptm_base[Self] # 0
  /\ pc = "note" /\ where \in {"sptm", "txm", "kernel"} => sptm_base[Self] <= PcBand
  /\ pc = "guest" /\ where \in Monitor /\ ~in_wfx => ~vf /\ ~vi
  /\ pc = "guest" /\ where = "kernel" /\ ~in_wfx /\ (vf \/ vi)
       => CanTake \/ handling # "none"

\* The gate holds at the start: the vCPU is with the VMM.
LEMMA GateInvInit == Init => GateInv
  BY DEF Init, GateInv, Monitor

\* What ohv_note_image_band leaves in the slot: a band no higher than the guest's,
\* and at a physical address the machine's where the vCPU had none.
LEMMA NoteLeaves ==
  ASSUME TypeOK, NoteBand
  PROVE  /\ where \in {"sptm", "txm", "kernel"}
              => sptm_base'[Self] # 0 /\ sptm_base'[Self] <= PcBand
         /\ where = "entry" /\ g_monitor_band # 0 => sptm_base'[Self] # 0
<1> USE GateAssumption DEF TypeOK
<1>1. /\ sptm_base[Self] \in Nat /\ g_monitor_band \in Nat
      /\ sptm_base \in [Vcpus -> Bands \union {0}]
  BY Numbers DEF BandTypeOK
<1>2. ASSUME where \in {"sptm", "txm", "kernel"}
      PROVE  sptm_base'[Self] # 0 /\ sptm_base'[Self] <= PcBand
  <2>1. PcBand \in {Sptm, Sptm + 1, Sptm + 2}
    BY <1>2, Zenon DEF PcBand
  <2>2. PcBand \in Nat /\ PcBand # 0
    BY <2>1, BandAssumption
  <2>3. Note(Self, PcBand)
    BY <2>2 DEF NoteBand
  <2>4. CASE Lower(Base(Self), PcBand)
    BY <1>1, <2>2, <2>3, <2>4 DEF Note
  <2>5. CASE ~Lower(Base(Self), PcBand)
    <3>1. sptm_base'[Self] = Base(Self)
      BY <1>1, <2>3, <2>5 DEF Note
    <3>2. QED
      BY <1>1, <2>2, <2>5, <3>1 DEF Lower, Base
  <2>6. QED
    BY <2>4, <2>5
<1>3. ASSUME where = "entry", g_monitor_band # 0
      PROVE  sptm_base'[Self] # 0
  <2>1. PcBand = 0
    BY <1>3 DEF PcBand
  <2>2. sptm_base' = [sptm_base EXCEPT ![Self] = Base(Self)]
    BY <2>1 DEF NoteBand, NotePhysical
  <2>3. QED
    BY <1>1, <1>3, <2>2 DEF Base
<1>4. QED
  BY <1>2, <1>3

\* At an entry in the monitor the gate knows it for the monitor, or the guest is
\* masked: no line is allowed up. In the kernel only one the guest takes is.
LEMMA EntryAllows ==
  ASSUME TypeOK, GateInv, pc = "note", ~in_wfx, NEW l \in {"F", "I"}
  PROVE  /\ where \in Monitor => ~Allowed(l)
         /\ where = "kernel" /\ Allowed(l) => l \notin mask
<1>1. where \in Monitor \union {"kernel"} => sptm_base[Self] # 0
  BY DEF GateInv
<1>2. ASSUME where \in {"sptm", "txm"} PROVE GuestInMonitor
  <2>1. sptm_base[Self] # 0 /\ sptm_base[Self] <= PcBand
    BY <1>2 DEF GateInv, Monitor
  <2>2. sptm_base[Self] \in Bands /\ sptm_base[Self] \in Nat
    BY <2>1, GateAssumption, Numbers DEF TypeOK, BandTypeOK
  <2>3. Sptm <= sptm_base[Self] /\ Sptm \in Nat
    BY <2>2, GateAssumption, BandAssumption
  <2>4. PcBand \in {Sptm, Sptm + 1}
    BY <1>2, Zenon DEF PcBand
  <2>5. QED
    BY <2>1, <2>2, <2>3, <2>4 DEF GuestInMonitor
<1>3. where = "entry" => l \in mask
  BY DEF GateInv
<1>4. QED
  BY <1>1, <1>2, <1>3 DEF Allowed, Takeable, Monitor

\* At an entry a line comes up only where the guest takes it.
LEMMA EntryLevels ==
  ASSUME TypeOK, GateInv, Enter, ~in_wfx
  PROVE  /\ where' \in Monitor => ~vf' /\ ~vi'
         /\ where' = "kernel" /\ (vf' \/ vi') => CanTake'
<1>1. where' = where /\ mask' = mask /\ in_wfx' = in_wfx /\ sptm_base' = sptm_base
  BY DEF Enter, guestVars, lineVars, bandVars
<1>2. PcBand' = PcBand
  BY <1>1 DEF PcBand
<1>3. ASSUME NEW l \in {"F", "I"} PROVE Allowed(l)' <=> Allowed(l)
  BY <1>1, <1>2 DEF Allowed, Takeable, GuestInMonitor
<1>4. (vf' => Allowed("F")') /\ (vi' => Allowed("I")')
  BY DEF Enter, SetLevels, FiqLevel, IrqLevel, TimerFiqWanted
<1>5. \A l \in {"F", "I"} :
        /\ where \in Monitor => ~Allowed(l)
        /\ where = "kernel" /\ Allowed(l) => l \notin mask
  BY EntryAllows DEF Enter
<1>6. QED
  BY <1>1, <1>3, <1>4, <1>5 DEF CanTake

\* Every step of thread, VMM, guest and other vCPUs keeps the gate.
LEMMA GateInvNext == TypeOK /\ BandInv /\ GateInv /\ [Next]_vars => GateInv'
<1> SUFFICES ASSUME TypeOK, BandInv, GateInv, [Next]_vars PROVE GateInv'
  OBVIOUS
<1>1. g_monitor_band # 0 => g_monitor_band' # 0
  BY BandFalls, BandStep DEF TypeOK
<1>2. CASE NoteBand
  <2>1. UNCHANGED guestVars /\ pc' = "note"
    BY <1>2 DEF NoteBand
  <2>2. PcBand' = PcBand
    BY <2>1 DEF PcBand, guestVars
  <2>3. QED
    BY <1>1, <1>2, <2>1, <2>2, NoteLeaves DEF GateInv, guestVars, Monitor
<1>3. CASE PublishBand
  <2>1. UNCHANGED <<pc, guestVars, lineVars, levelVars, sptm_base>>
    BY <1>3 DEF PublishBand, Load, Exchange, ExchangeFails
  <2>2. PcBand' = PcBand
    BY <2>1 DEF PcBand, guestVars
  <2>3. QED
    BY <1>1, <2>1, <2>2 DEF GateInv, guestVars, lineVars, levelVars, CanTake
<1>4. CASE Enter
  <2>1. UNCHANGED <<guestVars, lineVars>> /\ pc' = "guest"
    BY <1>4 DEF Enter
  <2>2. QED
    BY <1>1, <1>4, <2>1, EntryLevels DEF GateInv, guestVars, lineVars
<1>5. CASE Vmm \/ RunAgain
  <2>1. UNCHANGED guestVars /\ pc' \in {"vmm", "loop"}
    BY <1>5 DEF Vmm, SetPendingFiq, SetPendingIrq, SetParked, RunAgain
  <2>2. QED
    BY <1>1, <2>1 DEF GateInv, guestVars
<1>6. CASE Release
  <2>1. PICK v \in Vcpus : step[v] = "done" /\ sptm_base[v] # 0
    BY <1>6 DEF Release
  <2>2. g_monitor_band # 0
    BY <2>1 DEF BandInv
  <2>3. QED
    BY <1>1, <1>6, <2>2 DEF Release, GateInv
<1>7. CASE Guest
  <2> USE <1>1 DEF GateInv, Monitor, lineVars, levelVars, CanTake
  <2>1. ASSUME NEW l \in {"F", "I"}, Take(l) PROVE GateInv'
    BY <2>1 DEF Take
  <2>2. CASE LibraryExit
    BY <2>2 DEF LibraryExit, Exits
  <2>3. ASSUME NEW w \in {"wfx", "exception", "canceled"}, VmmExit(w) PROVE GateInv'
    BY <2>3 DEF VmmExit, Exits
  <2>4. ASSUME NEW t \in Timers, TimerCtlWrite(t) PROVE GateInv'
    BY <2>4 DEF TimerCtlWrite, Exits
  <2>5. ASSUME NEW t \in Timers, TimerDeadlineWrite(t) PROVE GateInv'
    BY <2>5 DEF TimerDeadlineWrite, Exits
  <2>6. CASE FirstMonitorExit
    BY <2>6 DEF FirstMonitorExit
  <2>7. CASE SetMask
    BY <2>7 DEF SetMask
  <2>8. CASE Genter
    BY <2>8 DEF Genter
  <2>9. CASE MonitorMoves
    BY <2>9 DEF MonitorMoves
  <2>10. CASE Gexit
    BY <2>10 DEF Gexit
  <2>11. CASE MonitorUnmasks
    BY <2>11 DEF MonitorUnmasks
  <2>12. QED
    BY <1>7, <2>1, <2>2, <2>3, <2>4, <2>5, <2>6, <2>7, <2>8, <2>9, <2>10, <2>11
    DEF Guest
<1>8. CASE \/ \E t \in Timers : Elapse(t)
           \/ \E v \in Vcpus \ {Self} : OtherCore(v)
           \/ UNCHANGED vars
  <2>1. UNCHANGED <<pc, guestVars, lineVars, levelVars>>
    BY <1>8 DEF Elapse, OtherCore, vars
  <2>2. sptm_base'[Self] = sptm_base[Self]
    <3>1. ASSUME NEW v \in Vcpus \ {Self}, OtherCore(v)
          PROVE  sptm_base'[Self] = sptm_base[Self]
      <4>1. \/ UNCHANGED sptm_base
            \/ \E x : sptm_base' = [sptm_base EXCEPT ![v] = x]
        BY <3>1 DEF OtherCore, NoteStep, NotePhysical, Note, Load, Exchange,
           ExchangeFails
      <4>2. QED
        BY <4>1, GateAssumption DEF TypeOK, BandTypeOK
    <3>2. CASE (\E t \in Timers : Elapse(t)) \/ UNCHANGED vars
      BY <3>2 DEF Elapse, vars, bandVars
    <3>3. QED
      BY <1>8, <3>1, <3>2
  <2>3. PcBand' = PcBand
    BY <2>1 DEF PcBand, guestVars
  <2>4. QED
    BY <1>1, <2>1, <2>2, <2>3 DEF GateInv, guestVars, lineVars, levelVars, CanTake
<1>9. QED
  BY <1>2, <1>3, <1>4, <1>5, <1>6, <1>7, <1>8 DEF Next, Thread

GateSafe == TypeOK /\ BandInv /\ GateInv

\* Types, bands and gate hold together, from the start.
LEMMA GateSafeAlways == Safe => []GateSafe
<1>1. Init => GateSafe
  BY TypeInvInit, BandStart, GateInvInit DEF Init, GateSafe
<1>2. GateSafe /\ [Next]_vars => GateSafe'
  BY TypeInvNext, BandStep, BandInvNext, GateInvNext DEF GateSafe, TypeOK
<1>3. QED
  BY <1>1, <1>2, PTL DEF Safe

\* No interrupt is ever taken inside the monitor by a vCPU that is not parked: for
\* any timers, whatever the other vCPUs have learnt of the bands and however old the
\* band is that this one goes by.
THEOREM MonitorNeverInterrupted == Safe => NeverTakenInMonitor
<1>1. GateSafe /\ [Next]_vars => [~wedged /\ wedged' => in_wfx]_vars
  <2> SUFFICES ASSUME GateSafe, Next, ~wedged, wedged'
               PROVE  in_wfx
    OBVIOUS
  <2>1. PICK l \in {"F", "I"} : Take(l)
    <3>1. wedged # wedged'
      OBVIOUS
    <3>2. ~Thread /\ ~RunAgain /\ ~Release /\ ~Vmm
      BY <3>1 DEF Thread, NoteBand, PublishBand, Enter, RunAgain, Release, Vmm,
         SetPendingFiq, SetPendingIrq, SetParked, guestVars
    <3>3. \A t \in Timers : ~Elapse(t) /\ ~TimerCtlWrite(t) /\ ~TimerDeadlineWrite(t)
      BY <3>1 DEF Elapse, TimerCtlWrite, TimerDeadlineWrite, Exits, guestVars
    <3>4. ~LibraryExit /\ ~SetMask /\ ~MonitorUnmasks /\ ~FirstMonitorExit /\ ~Gexit
          /\ ~Genter /\ ~MonitorMoves
      BY <3>1 DEF LibraryExit, Exits, SetMask, MonitorUnmasks, FirstMonitorExit, Gexit,
         Genter, MonitorMoves
    <3>5. \A w : ~VmmExit(w) /\ ~OtherCore(w)
      BY <3>1 DEF VmmExit, Exits, OtherCore, guestVars
    <3>6. QED
      BY <3>2, <3>3, <3>4, <3>5 DEF Next, Guest
  <2>2. pc = "guest" /\ where \in Monitor /\ (vf \/ vi)
    BY <2>1 DEF Take, GateSafe, TypeOK
  <2>3. QED
    BY <2>2 DEF GateSafe, GateInv
<1>2. QED
  BY <1>1, GateSafeAlways, PTL DEF Safe, NeverTakenInMonitor

\* And it carries no level across a GENTER.
THEOREM LevelNeverCarried == Safe => LevelDownAtGenter
<1>1. GateSafe /\ [Next]_vars
        => [where = "kernel" /\ where' \in Monitor /\ (vf \/ vi) => in_wfx]_vars
  <2> SUFFICES ASSUME GateSafe, Next, where = "kernel", where' \in Monitor, vf \/ vi
               PROVE  in_wfx
    OBVIOUS
  <2>1. Genter
    <3>1. where # where'
      BY DEF Monitor
    <3>2. ~Thread /\ ~RunAgain /\ ~Release /\ ~Vmm
      BY <3>1 DEF Thread, NoteBand, PublishBand, Enter, RunAgain, Release, Vmm,
         SetPendingFiq, SetPendingIrq, SetParked, guestVars
    <3>3. \A t \in Timers : ~Elapse(t) /\ ~TimerCtlWrite(t) /\ ~TimerDeadlineWrite(t)
      BY <3>1 DEF Elapse, TimerCtlWrite, TimerDeadlineWrite, guestVars
    <3>4. ~LibraryExit /\ ~SetMask /\ ~MonitorUnmasks /\ ~FirstMonitorExit /\ ~Gexit
          /\ ~MonitorMoves
      BY <3>1 DEF LibraryExit, SetMask, MonitorUnmasks, FirstMonitorExit, Gexit,
         MonitorMoves, Monitor
    <3>5. \A l : ~Take(l) /\ ~VmmExit(l) /\ ~OtherCore(l)
      BY <3>1 DEF Take, VmmExit, OtherCore, guestVars
    <3>6. QED
      BY <3>2, <3>3, <3>4, <3>5 DEF Next, Guest
  <2>2. QED
    BY <2>1 DEF Genter, GateSafe, GateInv
<1>2. QED
  BY <1>1, GateSafeAlways, PTL DEF Safe, LevelDownAtGenter
=============================================================================
