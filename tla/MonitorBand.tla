---------------------------- MODULE MonitorBand ----------------------------
(***************************************************************************)
(* How the vCPUs learn where the monitor images are.                       *)
(*                                                                         *)
(* ohv_note_image_band (ohv_vcpu.cpp) runs on every vCPU before every      *)
(* entry.  The lowest band of kernel addresses any of them has executed in *)
(* is the monitor's; it is kept for the machine in g_monitor_band and for  *)
(* the core in VcpuSlot::sptm_base.  Each load and each exchange of the    *)
(* shared word is a step, so that vCPUs interleave between them.           *)
(* InterruptGate extends this module: the band a vCPU holds decides what   *)
(* its gate takes for the monitor.                                         *)
(***************************************************************************)
EXTENDS Naturals

CONSTANTS
  Vcpus,  \* the vCPUs
  Bands   \* the 0x10000000-sized bands of kernel addresses; 0 means unknown

ASSUME BandAssumption == Bands \subseteq Nat \ {0}

VARIABLES
  g_monitor_band,  \* lowest band known to the machine
  sptm_base,       \* lowest band known to each vCPU
  step,            \* where a vCPU is in ohv_note_image_band
  band, seen,      \* its locals
  ran              \* history: bands the guest was found executing in

bandVars == <<g_monitor_band, sptm_base, step, band, seen, ran>>

BandTypeOK ==
  /\ g_monitor_band \in Bands \union {0}
  /\ sptm_base \in [Vcpus -> Bands \union {0}]
  /\ step \in [Vcpus -> {"done", "load", "exchange"}]
  /\ band \in [Vcpus -> Bands \union {0}]
  /\ seen \in [Vcpus -> Bands \union {0}]
  /\ ran \in SUBSET Bands

BandInit ==
  /\ g_monitor_band = 0
  /\ sptm_base = [v \in Vcpus |-> 0]
  /\ step = [v \in Vcpus |-> "done"]
  /\ band = [v \in Vcpus |-> 0]
  /\ seen = [v \in Vcpus |-> 0]
  /\ ran = {}

\* Mutant of Base: the machine's band is rounded up to the next one.
BaseRoundedUp(v) ==
  IF sptm_base[v] = 0 /\ g_monitor_band # 0 THEN g_monitor_band + 1 ELSE sptm_base[v]

\* Mutant of Base: the machine's band is not taken over.
BaseOwn(v) == sptm_base[v]

\* A vCPU that knows no band takes the machine's.
Base(v) == IF sptm_base[v] = 0 THEN g_monitor_band ELSE sptm_base[v]

\* b says more than x, where 0 says nothing.
Lower(x, b) == x = 0 \/ b < x

\* An exit at a physical address: nothing to learn from.
NotePhysical(v) ==
  /\ step[v] = "done"
  /\ sptm_base' = [sptm_base EXCEPT ![v] = Base(v)]
  /\ UNCHANGED <<g_monitor_band, step, band, seen, ran>>

\* An exit at a kernel address in band b.
Note(v, b) ==
  /\ step[v] = "done"
  /\ IF Lower(Base(v), b)
       THEN /\ sptm_base' = [sptm_base EXCEPT ![v] = b]
            /\ band' = [band EXCEPT ![v] = b]
            /\ step' = [step EXCEPT ![v] = "load"]
       ELSE /\ sptm_base' = [sptm_base EXCEPT ![v] = Base(v)]
            /\ UNCHANGED <<band, step>>
  /\ ran' = ran \union {b}
  /\ UNCHANGED <<g_monitor_band, seen>>

\* The load that starts a turn of the loop, and its test.
Load(v) ==
  /\ step[v] = "load"
  /\ seen' = [seen EXCEPT ![v] = g_monitor_band]
  /\ step' = [step EXCEPT ![v] =
                IF Lower(g_monitor_band, band[v]) THEN "exchange" ELSE "done"]
  /\ UNCHANGED <<g_monitor_band, sptm_base, band, ran>>

\* Mutant of Exchange: a plain store.
Store(v) ==
  /\ step[v] = "exchange"
  /\ g_monitor_band' = band[v]
  /\ step' = [step EXCEPT ![v] = "done"]
  /\ UNCHANGED <<sptm_base, band, seen, ran>>

\* compare_exchange_weak succeeds only on the value seen.
Exchange(v) ==
  /\ step[v] = "exchange" /\ g_monitor_band = seen[v]
  /\ g_monitor_band' = band[v]
  /\ step' = [step EXCEPT ![v] = "done"]
  /\ UNCHANGED <<sptm_base, band, seen, ran>>

\* Mutant of ExchangeFails: the loop is not taken again.
GiveUp(v) ==
  /\ step[v] = "exchange"
  /\ step' = [step EXCEPT ![v] = "done"]
  /\ UNCHANGED <<g_monitor_band, sptm_base, band, seen, ran>>

\* It may fail even then; the loop loads again.
ExchangeFails(v) ==
  /\ step[v] = "exchange"
  /\ step' = [step EXCEPT ![v] = "load"]
  /\ UNCHANGED <<g_monitor_band, sptm_base, band, seen, ran>>

\* A step of ohv_note_image_band on v.
NoteStep(v) ==
  \/ NotePhysical(v) \/ \E b \in Bands : Note(v, b)
  \/ Load(v) \/ Exchange(v) \/ ExchangeFails(v)

BandNext == \E v \in Vcpus : NoteStep(v)

BandSpec == BandInit /\ [][BandNext]_bandVars

-----------------------------------------------------------------------------
(* Properties. *)

\* The machine's band is only ever lowered: a core that is late with a higher
\* one never overwrites what another core has published since.
BandNeverRises ==
  [][g_monitor_band # 0 => g_monitor_band' # 0 /\ g_monitor_band' <= g_monitor_band]_bandVars

\* When no vCPU is in the middle of publishing, the machine's band is the lowest
\* of all the bands the guest has been found in, on whichever core.
LowestKnown ==
  (\A v \in Vcpus : step[v] = "done") =>
     /\ g_monitor_band \in ran \union {0}
     /\ \A b \in ran : g_monitor_band # 0 /\ g_monitor_band <= b

=============================================================================
