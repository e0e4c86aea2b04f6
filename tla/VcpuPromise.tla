---------------------------- MODULE VcpuPromise ----------------------------
(***************************************************************************)
(* What hv_vcpu_run and hv_vcpus_exit promise a VMM, with no latch, no     *)
(* trap and no classification of exits.                                    *)
(*                                                                         *)
(* A vCPU is with the VMM, in the library, or in its guest.  Work wanted   *)
(* of it is collected when the VMM next runs it.  The guest's trapping     *)
(* instructions are carried out one by one in program order: by the        *)
(* library on its way through, or by the VMM, which a call of hv_vcpu_run  *)
(* then leaves owing exactly one.  A call may come back at any time owing  *)
(* nothing: cancelled, with a timer's news, or refused.                    *)
(***************************************************************************)
EXTENDS Integers

CONSTANTS
  Vcpus,
  Insns     \* the guest's trapping instructions, numbered in program order

VARIABLES
  at,       \* who has the vCPU; "owing" is the VMM with one to service
  wanted,   \* the VMM wants to inject something into it
  carried   \* how often each trapping instruction has been carried out

vars == <<at, wanted, carried>>

Init ==
  /\ at = [v \in Vcpus |-> "vmm"]
  /\ wanted = [v \in Vcpus |-> FALSE]
  /\ carried = [v \in Vcpus |-> [i \in Insns |-> 0]]

Moves(v, from, to) == at[v] = from /\ at' = [at EXCEPT ![v] = to]

\* The next instruction in program order: all before it are done, none after.
NextInsn(v, i) == \A j \in Insns : carried[v][j] = IF j < i THEN 1 ELSE 0

CarryOut(v) ==
  \E i \in Insns :
    /\ NextInsn(v, i)
    /\ carried' = [carried EXCEPT ![v] = [carried[v] EXCEPT ![i] = 1]]

\* A thread of the VMM wants something of the vCPUs in S.
Post(S) ==
  /\ wanted' = [v \in Vcpus |-> wanted[v] \/ v \in S]
  /\ UNCHANGED <<at, carried>>

\* The VMM collects what is wanted and calls hv_vcpu_run, owing nothing.
Run(v) ==
  /\ Moves(v, "vmm", "library")
  /\ wanted' = [wanted EXCEPT ![v] = FALSE]
  /\ UNCHANGED carried

Enter(v) == Moves(v, "library", "guest") /\ UNCHANGED <<wanted, carried>>

Leave(v) == Moves(v, "guest", "library") /\ UNCHANGED <<wanted, carried>>

\* hv_vcpu_run comes back, with an exception to service or with none.
Return(v) ==
  /\ \E to \in {"vmm", "owing"} : Moves(v, "library", to)
  /\ UNCHANGED <<wanted, carried>>

\* The library carries the instruction out itself and the VMM never hears.
Answer(v) == at[v] = "library" /\ CarryOut(v) /\ UNCHANGED <<at, wanted>>

\* The VMM carries out the one it owes.
Service(v) == Moves(v, "owing", "vmm") /\ CarryOut(v) /\ UNCHANGED wanted

Next ==
  \/ \E S \in SUBSET Vcpus : Post(S)
  \/ \E v \in Vcpus : \/ Run(v) \/ Enter(v) \/ Leave(v) \/ Return(v)
                      \/ Answer(v) \/ Service(v)

Spec == Init /\ [][Next]_vars
=============================================================================
