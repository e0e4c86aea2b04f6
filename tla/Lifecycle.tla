----------------------------- MODULE Lifecycle -----------------------------
(***************************************************************************)
(* The life of the VM, its interrupt controller and its vCPUs.             *)
(*                                                                         *)
(* hv_vm_create, hv_vm_destroy (ohv_vm.cpp) and hv_gic_create              *)
(* (ohv_gic.cpp) run under g_vm_mutex; hv_vcpu_create and hv_vcpu_destroy  *)
(* (ohv_vcpu.cpp) under g_vcpus_mutex, so the two groups interleave.  All  *)
(* of them read and write g_vcpus and g_gic; a thread's vCPU is in its     *)
(* tl_current_vcpu, and the kernel has its own idea of it.                 *)
(*                                                                         *)
(* The loops of hv_gic_create over the slots are one step each: a slot     *)
(* only ever becomes used under the other lock, and the scan and the       *)
(* enabling are what the two calls race on.                                *)
(***************************************************************************)
EXTENDS Naturals

CONSTANTS
  Threads,  \* threads of the VMM
  MaxIds,   \* slots: kMaxVcpuIds
  MaxVms    \* bound: VMs created

ASSUME LifecycleAssumption ==
  MaxIds \in Nat /\ MaxVms \in Nat

Ids  == 0 .. MaxIds - 1
None == MaxIds   \* no vCPU

VARIABLES
  g_vm_alive, g_vm_el2, g_gic,   \* the process's globals
  g_nested,        \* VM whose ASIDs are in g_nested_asid (0: none)
  g_vcpus,         \* the slots
  tl_current_vcpu, \* of each thread
  vmLock, vcpusLock,   \* the mutexes are held
  pc, id,          \* where a thread is in its call, and the id it works on
  kvcpu,           \* kernel: the vCPU bound to each thread
  vm,              \* history: number of the current VM
  stranded,        \* history: threads whose vCPU the kernel refused to destroy
  disorderly       \* history: a VM was destroyed under vCPUs or calls in it, or a
                   \* vCPU on another thread than its own

globals == <<g_vm_alive, g_vm_el2, g_gic, g_nested>>
locks   == <<vmLock, vcpusLock>>
history == <<vm, stranded, disorderly>>
vars == <<globals, g_vcpus, tl_current_vcpu, locks, pc, id, kvcpu, history>>

\* VcpuSlot(): owner None of the threads; gic: ICH_HCR_EL2.En; space: the VM of
\* the nested address space that was joined.
FreeSlot == [used |-> FALSE, owner |-> "none", gic |-> FALSE, space |-> 0]

TypeOK ==
  /\ g_vm_alive \in BOOLEAN /\ g_vm_el2 \in BOOLEAN /\ g_gic \in BOOLEAN
  /\ g_nested \in 0 .. MaxVms
  /\ g_vcpus \in [Ids -> [used : BOOLEAN, owner : Threads \union {"none"},
                          gic : BOOLEAN, space : 0 .. MaxVms]]
  /\ tl_current_vcpu \in [Threads -> Ids \union {None}]
  /\ vmLock \in BOOLEAN /\ vcpusLock \in BOOLEAN
  /\ pc \in [Threads -> {"idle", "locking", "fill", "join", "publish", "enable",
                         "free"}]
  /\ id \in [Threads -> Ids \union {None}]
  /\ kvcpu \in [Threads -> Ids \union {None}]
  /\ vm \in 0 .. MaxVms /\ stranded \subseteq Threads /\ disorderly \in BOOLEAN

Init ==
  /\ g_vm_alive = FALSE /\ g_vm_el2 = FALSE /\ g_gic = FALSE /\ g_nested = 0
  /\ g_vcpus = [i \in Ids |-> FreeSlot]
  /\ tl_current_vcpu = [t \in Threads |-> None]
  /\ vmLock = FALSE /\ vcpusLock = FALSE
  /\ pc = [t \in Threads |-> "idle"]
  /\ id = [t \in Threads |-> None]
  /\ kvcpu = [t \in Threads |-> None]
  /\ vm = 0 /\ stranded = {} /\ disorderly = FALSE

Goto(t, step) == pc' = [pc EXCEPT ![t] = step]

-----------------------------------------------------------------------------
(* hv_vm_create, hv_vm_destroy: one critical section each. *)

\* Mutant of VmCreate: the ASIDs are appended without a look at the room left.
VmCreateAppending(t) ==
  /\ pc[t] = "idle" /\ ~vmLock
  /\ ~g_vm_alive /\ vm < MaxVms
  /\ g_vm_alive' = TRUE /\ vm' = vm + 1
  /\ g_vm_el2' \in BOOLEAN
  /\ g_nested' = IF g_vm_el2' THEN g_nested + vm' ELSE g_nested
  /\ UNCHANGED <<g_gic, g_vcpus, tl_current_vcpu, locks, pc, id, kvcpu, stranded, disorderly>>

\* The nested spaces are created for every VM with EL2, but their ASIDs are
\* kept only while there is room: g_nested_count is never set back.
VmCreate(t) ==
  /\ pc[t] = "idle" /\ ~vmLock
  /\ ~g_vm_alive /\ vm < MaxVms   \* bound
  /\ g_vm_alive' = TRUE /\ vm' = vm + 1
  /\ g_vm_el2' \in BOOLEAN
  /\ g_nested' = IF g_vm_el2' /\ g_nested = 0 THEN vm' ELSE g_nested
  /\ UNCHANGED <<g_gic, g_vcpus, tl_current_vcpu, locks, pc, id, kvcpu, stranded, disorderly>>

\* The kernel takes its vCPUs down with the VM.  The slots are rebuilt; the
\* threads' own pointers to them, and the ASIDs, are left.  A vCPU left behind by
\* a refused destroy is no disorder: its thread has nothing else to do with it.
VmDestroy(t) ==
  /\ pc[t] = "idle" /\ ~vmLock
  /\ g_vm_alive
  /\ disorderly' = (disorderly \/ \E u \in Threads :
                     pc[u] # "idle" \/ (kvcpu[u] # None /\ u \notin stranded))
  /\ g_vm_alive' = FALSE /\ g_gic' = FALSE
  /\ g_vcpus' = [i \in Ids |-> FreeSlot]
  /\ kvcpu' = [u \in Threads |-> None] /\ stranded' = {}
  /\ UNCHANGED <<g_vm_el2, g_nested, tl_current_vcpu, locks, pc, id, vm>>

-----------------------------------------------------------------------------
(* hv_gic_create. *)

\* It is refused unless there is a VM, no vCPU yet, and no other controller.
GicScan(t) ==
  /\ pc[t] = "idle" /\ ~vmLock
  /\ g_vm_alive /\ (\A i \in Ids : ~g_vcpus[i].used) /\ ~g_gic
  /\ vmLock' = TRUE
  /\ Goto(t, "publish")
  /\ UNCHANGED <<globals, g_vcpus, tl_current_vcpu, vcpusLock, id, kvcpu, history>>

GicPublish(t) ==
  /\ pc[t] = "publish"
  /\ g_gic' = TRUE
  /\ Goto(t, "enable")
  /\ UNCHANGED <<g_vm_alive, g_vm_el2, g_nested, g_vcpus, tl_current_vcpu, locks,
                 id, kvcpu, history>>

\* Mutant of GicEnable: there are no vCPUs, so nothing is enabled.
GicEnableNone(t) ==
  /\ pc[t] = "enable"
  /\ vmLock' = FALSE
  /\ Goto(t, "idle")
  /\ UNCHANGED <<globals, g_vcpus, tl_current_vcpu, vcpusLock, id, kvcpu, history>>

\* The virtual CPU interface of the vCPUs that turned up in the meantime.
GicEnable(t) ==
  /\ pc[t] = "enable"
  /\ g_vcpus' = [i \in Ids |-> [g_vcpus[i] EXCEPT !.gic = @ \/ g_vcpus[i].used]]
  /\ vmLock' = FALSE
  /\ Goto(t, "idle")
  /\ UNCHANGED <<globals, tl_current_vcpu, vcpusLock, id, kvcpu, history>>

-----------------------------------------------------------------------------
(* hv_vcpu_create. *)

\* The checks made before the lock is taken.
CreateCheck(t) ==
  /\ pc[t] = "idle"
  /\ g_vm_alive /\ tl_current_vcpu[t] = None
  /\ Goto(t, "locking")
  /\ UNCHANGED <<globals, g_vcpus, tl_current_vcpu, locks, id, kvcpu, history>>

\* The first slot that is not used.
FirstFree(i) == ~g_vcpus[i].used /\ \A j \in 0 .. i - 1 : g_vcpus[j].used

\* The lock, a slot, and the kernel's vCPU.
CreateSlot(t) ==
  /\ pc[t] = "locking" /\ ~vcpusLock
  /\ g_vm_alive /\ kvcpu[t] = None
  /\ \E i \in Ids :
       /\ FirstFree(i)
       /\ \A u \in Threads : kvcpu[u] # i
       /\ id' = [id EXCEPT ![t] = i]
       /\ kvcpu' = [kvcpu EXCEPT ![t] = i]
  /\ vcpusLock' = TRUE
  /\ Goto(t, "fill")
  /\ UNCHANGED <<globals, g_vcpus, tl_current_vcpu, vmLock, history>>

\* A context of another version, whose vCPU is to be destroyed again, which the
\* kernel refuses: the answer is not looked at.
CreateAbandoned(t) ==
  /\ pc[t] = "locking" /\ ~vcpusLock
  /\ g_vm_alive /\ kvcpu[t] = None
  /\ \E i \in Ids :
       /\ FirstFree(i)
       /\ \A u \in Threads : kvcpu[u] # i
       /\ kvcpu' = [kvcpu EXCEPT ![t] = i]
  /\ stranded' = stranded \union {t}
  /\ Goto(t, "idle")
  /\ UNCHANGED <<globals, g_vcpus, tl_current_vcpu, locks, id, vm, disorderly>>

\* No slot left, a refusal of the kernel, or a context of another version whose
\* vCPU is destroyed again: nothing is left behind.
CreateFails(t) ==
  /\ pc[t] = "locking" /\ ~vcpusLock
  /\ Goto(t, "idle")
  /\ UNCHANGED <<globals, g_vcpus, tl_current_vcpu, locks, id, kvcpu, history>>

\* The slot is filled, its own controls included.
CreateFill(t) ==
  /\ pc[t] = "fill"
  /\ g_vcpus' = [g_vcpus EXCEPT ![id[t]] =
                   [used |-> TRUE, owner |-> t, gic |-> @.gic, space |-> @.space]]
  /\ Goto(t, "join")
  /\ UNCHANGED <<globals, tl_current_vcpu, locks, id, kvcpu, history>>

\* Mutant of CreateJoin: the thread is not told of its vCPU.
CreateUnbound(t) ==
  /\ pc[t] = "join"
  /\ g_vcpus' = [g_vcpus EXCEPT ![id[t]].gic = @ \/ g_gic]
  /\ vcpusLock' = FALSE
  /\ id' = [id EXCEPT ![t] = None]
  /\ Goto(t, "idle")
  /\ UNCHANGED <<globals, tl_current_vcpu, vmLock, kvcpu, history>>

\* The interrupt controller's interface, the thread's vCPU, the nested space.
CreateJoin(t) ==
  /\ pc[t] = "join"
  /\ g_vcpus' = [g_vcpus EXCEPT ![id[t]] =
                   [used |-> @.used, owner |-> @.owner, gic |-> @.gic \/ g_gic,
                    space |-> IF g_vm_el2 THEN g_nested ELSE 0]]
  /\ tl_current_vcpu' = [tl_current_vcpu EXCEPT ![t] = id[t]]
  /\ vcpusLock' = FALSE
  /\ id' = [id EXCEPT ![t] = None]
  /\ Goto(t, "idle")
  /\ UNCHANGED <<globals, vmLock, kvcpu, history>>

-----------------------------------------------------------------------------
(* hv_vcpu_destroy, of any vCPU and on any thread. *)

\* The kernel's vCPU goes first: the caller's, whichever id is given.  The kernel
\* refuses a caller that has none; the call goes on all the same.
DestroyTrap(t, i) ==
  /\ pc[t] = "idle"
  /\ g_vcpus[i].used
  /\ kvcpu' = [kvcpu EXCEPT ![t] = None]
  /\ disorderly' = (disorderly \/ kvcpu[t] # i)
  /\ id' = [id EXCEPT ![t] = i]
  /\ Goto(t, "free")
  /\ UNCHANGED <<globals, g_vcpus, tl_current_vcpu, locks, vm, stranded>>

\* The kernel refuses for a reason of its own and keeps the vCPU.  The error is
\* returned at the end of the call, which goes on as if nothing had happened.
DestroyRefused(t, i) ==
  /\ pc[t] = "idle"
  /\ g_vcpus[i].used /\ kvcpu[t] # None
  /\ stranded' = stranded \union {t}
  /\ disorderly' = (disorderly \/ kvcpu[t] # i)
  /\ id' = [id EXCEPT ![t] = i]
  /\ Goto(t, "free")
  /\ UNCHANGED <<globals, g_vcpus, tl_current_vcpu, locks, kvcpu, vm>>

\* Then, under the lock, the thread's pointer and the slot.
DestroyFree(t) ==
  /\ pc[t] = "free" /\ ~vcpusLock
  /\ tl_current_vcpu' = [tl_current_vcpu EXCEPT ![t] = IF @ = id[t] THEN None ELSE @]
  /\ g_vcpus' = [g_vcpus EXCEPT ![id[t]] = FreeSlot]
  /\ id' = [id EXCEPT ![t] = None]
  /\ Goto(t, "idle")
  /\ UNCHANGED <<globals, locks, kvcpu, history>>

-----------------------------------------------------------------------------
Next ==
  \E t \in Threads :
    \/ VmCreate(t) \/ VmDestroy(t)
    \/ GicScan(t) \/ GicPublish(t) \/ GicEnable(t)
    \/ CreateCheck(t) \/ CreateSlot(t) \/ CreateFails(t)
    \/ CreateAbandoned(t) \/ CreateFill(t) \/ CreateJoin(t)
    \/ \E i \in Ids : DestroyTrap(t, i) \/ DestroyRefused(t, i)
    \/ DestroyFree(t)

Spec == Init /\ [][Next]_vars

-----------------------------------------------------------------------------
(* Properties. *)

\* A vCPU nobody is still creating: its creator is done with it.
Created(i) == g_vcpus[i].used /\ \A t \in Threads : id[t] # i

\* However hv_gic_create and hv_vcpu_create interleave, a vCPU of a VM with an
\* interrupt controller ends up with its virtual CPU interface enabled; without
\* it every ICC_* access of the guest leaves for a VMM that has no case for it.
InterfaceOn ==
  g_gic /\ (\A t \in Threads : pc[t] # "enable")
    => \A i \in Ids : Created(i) => g_vcpus[i].gic

\* Library and kernel agree on which thread has which vCPU whenever the thread
\* is between two calls, as long as VMs are destroyed when nothing goes on in them
\* and vCPUs on their own threads.  Where the kernel refused to destroy a vCPU the
\* library has let go of it and the kernel has not, until the VM goes: that thread
\* alone is out of step, and the slot stays free, since no other thread can be
\* given a vCPU of that number.
KernelAgrees ==
  ~disorderly => \A t \in Threads :
    pc[t] = "idle" =>
      IF t \in stranded
        THEN /\ tl_current_vcpu[t] = None
             /\ kvcpu[t] # None /\ ~g_vcpus[kvcpu[t]].used
        ELSE /\ tl_current_vcpu[t] = kvcpu[t]
             /\ kvcpu[t] # None => g_vcpus[kvcpu[t]].used /\ g_vcpus[kvcpu[t]].owner = t

=============================================================================
