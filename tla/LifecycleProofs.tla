-------------------------- MODULE LifecycleProofs --------------------------
(***************************************************************************)
(* Proofs about Lifecycle, for any threads, slots and number of VMs.       *)
(***************************************************************************)
EXTENDS Lifecycle, TLAPS

Slot == [used : BOOLEAN, owner : Threads \union {"none"}, gic : BOOLEAN, space : 0 .. MaxVms]

\* A call that works on a slot has the number of one; no other has a number, so
\* taking one gives none up.
IdInv == \A t \in Threads :
  IF pc[t] \in {"fill", "join", "free"} THEN id[t] \in Ids ELSE id[t] = None

LEMMA NoneIsNoId == None \notin Ids
  BY LifecycleAssumption DEF None, Ids

LEMMA SlotFree == FreeSlot \in Slot
  BY LifecycleAssumption DEF FreeSlot, Slot

\* One action at a time: the state keeps its types.
LEMMA TypeNext ==
  ASSUME TypeOK, IdInv, [Next]_vars
  PROVE  TypeOK' /\ IdInv'
<1> USE LifecycleAssumption DEF TypeOK, IdInv, Goto, globals, locks, history
<1>1. ASSUME NEW t \in Threads, VmCreate(t) PROVE TypeOK' /\ IdInv'
  BY <1>1 DEF VmCreate
<1>2. ASSUME NEW t \in Threads, VmDestroy(t) PROVE TypeOK' /\ IdInv'
  <2>1. g_vcpus' \in [Ids -> Slot]
    BY <1>2, SlotFree DEF VmDestroy
  <2>2. QED
    BY <1>2, <2>1 DEF VmDestroy, Slot
<1>3. ASSUME NEW t \in Threads, GicScan(t) PROVE TypeOK' /\ IdInv'
  BY <1>3 DEF GicScan
<1>4. ASSUME NEW t \in Threads, GicPublish(t) PROVE TypeOK' /\ IdInv'
  BY <1>4 DEF GicPublish
<1>5. ASSUME NEW t \in Threads, GicEnable(t) PROVE TypeOK' /\ IdInv'
  BY <1>5 DEF GicEnable
<1>6. ASSUME NEW t \in Threads, CreateCheck(t) PROVE TypeOK' /\ IdInv'
  BY <1>6 DEF CreateCheck
<1>7. ASSUME NEW t \in Threads, CreateSlot(t) PROVE TypeOK' /\ IdInv'
  BY <1>7 DEF CreateSlot
<1>8. ASSUME NEW t \in Threads, CreateFails(t) PROVE TypeOK' /\ IdInv'
  BY <1>8 DEF CreateFails
<1>9. ASSUME NEW t \in Threads, CreateFill(t) PROVE TypeOK' /\ IdInv'
  BY <1>9 DEF CreateFill
<1>10. ASSUME NEW t \in Threads, CreateJoin(t) PROVE TypeOK' /\ IdInv'
  <2>1. g_vcpus' \in [Ids -> Slot]
    BY <1>10 DEF CreateJoin, Slot
  <2>2. QED
    BY <1>10, <2>1 DEF CreateJoin, Slot
<1>11. ASSUME NEW t \in Threads, NEW i \in Ids, DestroyTrap(t, i) PROVE TypeOK' /\ IdInv'
  BY <1>11 DEF DestroyTrap
<1>12. ASSUME NEW t \in Threads, DestroyFree(t) PROVE TypeOK' /\ IdInv'
  <2>1. g_vcpus' \in [Ids -> Slot]
    BY <1>12, SlotFree DEF DestroyFree, Slot
  <2>2. QED
    BY <1>12, <2>1 DEF DestroyFree, Slot
<1>13. ASSUME NEW t \in Threads, NEW i \in Ids, DestroyRefused(t, i) PROVE TypeOK' /\ IdInv'
  BY <1>13 DEF DestroyRefused
<1>14. ASSUME NEW t \in Threads, CreateAbandoned(t) PROVE TypeOK' /\ IdInv'
  BY <1>14 DEF CreateAbandoned
<1>15. CASE UNCHANGED vars
  BY <1>15 DEF vars
<1>16. QED
  BY <1>1, <1>2, <1>3, <1>4, <1>5, <1>6, <1>7, <1>8, <1>9, <1>10, <1>11, <1>12, <1>13,
     <1>14, <1>15 DEF Next

LEMMA TypeInit == Init => TypeOK /\ IdInv
<1> SUFFICES ASSUME Init PROVE TypeOK /\ IdInv
  OBVIOUS
<1>1. g_vcpus \in [Ids -> Slot]
  BY SlotFree DEF Init
<1>2. 0 \in 0 .. MaxVms
  BY LifecycleAssumption
<1>3. /\ g_vm_alive \in BOOLEAN /\ g_vm_el2 \in BOOLEAN /\ g_gic \in BOOLEAN
      /\ vmLock \in BOOLEAN /\ vcpusLock \in BOOLEAN /\ disorderly \in BOOLEAN
  BY DEF Init
<1>4. QED
  BY <1>1, <1>2, <1>3 DEF Init, TypeOK, IdInv, Slot

\* The globals, the slots and every thread's own state keep their types.
THEOREM LifecycleTypeCorrect == Spec => []TypeOK
  BY TypeInit, TypeNext, PTL DEF Spec

-----------------------------------------------------------------------------
(* The interface of every created vCPU. *)

\* No strengthening but the types: a slot is worked on by the thread that has its
\* number from the moment it is used, so what that thread does last decides.
LEMMA InterfaceNext ==
  ASSUME TypeOK, IdInv, InterfaceOn, [Next]_vars
  PROVE  InterfaceOn'
<1> USE DEF TypeOK, IdInv, InterfaceOn, Created, Goto, globals, locks, history
<1>1. ASSUME NEW t \in Threads, VmCreate(t) PROVE InterfaceOn'
  BY <1>1 DEF VmCreate
<1>2. ASSUME NEW t \in Threads, VmDestroy(t) PROVE InterfaceOn'
  BY <1>2 DEF VmDestroy
<1>3. ASSUME NEW t \in Threads, GicScan(t) PROVE InterfaceOn'
  BY <1>3 DEF GicScan
<1>4. ASSUME NEW t \in Threads, GicPublish(t) PROVE InterfaceOn'
  BY <1>4 DEF GicPublish
<1>5. ASSUME NEW t \in Threads, GicEnable(t) PROVE InterfaceOn'
  BY <1>5 DEF GicEnable
<1>6. ASSUME NEW t \in Threads, CreateCheck(t) PROVE InterfaceOn'
  BY <1>6 DEF CreateCheck
<1>7. ASSUME NEW t \in Threads, CreateSlot(t) PROVE InterfaceOn'
  <2> SUFFICES ASSUME g_gic', \A u \in Threads : pc'[u] # "enable",
                      NEW i \in Ids, Created(i)'
               PROVE  g_vcpus'[i].gic
    OBVIOUS
  <2>1. g_vcpus' = g_vcpus /\ g_gic' = g_gic
    BY <1>7 DEF CreateSlot
  <2>2. \A u \in Threads : pc[u] # "enable"
    BY <1>7 DEF CreateSlot
  <2>3. g_vcpus[i].used /\ ~FirstFree(i)
    BY <2>1 DEF FirstFree
  <2>4. PICK j \in Ids : FirstFree(j) /\ id' = [id EXCEPT ![t] = j]
    BY <1>7 DEF CreateSlot
  <2>5. Created(i)
    <3>1. ASSUME NEW u \in Threads, id[u] = i PROVE FALSE
      <4>1. u # t
        BY <1>7, <3>1, NoneIsNoId DEF CreateSlot
      <4>2. QED
        BY <2>4, <3>1, <4>1
    <3>2. QED
      BY <3>1, <2>3
  <2>6. QED
    BY <2>1, <2>2, <2>5
<1>8. ASSUME NEW t \in Threads, CreateFails(t) PROVE InterfaceOn'
  BY <1>8 DEF CreateFails
<1>9. ASSUME NEW t \in Threads, CreateFill(t) PROVE InterfaceOn'
  BY <1>9 DEF CreateFill
<1>10. ASSUME NEW t \in Threads, CreateJoin(t) PROVE InterfaceOn'
  BY <1>10 DEF CreateJoin
<1>11. ASSUME NEW t \in Threads, NEW i \in Ids, DestroyTrap(t, i) PROVE InterfaceOn'
  <2>1. \A j \in Ids : Created(j)' => Created(j)
    BY <1>11, NoneIsNoId DEF DestroyTrap
  <2>2. QED
    BY <1>11, <2>1 DEF DestroyTrap
<1>12. ASSUME NEW t \in Threads, DestroyFree(t) PROVE InterfaceOn'
  BY <1>12 DEF DestroyFree, FreeSlot
<1>13. ASSUME NEW t \in Threads, NEW i \in Ids, DestroyRefused(t, i) PROVE InterfaceOn'
  <2>1. \A j \in Ids : Created(j)' => Created(j)
    BY <1>13, NoneIsNoId DEF DestroyRefused
  <2>2. QED
    BY <1>13, <2>1 DEF DestroyRefused
<1>14. ASSUME NEW t \in Threads, CreateAbandoned(t) PROVE InterfaceOn'
  BY <1>14 DEF CreateAbandoned
<1>15. CASE UNCHANGED vars
  BY <1>15 DEF vars
<1>16. QED
  BY <1>1, <1>2, <1>3, <1>4, <1>5, <1>6, <1>7, <1>8, <1>9, <1>10, <1>11, <1>12, <1>13,
     <1>14, <1>15 DEF Next

\* hv_gic_create and hv_vcpu_create never leave a created vCPU without its
\* interface, whichever of them is first.
THEOREM InterfaceAlwaysOn == Spec => []InterfaceOn
<1>1. Init => InterfaceOn
  BY DEF Init, InterfaceOn
<1>2. QED
  BY <1>1, TypeInit, TypeNext, InterfaceNext, PTL DEF Spec

-----------------------------------------------------------------------------
(* What the kernel and the library say of a thread's vCPU. *)

Owns(t, i) == g_vcpus[i].used /\ g_vcpus[i].owner = t

\* KernelAgrees speaks of threads between calls; inside a call one side is ahead
\* of the other, by as much as the call has left to do.
InStep(t) ==
  /\ pc[t] \in {"idle", "locking", "publish", "enable"} => tl_current_vcpu[t] = kvcpu[t]
  /\ pc[t] \in {"fill", "join"} => tl_current_vcpu[t] = None /\ kvcpu[t] = id[t]
  /\ pc[t] = "fill" => ~g_vcpus[id[t]].used
  /\ pc[t] = "free" => kvcpu[t] = None /\ tl_current_vcpu[t] = id[t] /\ Owns(t, id[t])
  /\ pc[t] # "fill" /\ kvcpu[t] # None => Owns(t, kvcpu[t])

\* A thread whose vCPU the kernel kept: the slot is let go of, and is nobody's.
LeftBehind(t) ==
  /\ kvcpu[t] # None
  /\ pc[t] \notin {"fill", "join"}
  /\ IF pc[t] = "free"
       THEN kvcpu[t] = id[t] /\ tl_current_vcpu[t] = id[t] /\ Owns(t, id[t])
       ELSE tl_current_vcpu[t] = None /\ ~g_vcpus[kvcpu[t]].used

AgreeInv(t) == IF t \in stranded THEN LeftBehind(t) ELSE InStep(t)

\* The kernel has no vCPU on two threads.
Distinct == \A t, u \in Threads : kvcpu[t] = kvcpu[u] /\ kvcpu[t] # None => t = u

OrderInv == ~disorderly => Distinct /\ \A t \in Threads : AgreeInv(t)

LEMMA OrderNext ==
  ASSUME TypeOK, IdInv, OrderInv, [Next]_vars
  PROVE  OrderInv'
<1> SUFFICES ASSUME ~disorderly'
             PROVE  Distinct' /\ \A u \in Threads : AgreeInv(u)'
  BY DEF OrderInv
<1>0. ~disorderly
  BY DEF Next, vars, VmCreate, VmDestroy, GicScan, GicPublish, GicEnable, CreateCheck,
         CreateSlot, CreateFails, CreateAbandoned, CreateFill, CreateJoin, DestroyTrap,
         DestroyRefused, DestroyFree, history
<1>a. Distinct /\ \A u \in Threads : AgreeInv(u)
  BY <1>0 DEF OrderInv
<1> USE <1>a, NoneIsNoId DEF TypeOK, IdInv, Distinct, AgreeInv, InStep, LeftBehind, Owns, Goto, globals, locks, history
<1>1. ASSUME NEW t \in Threads, VmCreate(t)
      PROVE  Distinct' /\ \A u \in Threads : AgreeInv(u)'
  BY <1>1 DEF VmCreate
<1>2. ASSUME NEW t \in Threads, VmDestroy(t)
      PROVE  Distinct' /\ \A u \in Threads : AgreeInv(u)'
  BY <1>2 DEF VmDestroy
<1>3. ASSUME NEW t \in Threads, GicScan(t)
      PROVE  Distinct' /\ \A u \in Threads : AgreeInv(u)'
  BY <1>3 DEF GicScan
<1>4. ASSUME NEW t \in Threads, GicPublish(t)
      PROVE  Distinct' /\ \A u \in Threads : AgreeInv(u)'
  BY <1>4 DEF GicPublish
<1>5. ASSUME NEW t \in Threads, GicEnable(t)
      PROVE  Distinct' /\ \A u \in Threads : AgreeInv(u)'
  BY <1>5 DEF GicEnable
<1>6. ASSUME NEW t \in Threads, CreateCheck(t)
      PROVE  Distinct' /\ \A u \in Threads : AgreeInv(u)'
  BY <1>6 DEF CreateCheck
<1>7. ASSUME NEW t \in Threads, CreateSlot(t)
      PROVE  Distinct' /\ \A u \in Threads : AgreeInv(u)'
  BY <1>7 DEF CreateSlot, FirstFree
<1>8. ASSUME NEW t \in Threads, CreateFails(t)
      PROVE  Distinct' /\ \A u \in Threads : AgreeInv(u)'
  BY <1>8 DEF CreateFails
<1>9. ASSUME NEW t \in Threads, CreateFill(t)
      PROVE  Distinct' /\ \A u \in Threads : AgreeInv(u)'
  BY <1>9 DEF CreateFill
<1>10. ASSUME NEW t \in Threads, CreateJoin(t)
       PROVE  Distinct' /\ \A u \in Threads : AgreeInv(u)'
  BY <1>10 DEF CreateJoin
<1>11. ASSUME NEW t \in Threads, NEW i \in Ids, DestroyTrap(t, i)
       PROVE  Distinct' /\ \A u \in Threads : AgreeInv(u)'
  BY <1>11 DEF DestroyTrap
<1>12. ASSUME NEW t \in Threads, DestroyFree(t)
       PROVE  Distinct' /\ \A u \in Threads : AgreeInv(u)'
  BY <1>12 DEF DestroyFree, FreeSlot
<1>13. ASSUME NEW t \in Threads, NEW i \in Ids, DestroyRefused(t, i)
       PROVE  Distinct' /\ \A u \in Threads : AgreeInv(u)'
  BY <1>13 DEF DestroyRefused
<1>14. ASSUME NEW t \in Threads, CreateAbandoned(t)
       PROVE  Distinct' /\ \A u \in Threads : AgreeInv(u)'
  BY <1>14 DEF CreateAbandoned, FirstFree
<1>15. CASE UNCHANGED vars
  BY <1>15 DEF vars
<1>16. QED
  BY <1>1, <1>2, <1>3, <1>4, <1>5, <1>6, <1>7, <1>8, <1>9, <1>10, <1>11, <1>12, <1>13,
     <1>14, <1>15 DEF Next

\* Library and kernel agree on every thread's vCPU between its calls, however
\* orderly calls of the threads interleave; a refused destroy puts its own thread
\* out of step and no other.
THEOREM KernelAlwaysAgrees == Spec => []KernelAgrees
<1>1. Init => OrderInv
  BY DEF Init, OrderInv, Distinct, AgreeInv, InStep
<1>2. OrderInv => KernelAgrees
  BY DEF OrderInv, AgreeInv, InStep, LeftBehind, Owns, KernelAgrees
<1>3. QED
  BY <1>1, <1>2, TypeInit, TypeNext, OrderNext, PTL DEF Spec
=============================================================================
