---------------------------- MODULE GicSpiProofs ----------------------------
(***************************************************************************)
(* Proofs about GicSpi, for any number of interrupts and list registers.   *)
(***************************************************************************)
EXTENDS GicSpi, WellFoundedInduction, TLAPS

\* A set of numbers has a least one.
LEMMA LeastElement ==
  ASSUME NEW T, T \subseteq Nat, T # {}
  PROVE  \E x \in T : \A y \in T : x <= y
<1> DEFINE R == OpToRel(<, Nat)
<1>1. IsWellFoundedOn(R, Nat)
  BY NatLessThanWellFounded
<1> HIDE DEF R
<1>2. \E x \in T : \A y \in T : ~(<<y, x>> \in R)
  BY <1>1, WFMin
<1>3. ASSUME NEW x \in Nat, NEW y \in Nat, ~(<<y, x>> \in R) PROVE x <= y
  <2>1. ~(y < x)
    BY <1>3 DEF R, OpToRel
  <2>2. QED
    BY <2>1
<1>4. QED
  BY <1>2, <1>3

\* The scan of hv_gic_set_spi ends at a free list register if there is one.
LEMMA FirstFreeIsFree ==
  ASSUME FreeLrs # {}
  PROVE  FirstFree \in FreeLrs
<1>1. FreeLrs \subseteq Nat
  BY GicAssumption DEF FreeLrs, Lrs
<1>2. \E i \in FreeLrs : \A j \in FreeLrs : i <= j
  BY <1>1, LeastElement
<1>3. QED
  BY <1>2 DEF FirstFree

LEMMA EntryTypes ==
  /\ Free \in Entries /\ Free.state = "inactive" /\ Free.intid = Ppi
  /\ \A n \in Intids : /\ Entry("pending", n) \in Entries /\ Entry("active", n) \in Entries
                       /\ Entry("pending", n).intid = n /\ Entry("active", n).intid = n
                       /\ Entry("pending", n).state = "pending"
                       /\ Entry("active", n).state = "active"
  /\ \A e \in Entries : /\ e.intid \in Intids
                        /\ \/ e = Free
                           \/ e = Entry("pending", e.intid)
                           \/ e = Entry("active", e.intid)
  BY DEF Free, Entries, Entry, Intids

-----------------------------------------------------------------------------
(* Types. *)

\* mark_dirty by either thread.
LEMMA MarkDirtyType ==
  ASSUME TypeOK, NEW t \in Threads, NEW bits \in SUBSET Marks, MarkDirty(t, bits)
  PROVE  /\ pc' \in [Threads -> {"idle", "load", "store"}]
         /\ mask' \in [Threads -> SUBSET Marks] /\ loaded' \in [Threads -> SUBSET Marks]
  BY DEF TypeOK, MarkDirty

LEMMA WriteLrType ==
  ASSUME TypeOK, NEW i, NEW n \in Intids, WriteLr(i, Entry("pending", n))
  PROVE  ich_lr' \in [Lrs -> [e : Entries, flag : BOOLEAN]]
<1>1. [e |-> Entry("pending", n), flag |-> TRUE] \in [e : Entries, flag : BOOLEAN]
  BY EntryTypes
<1>2. QED
  BY <1>1 DEF TypeOK, WriteLr

LEMMA TypeNext ==
  ASSUME TypeOK, [Next]_vars
  PROVE  TypeOK'
<1> DEFINE B == {"GIC", "CONTROLS"}
<1>0. {"GIC"} \in SUBSET Marks /\ B \in SUBSET Marks /\ {"CONTROLS"} \in SUBSET Marks
      /\ "vmm" \in Threads /\ "vcpu" \in Threads /\ Ppi \in Intids
      /\ \A s \in Spis : s \in Intids
  BY DEF Marks, Threads, Intids
<1> USE <1>0 DEF TypeOK, dist, page, hw, thr, hist
<1>1. ASSUME NEW t \in Threads, MarkLoad(t) PROVE TypeOK'
  BY <1>1 DEF MarkLoad
<1>2. ASSUME NEW t \in Threads, MarkStore(t) PROVE TypeOK'
  <2>1. raced' \in BOOLEAN
    BY <1>2 DEF MarkStore
  <2>2. QED
    BY <1>2, <2>1 DEF MarkStore
<1>3. ASSUME NEW s \in Spis, SpiDisabled(s) PROVE TypeOK'
  BY <1>3 DEF SpiDisabled
<1>4. ASSUME NEW s \in Spis, SpiNotFilled(s) PROVE TypeOK'
  BY <1>4 DEF SpiNotFilled, Dropped
<1>5. ASSUME NEW s \in Spis, SpiFill(s) PROVE TypeOK'
  BY <1>5, MarkDirtyType, WriteLrType DEF SpiFill
<1>6. ASSUME NEW s \in Spis, SpiDown(s) PROVE TypeOK'
  <2>1. [e |-> Free, flag |-> TRUE] \in [e : Entries, flag : BOOLEAN]
    BY EntryTypes
  <2>2. ich_lr' \in [Lrs -> [e : Entries, flag : BOOLEAN]]
    BY <1>6, <2>1 DEF SpiDown, TakeBack
  <2>3. MarkDirty("vmm", B) \/ UNCHANGED thr
    BY <1>6 DEF SpiDown, TakeBack
  <2>4. QED
    BY <1>6, <2>2, <2>3, MarkDirtyType DEF SpiDown
<1>7. CASE SetDistributorReg
  BY <1>7 DEF SetDistributorReg
<1>8. CASE SetInterfaceReg
  BY <1>8, MarkDirtyType DEF SetInterfaceReg
<1>9. CASE SetIchReg
  BY <1>9, MarkDirtyType, WriteLrType DEF SetIchReg
<1>10. CASE Reset
  BY <1>10, MarkDirtyType DEF Reset
<1>11. CASE SetState
  BY <1>11, MarkDirtyType DEF SetState
<1>12. CASE VcpuMark
  BY <1>12, MarkDirtyType DEF VcpuMark
<1>13. CASE Enter
  BY <1>13 DEF Enter, Loads
<1>14. CASE Exit
  BY <1>14 DEF Exit
<1>15. ASSUME NEW i \in Lrs, Acknowledge(i) PROVE TypeOK'
  BY <1>15, EntryTypes DEF Acknowledge
<1>16. ASSUME NEW i \in Lrs, EndOfInterrupt(i) PROVE TypeOK'
  BY <1>16, EntryTypes DEF EndOfInterrupt
<1>17. CASE UNCHANGED vars
  BY <1>17 DEF vars
<1>18. QED
  BY <1>1, <1>2, <1>3, <1>4, <1>5, <1>6, <1>7, <1>8, <1>9, <1>10, <1>11, <1>12, <1>13,
     <1>14, <1>15, <1>16, <1>17 DEF Next, Vmm, SetSpi

LEMMA TypeInit == Init => TypeOK
<1> SUFFICES ASSUME Init PROVE TypeOK
  OBVIOUS
<1>1. [e |-> Free, flag |-> FALSE] \in [e : Entries, flag : BOOLEAN]
  BY EntryTypes
<1>2. inGuest \in BOOLEAN /\ raced \in BOOLEAN
  BY DEF Init
<1>3. QED
  BY <1>1, <1>2, EntryTypes DEF Init, TypeOK

\* Distributor, context page, hardware and threads keep their types.
THEOREM GicTypeCorrect == Spec => []TypeOK
  BY TypeInit, TypeNext, PTL DEF Spec

-----------------------------------------------------------------------------
(* The mark of a written entry. *)

\* Inductive as it stands: who flags an entry is about to mark it, a store keeps
\* the mark or is counted as a race, and an entry that finds the mark clears all
\* the flags.
LEMMA MarkedNext ==
  ASSUME TypeOK, WrittenIsMarked, [Next]_vars
  PROVE  WrittenIsMarked'
<1> USE DEF TypeOK, WrittenIsMarked, MarkComing, Threads, dist, page, hw, thr, hist
<1>1. ASSUME NEW t \in Threads, MarkLoad(t) PROVE WrittenIsMarked'
  BY <1>1 DEF MarkLoad
<1>2. ASSUME NEW t \in Threads, MarkStore(t) PROVE WrittenIsMarked'
  <2>1. CASE raced \/ raced'
    BY <1>2, <2>1 DEF MarkStore
  <2>2. CASE "GIC" \in state_dirty'
    BY <2>2
  <2>3. CASE ~raced' /\ ~raced /\ "GIC" \notin state_dirty'
    <3>1. "GIC" \notin state_dirty /\ "GIC" \notin mask[t]
      BY <1>2, <2>3 DEF MarkStore
    <3>2. QED
      BY <1>2, <2>3, <3>1 DEF MarkStore
  <2>4. QED
    BY <2>1, <2>2, <2>3
<1>3. ASSUME NEW s \in Spis, SpiDisabled(s) PROVE WrittenIsMarked'
  BY <1>3 DEF SpiDisabled
<1>4. ASSUME NEW s \in Spis, SpiNotFilled(s) PROVE WrittenIsMarked'
  BY <1>4 DEF SpiNotFilled
<1>5. ASSUME NEW s \in Spis, SpiFill(s) PROVE WrittenIsMarked'
  BY <1>5 DEF SpiFill, MarkDirty
<1>6. ASSUME NEW s \in Spis, SpiDown(s) PROVE WrittenIsMarked'
  BY <1>6 DEF SpiDown, TakeBack, MarkDirty
<1>7. CASE SetDistributorReg
  BY <1>7 DEF SetDistributorReg
<1>8. CASE SetInterfaceReg
  BY <1>8 DEF SetInterfaceReg, MarkDirty
<1>9. CASE SetIchReg
  BY <1>9 DEF SetIchReg, MarkDirty
<1>10. CASE Reset
  BY <1>10 DEF Reset, MarkDirty
<1>11. CASE SetState
  BY <1>11 DEF SetState, MarkDirty
<1>12. CASE VcpuMark
  BY <1>12 DEF VcpuMark, MarkDirty
<1>13. CASE Enter
  BY <1>13 DEF Enter, Loads
<1>14. CASE Exit
  BY <1>14 DEF Exit
<1>15. ASSUME NEW i \in Lrs, Acknowledge(i) PROVE WrittenIsMarked'
  BY <1>15 DEF Acknowledge
<1>16. ASSUME NEW i \in Lrs, EndOfInterrupt(i) PROVE WrittenIsMarked'
  BY <1>16 DEF EndOfInterrupt
<1>17. CASE UNCHANGED vars
  BY <1>17 DEF vars
<1>18. QED
  BY <1>1, <1>2, <1>3, <1>4, <1>5, <1>6, <1>7, <1>8, <1>9, <1>10, <1>11, <1>12, <1>13,
     <1>14, <1>15, <1>16, <1>17 DEF Next, Vmm, SetSpi

\* Only a lost race of mark_dirty leaves a written list register unmarked.
THEOREM WrittenEntriesMarked == Spec => []WrittenIsMarked
<1>1. Init => WrittenIsMarked
  BY DEF Init, WrittenIsMarked
<1>2. QED
  BY <1>1, TypeInit, TypeNext, MarkedNext, PTL DEF Spec

-----------------------------------------------------------------------------
(* The list registers. *)

\* What the hardware will have once the page has been loaded.
Due(i) == IF ich_lr[i].flag THEN ich_lr[i].e ELSE hwLr[i]

\* An entry that is not flagged is what the hardware was given: the guest can only
\* have taken it, or ended it, since.
Copy(i) ==
  ~ich_lr[i].flag =>
    \/ hwLr[i] = ich_lr[i].e
    \/ hwLr[i] = Free
    \/ ich_lr[i].e.state = "pending" /\ hwLr[i] = Entry("active", ich_lr[i].e.intid)

\* A pending SPI that is still to be loaded has its line up.
FlaggedIsUp ==
  \A i \in Lrs : ich_lr[i].flag /\ ich_lr[i].e.state = "pending" /\ ich_lr[i].e.intid \in Spis
                   => ich_lr[i].e.intid \in up

Live(e) == e.state # "inactive"

\* No interrupt twice, in what is due as in what is there.
DueOnce ==
  \A i, j \in Lrs : Live(Due(i)) /\ Live(Due(j)) /\ Due(i).intid = Due(j).intid => i = j

QueuedIsDue == \A s \in Spis : req[s] = "queued" => \E i \in Lrs : Due(i) = Entry("pending", s)

LrInv ==
  /\ \A i \in Lrs : Copy(i)
  /\ FlaggedIsUp /\ DueOnce /\ QueuedOnce /\ QueuedIsDue /\ LoweredTakenBack

\* The scans read the page; what they find there holds of what is due.
LEMMA PageShowsDue ==
  ASSUME TypeOK, LrInv, NEW i \in Lrs
  PROVE  /\ Due(i) \in Entries /\ ich_lr[i].e \in Entries /\ hwLr[i] \in Entries
         /\ ich_lr[i].flag \in BOOLEAN
         /\ Live(Due(i)) => Live(ich_lr[i].e) /\ ich_lr[i].e.intid = Due(i).intid
<1>1. Copy(i)
  BY DEF LrInv
<1>2. /\ ich_lr[i].e \in Entries /\ hwLr[i] \in Entries /\ ich_lr[i].flag \in BOOLEAN
  BY DEF TypeOK
<1>3. QED
  BY <1>1, <1>2, EntryTypes DEF Due, Live, Copy

\* An interrupt that is in no list register is written to one that reads inactive.
LEMMA WriteKeeps ==
  ASSUME TypeOK, LrInv,
         NEW i \in Lrs, ~Live(ich_lr[i].e),
         NEW n \in Intids, ~Queued(n),
         WriteLr(i, Entry("pending", n)),
         hwLr' = hwLr, up \subseteq up', n \in Spis => n \in up'
  PROVE  /\ \A j \in Lrs : Copy(j)'
         /\ FlaggedIsUp' /\ DueOnce' /\ QueuedOnce' /\ LoweredTakenBack'
         /\ Due(i)' = Entry("pending", n)
         /\ \A s \in Spis, j \in Lrs : Due(j) = Entry("pending", s) => Due(j)' = Entry("pending", s)
<1>1. ich_lr' = [ich_lr EXCEPT ![i] = [e |-> Entry("pending", n), flag |-> TRUE]]
  BY DEF WriteLr
<1>2. /\ ich_lr'[i].e = Entry("pending", n) /\ ich_lr'[i].flag
      /\ \A j \in Lrs : j # i => ich_lr'[j] = ich_lr[j]
  BY <1>1 DEF TypeOK
<1>3. /\ Due(i)' = Entry("pending", n)
      /\ \A j \in Lrs : j # i => Due(j)' = Due(j)
  BY <1>2 DEF Due
<1>4. ~Live(Due(i))
  BY PageShowsDue
<1>5. \A j \in Lrs : Live(Due(j)) => Due(j).intid # n
  <2>1. SUFFICES ASSUME NEW j \in Lrs, Live(Due(j)), Due(j).intid = n PROVE FALSE
    OBVIOUS
  <2>2. Live(ich_lr[j].e) /\ ich_lr[j].e.intid = n
    BY <2>1, PageShowsDue
  <2>3. QED
    BY <2>2 DEF Queued, Live
<1>6. DueOnce'
  <2>1. \A j \in Lrs : Due(j)' = IF j = i THEN Entry("pending", n) ELSE Due(j)
    BY <1>3
  <2>2. QED
    BY <2>1, <1>5, EntryTypes DEF DueOnce, LrInv, Live
<1>7. \A j \in Lrs : Copy(j)'
  BY <1>2 DEF Copy, LrInv
<1>8. FlaggedIsUp'
  BY <1>2, EntryTypes DEF FlaggedIsUp, LrInv
<1>9. QueuedOnce'
  BY DEF QueuedOnce, Held, LrInv
<1>10. LoweredTakenBack'
  BY <1>2 DEF LoweredTakenBack, LrInv
<1>11. \A s \in Spis, j \in Lrs : Due(j) = Entry("pending", s) => Due(j)' = Entry("pending", s)
  <2>1. \A s \in Spis : Live(Entry("pending", s))
    BY EntryTypes DEF Live, Intids
  <2>2. QED
    BY <2>1, <1>3, <1>4
<1>12. QED
  BY <1>3, <1>6, <1>7, <1>8, <1>9, <1>10, <1>11

\* A line that goes down: what is still pending of it is due to be taken back.
LEMMA DownKeeps ==
  ASSUME TypeOK, LrInv, NEW s \in Spis, SpiDown(s)
  PROVE  LrInv'
<1> DEFINE held == {i \in Lrs : ich_lr[i].e = Entry("pending", s)}
           lr   == [e |-> Free, flag |-> TRUE]
<1>1. /\ ich_lr' = [i \in Lrs |-> IF i \in held THEN lr ELSE ich_lr[i]]
      /\ hwLr' = hwLr /\ up' = up \ {s} /\ req' = [req EXCEPT ![s] = "none"]
  BY DEF SpiDown, TakeBack, hw
<1>2. /\ \A i \in Lrs : i \in held => ich_lr'[i].e = Free /\ ich_lr'[i].flag /\ Due(i)' = Free
      /\ \A i \in Lrs : i \notin held => ich_lr'[i] = ich_lr[i] /\ Due(i)' = Due(i)
  BY <1>1 DEF Due
<1>3. \A i \in Lrs : Copy(i)'
  BY <1>1, <1>2 DEF Copy, LrInv
<1>4. FlaggedIsUp'
  <2> SUFFICES ASSUME NEW i \in Lrs, ich_lr'[i].flag, ich_lr'[i].e.state = "pending",
                      ich_lr'[i].e.intid \in Spis
               PROVE  ich_lr'[i].e.intid \in up'
    BY DEF FlaggedIsUp
  <2>1. i \notin held /\ ich_lr'[i] = ich_lr[i]
    BY <1>2, EntryTypes
  <2>2. ich_lr[i].e \in Entries /\ ich_lr[i].e # Entry("pending", s)
    BY <2>1 DEF TypeOK
  <2>3. ich_lr[i].e.intid # s
    BY <2>1, <2>2, EntryTypes
  <2>4. QED
    BY <1>1, <2>1, <2>3 DEF LrInv, FlaggedIsUp
<1>5. DueOnce'
  BY <1>2, EntryTypes DEF DueOnce, LrInv, Live
<1>6. QueuedOnce'
  BY <1>1 DEF QueuedOnce, Held, LrInv
<1>7. QueuedIsDue'
  <2> SUFFICES ASSUME NEW r \in Spis, req'[r] = "queued"
               PROVE  \E i \in Lrs : Due(i)' = Entry("pending", r)
    BY DEF QueuedIsDue
  <2>1. r # s /\ req[r] = "queued"
    BY <1>1 DEF TypeOK
  <2>2. PICK i \in Lrs : Due(i) = Entry("pending", r)
    BY <2>1 DEF LrInv, QueuedIsDue
  <2>3. Live(Due(i)) /\ Due(i).intid = r
    BY <2>2, EntryTypes DEF Live, Intids
  <2>4. ich_lr[i].e.intid = r
    BY <2>3, PageShowsDue
  <2>5. i \notin held
    BY <2>1, <2>4, EntryTypes DEF Intids
  <2>6. QED
    BY <1>2, <2>2, <2>5
<1>8. LoweredTakenBack'
  <2> SUFFICES ASSUME NEW i \in Lrs, hwLr[i].state = "pending", hwLr[i].intid \in Spis \ up'
               PROVE  ich_lr'[i].flag
    BY <1>1 DEF LoweredTakenBack
  <2>1. CASE hwLr[i].intid = s /\ ~ich_lr[i].flag
    <3>1. hwLr[i] \in Entries
      BY DEF TypeOK
    <3>2. hwLr[i] = Entry("pending", s)
      BY <2>1, <3>1, EntryTypes
    <3>3. hwLr[i] = ich_lr[i].e
      BY <2>1, PageShowsDue, EntryTypes DEF LrInv, Copy
    <3>4. QED
      BY <1>2, <3>2, <3>3
  <2>2. CASE hwLr[i].intid # s \/ ich_lr[i].flag
    <3>1. ich_lr[i].flag
      BY <2>2, <1>1 DEF LrInv, LoweredTakenBack
    <3>2. QED
      BY <3>1, <1>2
  <2>3. QED
    BY <2>1, <2>2 DEF TypeOK
<1>9. QED
  BY <1>3, <1>4, <1>5, <1>6, <1>7, <1>8 DEF LrInv

\* The run trap loads everything that is flagged, or nothing.
LEMMA EnterKeeps ==
  ASSUME TypeOK, LrInv, Enter
  PROVE  LrInv'
<1>1. /\ hwLr' = [i \in Lrs |-> IF Loads(i) THEN ich_lr[i].e ELSE hwLr[i]]
      /\ ich_lr' = [i \in Lrs |-> [ich_lr[i] EXCEPT !.flag = @ /\ ~Loads(i)]]
      /\ UNCHANGED <<up, req>>
  BY DEF Enter, hist
<1>2. CASE "GIC" \notin state_dirty
  <2>1. hwLr' = hwLr
    BY <1>1, <1>2 DEF Loads, TypeOK
  <2>2. \A i \in Lrs : ich_lr'[i].e = ich_lr[i].e /\ (ich_lr'[i].flag <=> ich_lr[i].flag)
    BY <1>1, <1>2 DEF Loads, TypeOK
  <2>3. \A i \in Lrs : Due(i)' = Due(i)
    BY <2>1, <2>2 DEF Due
  <2>4. QED
    BY <1>1, <2>1, <2>2, <2>3
    DEF LrInv, Copy, FlaggedIsUp, DueOnce, QueuedOnce, QueuedIsDue, LoweredTakenBack, Held
<1>3. CASE "GIC" \in state_dirty
  <2>1. \A i \in Lrs : hwLr'[i] = Due(i)
    BY <1>1, <1>3 DEF Loads, Due
  <2>2. \A i \in Lrs : ich_lr'[i].e = ich_lr[i].e /\ ~ich_lr'[i].flag
    BY <1>1, <1>3 DEF Loads, TypeOK
  <2>3. \A i \in Lrs : Due(i)' = Due(i)
    BY <2>1, <2>2 DEF Due
  <2>4. \A i \in Lrs : Copy(i)'
    BY <2>1, <2>2 DEF Copy, LrInv, Due
  <2>5. FlaggedIsUp'
    BY <2>2 DEF FlaggedIsUp
  <2>6. DueOnce' /\ QueuedIsDue'
    BY <1>1, <2>3 DEF LrInv, DueOnce, QueuedIsDue
  <2>7. QueuedOnce'
    BY <2>1 DEF LrInv, DueOnce, QueuedOnce, Held, Live
  <2>8. LoweredTakenBack'
    BY <1>1, <2>1 DEF LrInv, LoweredTakenBack, FlaggedIsUp, Due
  <2>9. QED
    BY <2>4, <2>5, <2>6, <2>7, <2>8 DEF LrInv
<1>4. QED
  BY <1>2, <1>3

\* Its return, the acknowledgement and the end of an interrupt.
LEMMA GuestKeeps ==
  ASSUME TypeOK, LrInv
  PROVE  /\ Exit => LrInv'
         /\ \A i \in Lrs : Acknowledge(i) \/ EndOfInterrupt(i) => LrInv'
<1>1. ASSUME Exit PROVE LrInv'
  <2>1. /\ hwLr' = hwLr /\ UNCHANGED <<up, req>>
        /\ ich_lr' = [i \in Lrs |-> IF ich_lr[i].flag THEN ich_lr[i]
                                      ELSE [e |-> hwLr[i], flag |-> FALSE]]
    BY <1>1 DEF Exit, hist
  <2>2. \A i \in Lrs : /\ ich_lr'[i].flag <=> ich_lr[i].flag
                       /\ ich_lr[i].flag => ich_lr'[i].e = ich_lr[i].e
                       /\ ~ich_lr[i].flag => ich_lr'[i].e = hwLr[i]
                       /\ Due(i)' = Due(i)
    BY <2>1 DEF Due
  <2>3. QED
    BY <2>1, <2>2
    DEF LrInv, Copy, FlaggedIsUp, DueOnce, QueuedOnce, QueuedIsDue, LoweredTakenBack, Held
<1>2. ASSUME NEW i \in Lrs, Acknowledge(i) PROVE LrInv'
  <2> DEFINE n == hwLr[i].intid
  <2>1. /\ hwLr[i] = Entry("pending", n) /\ n \in Intids
        /\ hwLr' = [hwLr EXCEPT ![i] = Entry("active", n)]
        /\ req' = [s \in Spis |-> IF s = n THEN "none" ELSE req[s]]
        /\ UNCHANGED <<ich_lr, up>>
    BY <1>2, EntryTypes DEF Acknowledge, TypeOK, page
  <2>2. /\ hwLr'[i] = Entry("active", n)
        /\ \A j \in Lrs : j # i => hwLr'[j] = hwLr[j] /\ Due(j)' = Due(j)
        /\ Due(i)' = IF ich_lr[i].flag THEN ich_lr[i].e ELSE Entry("active", n)
    BY <2>1 DEF Due, TypeOK
  <2>3. \A j \in Lrs : Copy(j)'
    <3>1. Copy(i) => Copy(i)'
      <4>1. ich_lr[i].e \in Entries /\ ich_lr[i].e.intid \in Intids
        BY PageShowsDue, EntryTypes
      <4>2. Copy(i) /\ ~ich_lr[i].flag => ich_lr[i].e = Entry("pending", n)
        BY <2>1, <4>1, EntryTypes DEF Copy
      <4>3. QED
        BY <2>1, <2>2, <4>2, EntryTypes DEF Copy
    <3>2. \A j \in Lrs : j # i => (Copy(j) => Copy(j)')
      BY <2>1, <2>2 DEF Copy
    <3>3. QED
      BY <3>1, <3>2 DEF LrInv
  <2>4. FlaggedIsUp' /\ LoweredTakenBack'
    BY <2>1, <2>2, EntryTypes DEF LrInv, FlaggedIsUp, LoweredTakenBack
  <2>5. /\ \A j \in Lrs : Live(Due(j)') => Live(Due(j)) /\ Due(j)'.intid = Due(j).intid
        /\ \A j \in Lrs : hwLr'[j].state # "inactive" =>
                            hwLr[j].state # "inactive" /\ hwLr'[j].intid = hwLr[j].intid
    BY <2>1, <2>2, EntryTypes DEF Due, Live
  <2>6. DueOnce' /\ QueuedOnce'
    BY <2>5 DEF LrInv, DueOnce, QueuedOnce, Held, Live
  <2>7. QueuedIsDue'
    <3> SUFFICES ASSUME NEW s \in Spis, req'[s] = "queued"
                 PROVE  \E j \in Lrs : Due(j)' = Entry("pending", s)
      BY DEF QueuedIsDue
    <3>1. s # n /\ req[s] = "queued"
      BY <2>1
    <3>2. PICK j \in Lrs : Due(j) = Entry("pending", s)
      BY <3>1 DEF LrInv, QueuedIsDue
    <3>3. ~(j = i /\ ~ich_lr[i].flag)
      BY <2>1, <3>1, <3>2, EntryTypes DEF Due, Intids
    <3>4. Due(j)' = Due(j)
      BY <2>2, <3>3 DEF Due
    <3>5. QED
      BY <3>2, <3>4
  <2>8. QED
    BY <2>3, <2>4, <2>6, <2>7 DEF LrInv
<1>3. ASSUME NEW i \in Lrs, EndOfInterrupt(i) PROVE LrInv'
  <2>1. /\ hwLr[i].state = "active" /\ hwLr' = [hwLr EXCEPT ![i] = Free]
        /\ UNCHANGED <<ich_lr, up, req>>
    BY <1>3 DEF EndOfInterrupt, page, hist
  <2>2. /\ hwLr'[i] = Free
        /\ \A j \in Lrs : j # i => hwLr'[j] = hwLr[j] /\ Due(j)' = Due(j)
        /\ Due(i)' = IF ich_lr[i].flag THEN ich_lr[i].e ELSE Free
    BY <2>1 DEF Due, TypeOK
  <2>3. \A j \in Lrs : Copy(j)'
    BY <2>1, <2>2 DEF LrInv, Copy
  <2>4. FlaggedIsUp' /\ LoweredTakenBack'
    BY <2>1, <2>2, EntryTypes DEF LrInv, FlaggedIsUp, LoweredTakenBack
  <2>5. /\ \A j \in Lrs : Live(Due(j)') => Due(j)' = Due(j)
        /\ \A j \in Lrs : hwLr'[j].state # "inactive" => hwLr'[j] = hwLr[j]
    BY <2>1, <2>2, EntryTypes DEF Due, Live
  <2>6. DueOnce' /\ QueuedOnce'
    BY <2>5 DEF LrInv, DueOnce, QueuedOnce, Held, Live
  <2>7. \A s \in Spis, j \in Lrs : Due(j) = Entry("pending", s) => Due(j)' = Due(j)
    BY <2>1, <2>2, EntryTypes DEF Due, Intids
  <2>8. QueuedIsDue'
    BY <2>1, <2>7 DEF LrInv, QueuedIsDue
  <2>9. QED
    BY <2>3, <2>4, <2>6, <2>8 DEF LrInv
<1>4. QED
  BY <1>1, <1>2, <1>3

LEMMA LrNext ==
  ASSUME TypeOK, LrInv, [Next]_vars
  PROVE  LrInv'
<1>a. ASSUME UNCHANGED <<ich_lr, hwLr>>, up \subseteq up',
             \A s \in Spis : req'[s] = "queued" => req[s] = "queued"
      PROVE  LrInv'
  BY <1>a DEF LrInv, Copy, FlaggedIsUp, DueOnce, Due, QueuedOnce, QueuedIsDue,
              LoweredTakenBack, Held
<1> USE DEF dist, page, hw, thr, hist
<1>1. ASSUME NEW t \in Threads, MarkLoad(t) \/ MarkStore(t) PROVE LrInv'
  BY <1>1, <1>a DEF MarkLoad, MarkStore
<1>2. ASSUME NEW s \in Spis, SpiDisabled(s) \/ SpiNotFilled(s) PROVE LrInv'
  BY <1>2, <1>a DEF SpiDisabled, SpiNotFilled, Dropped, TypeOK
<1>3. ASSUME NEW s \in Spis, SpiFill(s) PROVE LrInv'
  <2>1. /\ FirstFree \in Lrs /\ ~Live(ich_lr[FirstFree].e)
        /\ s \in Intids /\ ~Queued(s) /\ WriteLr(FirstFree, Entry("pending", s))
        /\ hwLr' = hwLr /\ up' = up \union {s} /\ req' = [req EXCEPT ![s] = "queued"]
    BY <1>3, FirstFreeIsFree DEF SpiFill, FreeLrs, Live, Intids
  <2>2. \A r \in Spis : req'[r] = "queued" => r = s \/ req[r] = "queued"
    BY <2>1 DEF TypeOK
  <2>3. QueuedIsDue'
    BY <2>1, <2>2, WriteKeeps DEF QueuedIsDue, LrInv
  <2>4. QED
    BY <2>1, <2>3, WriteKeeps DEF LrInv
<1>4. ASSUME NEW s \in Spis, SpiDown(s) PROVE LrInv'
  BY <1>4, DownKeeps
<1>5. CASE SetIchReg
  <2>1. /\ UNCHANGED <<hwLr, up, req>> /\ Ppi \in Intids /\ Ppi \notin Spis
        /\ \E i \in Lrs : PpiFor(i) /\ WriteLr(i, Entry("pending", Ppi))
    BY <1>5, GicAssumption DEF SetIchReg, Intids
  <2>2. PICK i \in Lrs : PpiFor(i) /\ WriteLr(i, Entry("pending", Ppi))
    BY <2>1
  <2>3. ~Live(ich_lr[i].e) /\ ~Queued(Ppi)
    BY <2>2 DEF PpiFor, Live
  <2>4. /\ \A j \in Lrs : Copy(j)'
        /\ FlaggedIsUp' /\ DueOnce' /\ QueuedOnce' /\ LoweredTakenBack'
        /\ \A s \in Spis, j \in Lrs : Due(j) = Entry("pending", s) => Due(j)' = Entry("pending", s)
    BY <2>1, <2>2, <2>3, WriteKeeps
  <2>5. QueuedIsDue'
    BY <2>1, <2>4 DEF QueuedIsDue, LrInv
  <2>6. QED
    BY <2>4, <2>5 DEF LrInv
<1>6. CASE SetDistributorReg \/ SetInterfaceReg \/ Reset \/ SetState \/ VcpuMark
  BY <1>6, <1>a DEF SetDistributorReg, SetInterfaceReg, Reset, SetState, VcpuMark
<1>7. CASE Enter
  BY <1>7, EnterKeeps
<1>8. CASE Exit \/ \E i \in Lrs : Acknowledge(i) \/ EndOfInterrupt(i)
  BY <1>8, GuestKeeps
<1>9. CASE UNCHANGED vars
  BY <1>9, <1>a DEF vars
<1>10. QED
  BY <1>1, <1>2, <1>3, <1>4, <1>5, <1>6, <1>7, <1>8, <1>9 DEF Next, Vmm, SetSpi

LEMMA LrInit == Init => LrInv
  BY EntryTypes DEF Init, LrInv, Copy, FlaggedIsUp, DueOnce, Due, Live, QueuedOnce, QueuedIsDue,
                    LoweredTakenBack, Held

\* The hardware never has an interrupt in two list registers, although
\* hv_gic_set_spi decides by copies that are as old as the last exit.
THEOREM InterruptQueuedOnce == Spec => []QueuedOnce
<1>1. LrInv => QueuedOnce
  BY DEF LrInv
<1>2. QED
  BY <1>1, LrInit, LrNext, TypeInit, TypeNext, PTL DEF Spec

\* An SPI that was given a list register is pending in the hardware, or due to be,
\* until the guest takes it or its line goes down.
THEOREM QueuedStaysQueued == Spec => []QueuedUntilTaken
<1>1. TypeOK /\ LrInv => QueuedUntilTaken
  <2> SUFFICES ASSUME TypeOK, LrInv, NEW s \in Spis, req[s] = "queued"
               PROVE  \E i \in Lrs : PendingAt(s, i)
    BY DEF QueuedUntilTaken
  <2>1. PICK i \in Lrs : Due(i) = Entry("pending", s)
    BY DEF LrInv, QueuedIsDue
  <2>2. /\ ich_lr[i] = [e |-> ich_lr[i].e, flag |-> ich_lr[i].flag]
        /\ ich_lr[i].flag = TRUE \/ ich_lr[i].flag = FALSE
    BY DEF TypeOK
  <2>3. PendingAt(s, i)
    BY <2>1, <2>2 DEF PendingAt, Due
  <2>4. QED
    BY <2>3
<1>2. QED
  BY <1>1, LrInit, LrNext, TypeInit, TypeNext, PTL DEF Spec

\* What the hardware still has pending of a line that went down is due to be
\* taken back.
THEOREM LoweredIsTakenBack == Spec => []LoweredTakenBack
<1>1. LrInv => LoweredTakenBack
  BY DEF LrInv
<1>2. QED
  BY <1>1, LrInit, LrNext, TypeInit, TypeNext, PTL DEF Spec
=============================================================================
