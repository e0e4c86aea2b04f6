-------------------------- MODULE GuestMemoryProofs --------------------------
(***************************************************************************)
(* Proofs about GuestMemory, for any regions, buffers, spaces and size of  *)
(* the record.                                                             *)
(***************************************************************************)
EXTENDS GuestMemory, TLAPS

\* The record as it will be after the stores that are under way; the stores
\* themselves leave it as it is.
Due(s)   == IF s = left.slot /\ "slot" \in left.todo THEN left.rec ELSE g_maps[s]
DueCount == IF "count" \in left.todo THEN left.count ELSE g_map_count

\* The main space has the new memory of a map, and the record is still to come.
Exchanging == call.kind = "map" /\ pc # "store" /\ (pc = "remember" \/ space # Main)

\* The record of an unmap is gone, or going, and the main space still has the memory.
Forgotten == call.kind = "unmap" /\ pc \in {"store", "trap"} /\ space = Main

\* Where a call can be.
CallInv ==
  /\ pc = "idle" => call = NoCall /\ space = Main
  /\ pc # "store" => left = NoStore
  /\ pc = "store" => left.todo # {} /\ left.slot \in Slots /\ call.kind # "protect"
  /\ pc = "store" /\ call.kind = "unmap" => space = Main
  /\ pc = "remember" => call.kind = "map"
  /\ call.kind # "unmap" => call.to \in Mapping
  /\ call.kind = "unmap" => call.to = None

Backs(b, r) == b \in Buffers /\ (kmap[Main][r].uva = b \/ (Exchanging /\ r = call.r))

\* Every record is of memory the guest has, but for the one that is being exchanged.
DueIsMapped ==
  \A s \in 1 .. DueCount : \E r \in Regions, b \in Buffers : Due(s) = Rec(b, r) /\ Backs(b, r)

\* No region is recorded twice.
DueOnce == \A s, t \in 1 .. DueCount : Due(s).ipa = Due(t).ipa => s = t

MappedIsDue ==
  \A r \in Regions \ excused :
    kmap[Main][r] # None =>
      \/ \E s \in 1 .. DueCount : Due(s).ipa = r.ipa
      \/ r = call.r /\ (Exchanging \/ Forgotten)

\* What the call in progress has done, or has yet to do, to the region it is about.
CallDue ==
  /\ Exchanging => kmap[Main][call.r] = call.to
  /\ Forgotten => \A s \in 1 .. DueCount : Due(s).ipa # call.r.ipa
  /\ pc = "store" /\ call.kind = "map" => \E s \in 1 .. DueCount : Due(s).ipa = call.r.ipa

\* A nested space has what the guest has, or will after the trap that is to come.
NestedInv ==
  \A s \in Spaces, r \in Regions : <<s, r>> \notin skewed =>
    IF r = call.r /\ pc = "trap" /\ space # Main /\ s >= space
      THEN After(s) = kmap[Main][r]
      ELSE kmap[s][r] = kmap[Main][r]

\* A lookup that has met no update has passed records that do not contain the range.
ScanInv ==
  reading => /\ Updating => disturbed
             /\ ~disturbed => \A s \in 1 .. i - 1 : s <= g_map_count => ~Contains(g_maps[s], query)

RecordInv == DueIsMapped /\ DueOnce /\ MappedIsDue /\ CallDue

MemInv == TypeOK /\ CallInv /\ RecordInv /\ NestedInv

-----------------------------------------------------------------------------
(* Regions and records. *)

LEMMA RegionFacts ==
  /\ \A r \in Regions : r.ipa \in Nat /\ r.size \in Nat /\ r.size > 0 /\ End(r) < Word
  /\ \A r, q \in Regions : r.ipa = q.ipa => r = q
<1>1. \A r \in Regions : r.ipa \in Nat /\ r.size \in Nat /\ r.size > 0 /\ End(r) < Word
  BY MemoryAssumption
<1>2. ASSUME NEW r \in Regions, NEW q \in Regions, r.ipa = q.ipa PROVE r = q
  <2>1. r # q => r.ipa + r.size <= q.ipa \/ q.ipa + q.size <= r.ipa
    BY MemoryAssumption DEF End
  <2>2. QED
    BY <1>1, <1>2, <2>1
<1>3. QED
  BY <1>1, <1>2

LEMMA NoCallType == NoCall \in Calls /\ NoCall.kind = "unmap" /\ NoCall.to = None
<1>1. (CHOOSE r \in Regions : TRUE) \in Regions
  BY MemoryAssumption
<1>2. QED
  BY <1>1 DEF NoCall, Calls

LEMMA NoStoreType ==
  /\ NoStore \in Stores /\ NoStore.todo = {} /\ NoStore.rec \in Records
<1>1. 0 \in 0 .. MaxMaps
  BY MemoryAssumption
<1>2. QED
  BY <1>1 DEF NoStore, Stores, Records, Rec

LEMMA RecType ==
  ASSUME NEW b \in Buffers, NEW r \in Regions
  PROVE  /\ Rec(b, r) \in Records
         /\ Rec(b, r).uva = b /\ Rec(b, r).ipa = r.ipa /\ Rec(b, r).size = r.size
  BY DEF Rec, Records

LEMMA MappingFacts ==
  /\ None \notin Mapping
  /\ \A m \in Mapping : m.uva \in Buffers
  /\ \A b \in Buffers : [uva |-> b, flags |-> "rw"] \in Mapping
  /\ \A m \in Mapping, f \in Flags : /\ [m EXCEPT !.flags = f] \in Mapping
                                     /\ [m EXCEPT !.flags = f].uva = m.uva
  BY DEF None, Mapping, Flags

\* Outside the stores the record is what is due, and the slot that map_remember
\* and map_forget find is the one that has the region.
LEMMA FirstSlotHolds ==
  ASSUME MemInv, pc # "store", NEW r \in Regions, Recorded(r)
  PROVE  /\ FirstSlot(r) \in Slots /\ FirstSlot(r) <= g_map_count
         /\ g_maps[FirstSlot(r)].ipa = r.ipa
<1>1. left.todo = {}
  BY NoStoreType DEF MemInv, CallInv
<1>2. DueCount = g_map_count /\ \A s : Due(s) = g_maps[s]
  BY <1>1 DEF Due, DueCount
<1>3. PICK s \in Slots : Holds(s, r)
  BY DEF Recorded
<1>4. ASSUME NEW t \in Slots, Holds(t, r) PROVE s = t
  <2>1. s \in 1 .. g_map_count /\ t \in 1 .. g_map_count
    BY <1>3, <1>4, MemoryAssumption DEF Holds, Slots, MemInv, TypeOK
  <2>2. g_maps[s].ipa = g_maps[t].ipa
    BY <1>3, <1>4 DEF Holds
  <2>3. QED
    BY <1>2, <2>1, <2>2 DEF MemInv, RecordInv, DueOnce
<1>5. s <= s
  BY MemoryAssumption DEF Slots
<1>6. Holds(s, r) /\ \A t \in Slots : Holds(t, r) => s <= t
  BY <1>3, <1>4, <1>5
<1>7. FirstSlot(r) \in Slots /\ Holds(FirstSlot(r), r)
  BY <1>6 DEF FirstSlot
<1>8. QED
  BY <1>7 DEF Holds

-----------------------------------------------------------------------------
(* Types, and where a call can be. *)

\* A call that ends, and one that goes on to the next space.
LEMMA NextSpaceType ==
  ASSUME TypeOK, CallInv, pc = "trap", (IF space = Main THEN Return \/ NextSpace ELSE NextSpace)
  PROVE  /\ pc' \in {"idle", "trap", "remember"} /\ call' \in Calls /\ space' \in Spaces
         /\ pc' = "idle" => call' = NoCall /\ space' = Main
         /\ pc' # "idle" => call' = call
         /\ pc' = "remember" => call.kind = "map"
<1>1. Main \in Spaces /\ (space < NumNested => space + 1 \in Spaces)
  BY MemoryAssumption DEF Spaces, Main, TypeOK
<1>2. QED
  BY <1>1, NoCallType DEF TypeOK, NextSpace, Return

LEMMA AfterType ==
  ASSUME TypeOK, CallInv, NEW s \in Spaces
  PROVE  After(s) \in Mapping \union {None}
<1>1. kmap[s][call.r] \in Mapping \union {None} /\ call.to \in Mapping \union {None}
  BY DEF TypeOK, Calls
<1>2. call.kind = "protect" => call.to.flags \in Flags
  BY DEF CallInv, Mapping
<1>3. QED
  BY <1>1, <1>2, MappingFacts DEF After

LEMMA TypeNext ==
  ASSUME MemInv, [Next]_vars
  PROVE  TypeOK' /\ CallInv'
<1>0. TypeOK /\ CallInv
  BY DEF MemInv
<1>d. disturbed' \in BOOLEAN
  BY <1>0 DEF Next, Vmm, Vcpu, vars, TypeOK
<1> USE <1>0, <1>d DEF TypeOK, CallInv, kernel, table, reader
<1>1. ASSUME NEW r \in Regions, NEW b \in Buffers, Map(r, b) PROVE TypeOK' /\ CallInv'
  <2>1. call' \in Calls /\ call'.kind = "map" /\ call'.to \in Mapping
    BY <1>1, MappingFacts DEF Map, Calls
  <2>2. QED
    BY <1>1, <2>1 DEF Map
<1>2. ASSUME NEW r \in Regions, Unmap(r) PROVE TypeOK' /\ CallInv'
  <2>1. call' \in Calls /\ call'.kind = "unmap" /\ call'.to = None
    BY <1>2 DEF Unmap, Calls
  <2>2. CASE ~Recorded(r)
    BY <1>2, <2>1, <2>2 DEF Unmap
  <2>3. CASE Recorded(r)
    <3>1. /\ FirstSlot(r) \in Slots /\ FirstSlot(r) <= g_map_count /\ pc = "idle"
      BY <1>2, <2>3, FirstSlotHolds DEF Unmap
    <3>2. /\ g_map_count \in Slots /\ g_map_count - 1 \in 0 .. MaxMaps
          /\ FirstSlot(r) \in 0 .. MaxMaps
      BY <3>1, MemoryAssumption DEF Slots
    <3>3. g_maps[g_map_count] \in Records
      BY <3>2
    <3>4. /\ left' = [count |-> g_map_count - 1, slot |-> FirstSlot(r),
                      rec |-> g_maps[g_map_count], todo |-> {"count", "slot"}]
          /\ pc' = "store"
      BY <1>2, <2>3 DEF Unmap, Begin
    <3>5. left' \in Stores /\ left'.todo # {} /\ left'.slot \in Slots
      BY <3>1, <3>2, <3>3, <3>4 DEF Stores
    <3>6. QED
      BY <1>2, <2>1, <3>4, <3>5 DEF Unmap
  <2>4. QED
    BY <2>2, <2>3
<1>3. ASSUME NEW r \in Regions, NEW f \in Flags, Protect(r, f) PROVE TypeOK' /\ CallInv'
  <2>1. kmap[Main][r] \in Mapping
    BY <1>3, MemoryAssumption DEF Protect, Spaces, Main
  <2>2. call' \in Calls /\ call'.kind = "protect" /\ call'.to \in Mapping
    BY <1>3, <2>1, MappingFacts DEF Protect, Calls
  <2>3. QED
    BY <1>3, <2>2 DEF Protect
<1>4. ASSUME NEW s \in Spaces, NEW r \in Regions, NEW to \in Mapping \union {None}, SpaceOp(s, r, to)
      PROVE  TypeOK' /\ CallInv'
  <2>1. kmap' \in [Spaces -> [Regions -> Mapping \union {None}]]
    BY <1>4 DEF SpaceOp
  <2>2. faults' \in 0 .. MaxFaults
    BY <1>4, MemoryAssumption DEF SpaceOp
  <2>3. skewed' \subseteq Spaces \X Regions
    BY <1>4 DEF SpaceOp
  <2>4. QED
    BY <1>4, <2>1, <2>2, <2>3 DEF SpaceOp
<1>5. CASE TrapDone
  <2>1. /\ pc' \in {"idle", "trap", "remember"} /\ call' \in Calls /\ space' \in Spaces
        /\ pc' = "idle" => call' = NoCall /\ space' = Main
        /\ pc' # "idle" => call' = call
        /\ pc' = "remember" => call.kind = "map"
    BY <1>5, NextSpaceType DEF TrapDone
  <2>2. kmap' \in [Spaces -> [Regions -> Mapping \union {None}]]
    <3>1. After(space) \in Mapping \union {None}
      BY AfterType
    <3>2. call.r \in Regions
      BY DEF Calls
    <3>3. QED
      BY <1>5, <3>1, <3>2 DEF TrapDone
  <2>3. skewed' \subseteq skewed /\ excused' \subseteq excused
    BY <1>5 DEF TrapDone
  <2>4. QED
    BY <1>5, <2>1, <2>2, <2>3, NoCallType DEF TrapDone
<1>6. CASE TrapRefused
  <2>1. /\ pc' \in {"idle", "trap", "remember"} /\ call' \in Calls /\ space' \in Spaces
        /\ pc' = "idle" => call' = NoCall /\ space' = Main
        /\ pc' # "idle" => call' = call
        /\ pc' = "remember" => call.kind = "map"
    BY <1>6, NextSpaceType DEF TrapRefused
  <2>2. faults' \in 0 .. MaxFaults
    BY <1>6, MemoryAssumption DEF TrapRefused
  <2>3. skewed' \subseteq Spaces \X Regions /\ excused' \subseteq Regions
    BY <1>6 DEF TrapRefused, Calls
  <2>4. QED
    BY <1>6, <2>1, <2>2, <2>3, NoCallType DEF TrapRefused
<1>7. CASE Remember
  <2> DEFINE rec == Rec(call.to.uva, call.r)
  <2>1. call.kind = "map" /\ call.r \in Regions /\ call.to \in Mapping /\ pc = "remember"
    BY <1>7 DEF Remember, Calls
  <2>2. rec \in Records
    BY <2>1, MappingFacts, RecType
  <2>3. CASE Recorded(call.r)
    <3>1. FirstSlot(call.r) \in Slots
      BY <2>1, <2>3, FirstSlotHolds
    <3>2. /\ left' = [count |-> g_map_count, slot |-> FirstSlot(call.r), rec |-> rec, todo |-> {"slot"}]
          /\ pc' = "store" /\ UNCHANGED <<call, space, excused>>
      BY <1>7, <2>3 DEF Remember, Begin
    <3>3. FirstSlot(call.r) \in 0 .. MaxMaps
      BY <3>1, MemoryAssumption DEF Slots
    <3>4. left' \in Stores /\ left'.todo # {} /\ left'.slot \in Slots
      BY <2>2, <3>1, <3>2, <3>3 DEF Stores
    <3>5. QED
      BY <1>7, <2>1, <3>2, <3>4 DEF Remember
  <2>4. CASE ~Recorded(call.r) /\ g_map_count < MaxMaps
    <3>1. /\ left' = [count |-> g_map_count + 1, slot |-> g_map_count + 1, rec |-> rec,
                      todo |-> {"count", "slot"}]
          /\ pc' = "store" /\ UNCHANGED <<call, space, excused>>
      BY <1>7, <2>4 DEF Remember, Begin
    <3>2. g_map_count + 1 \in Slots /\ g_map_count + 1 \in 0 .. MaxMaps
      BY <2>4, MemoryAssumption DEF Slots
    <3>3. left' \in Stores /\ left'.todo # {} /\ left'.slot \in Slots
      BY <2>2, <3>1, <3>2 DEF Stores
    <3>4. QED
      BY <1>7, <2>1, <3>1, <3>3 DEF Remember
  <2>5. CASE ~Recorded(call.r) /\ ~(g_map_count < MaxMaps)
    <3>1. /\ pc' = "idle" /\ call' = NoCall /\ space' = Main /\ UNCHANGED left
          /\ excused' = excused \union {call.r}
      BY <1>7, <2>5 DEF Remember, Return
    <3>2. Main \in Spaces
      BY MemoryAssumption DEF Spaces, Main
    <3>3. QED
      BY <1>7, <2>1, <3>1, <3>2, NoCallType DEF Remember
  <2>6. QED
    BY <2>3, <2>4, <2>5
<1>8. ASSUME NEW what \in {"count", "slot"}, Store(what) PROVE TypeOK' /\ CallInv'
  <2>1. g_maps' \in [Slots -> Records] /\ g_map_count' \in 0 .. MaxMaps
    BY <1>8 DEF Store, Stores
  <2>2. CASE left.todo # {what}
    <3>1. left' \in Stores /\ left'.todo # {} /\ left'.slot \in Slots
      BY <1>8, <2>2 DEF Store, Stores
    <3>2. QED
      BY <1>8, <2>1, <2>2, <3>1 DEF Store
  <2>3. CASE left.todo = {what}
    <3>1. left' = NoStore /\ Main \in Spaces
      BY <1>8, <2>3, MemoryAssumption DEF Store, Spaces, Main
    <3>2. CASE call.kind = "map"
      BY <1>8, <2>1, <2>3, <3>1, <3>2, NoCallType, NoStoreType DEF Store, Return
    <3>3. CASE call.kind # "map"
      BY <1>8, <2>1, <2>3, <3>1, <3>3, NoStoreType DEF Store
    <3>4. QED
      BY <3>2, <3>3
  <2>4. QED
    BY <2>2, <2>3
<1>9. ASSUME NEW q \in Queries, Lookup(q) PROVE TypeOK' /\ CallInv'
  <2>1. 1 \in 1 .. MaxMaps + 1
    BY MemoryAssumption
  <2>2. QED
    BY <1>9, <2>1 DEF Lookup
<1>10. CASE Scan
  <2>1. CASE Ends
    <3>1. 1 \in 1 .. MaxMaps + 1
      BY MemoryAssumption
    <3>2. QED
      BY <1>10, <2>1, <3>1 DEF Scan
  <2>2. CASE ~Ends
    <3>1. i <= g_map_count
      BY <1>10, <2>2 DEF Scan, Ends, More
    <3>2. i' \in 1 .. MaxMaps + 1
      BY <1>10, <2>2, <3>1, MemoryAssumption DEF Scan
    <3>3. QED
      BY <1>10, <2>2, <3>2 DEF Scan
  <2>3. QED
    BY <2>1, <2>2
<1>11. CASE UNCHANGED vars
  BY <1>11 DEF vars
<1>12. QED
  BY <1>1, <1>2, <1>3, <1>4, <1>5, <1>6, <1>7, <1>8, <1>9, <1>10, <1>11 DEF Next, Vmm, Vcpu

-----------------------------------------------------------------------------
(* The record. *)

LEMMA DueOutsideStores ==
  ASSUME MemInv, pc # "store"
  PROVE  /\ DueCount = g_map_count /\ \A s : Due(s) = g_maps[s]
         /\ left = NoStore /\ left.todo = {}
  BY NoStoreType DEF MemInv, CallInv, Due, DueCount

LEMMA SlotsFacts ==
  ASSUME TypeOK
  PROVE  /\ DueCount \in 0 .. MaxMaps /\ g_map_count \in 0 .. MaxMaps
         /\ \A s \in 1 .. g_map_count : s \in Slots
         /\ \A s \in 1 .. DueCount : s \in Slots
<1>1. DueCount \in 0 .. MaxMaps /\ g_map_count \in 0 .. MaxMaps
  BY DEF TypeOK, DueCount, Stores
<1>2. QED
  BY <1>1, MemoryAssumption DEF Slots

\* A step that changes neither the record nor the main space nor what the call
\* owes to them.
LEMMA RecordKept ==
  ASSUME RecordInv,
         DueCount' = DueCount, \A s : Due(s)' = Due(s),
         kmap'[Main] = kmap[Main], excused' = excused,
         Exchanging' <=> Exchanging, Forgotten' <=> Forgotten,
         Exchanging \/ Forgotten => call' = call,
         pc' = "store" /\ call'.kind = "map" => pc = "store" /\ call' = call
  PROVE  RecordInv'
<1>1. DueIsMapped'
  <2>1. ASSUME NEW s \in 1 .. DueCount
        PROVE  \E r \in Regions, b \in Buffers : Due(s)' = Rec(b, r) /\ Backs(b, r)'
    BY <2>1 DEF RecordInv, DueIsMapped, Backs
  <2>2. QED
    BY <2>1 DEF DueIsMapped
<1>2. DueOnce'
  BY DEF RecordInv, DueOnce
<1>3. MappedIsDue'
  BY DEF RecordInv, MappedIsDue
<1>4. CallDue'
  BY DEF RecordInv, CallDue
<1>5. QED
  BY <1>1, <1>2, <1>3, <1>4 DEF RecordInv

\* A region has at most one record, which is of that region.
LEMMA RecordOf ==
  ASSUME RecordInv, NEW s \in 1 .. DueCount
  PROVE  \E r \in Regions, b \in Buffers :
           /\ Due(s) = Rec(b, r) /\ Backs(b, r) /\ Due(s).ipa = r.ipa
           /\ \A q \in Regions : Due(s).ipa = q.ipa => q = r
<1>1. PICK r \in Regions, b \in Buffers : Due(s) = Rec(b, r) /\ Backs(b, r)
  BY DEF RecordInv, DueIsMapped
<1>2. Due(s).ipa = r.ipa
  BY <1>1, RecType
<1>3. QED
  BY <1>1, <1>2, RegionFacts

LEMMA UnmapRecord ==
  ASSUME MemInv, NEW r \in Regions, Unmap(r)
  PROVE  RecordInv'
<1> USE DEF kernel, table, reader
<1>0. /\ TypeOK /\ CallInv /\ RecordInv /\ pc = "idle"
      /\ call'.kind = "unmap" /\ call'.r = r /\ UNCHANGED <<kmap, g_maps, g_map_count, space, excused>>
      /\ space = Main /\ ~Exchanging /\ ~Forgotten /\ pc' \in {"store", "trap"}
  BY NoCallType DEF MemInv, Unmap, CallInv, Exchanging, Forgotten
<1>1. ~Exchanging' /\ Forgotten'
  BY <1>0 DEF Exchanging, Forgotten
<1>2. DueCount = g_map_count /\ (\A s : Due(s) = g_maps[s]) /\ left = NoStore /\ left.todo = {}
  BY <1>0, DueOutsideStores
<1>3. CASE ~Recorded(r)
  <2>1. UNCHANGED left
    BY <1>3 DEF Unmap
  <2>2. DueCount' = DueCount /\ \A s : Due(s)' = Due(s)
    BY <1>0, <2>1 DEF Due, DueCount
  <2>3. \A s \in 1 .. DueCount : Due(s).ipa # r.ipa
    <3>1. \A s \in 1 .. DueCount : s \in Slots /\ s <= g_map_count
      BY <1>0, <1>2, SlotsFacts, MemoryAssumption
    <3>2. QED
      BY <1>2, <1>3, <3>1 DEF Recorded, Holds
  <2>4. DueIsMapped'
    BY <1>0, <1>1, <2>2 DEF RecordInv, DueIsMapped, Backs
  <2>5. DueOnce'
    BY <1>0, <2>2 DEF RecordInv, DueOnce
  <2>6. MappedIsDue'
    BY <1>0, <1>1, <2>2 DEF RecordInv, MappedIsDue
  <2>7. CallDue'
    BY <1>0, <1>1, <2>2, <2>3 DEF CallDue
  <2>8. QED
    BY <2>4, <2>5, <2>6, <2>7 DEF RecordInv
<1>4. CASE Recorded(r)
  <2> DEFINE F == FirstSlot(r)
             N == g_map_count
             From(s) == IF s = F THEN N ELSE s
  <2>1. F \in Slots /\ F <= N /\ g_maps[F].ipa = r.ipa
    BY <1>0, <1>4, FirstSlotHolds
  <2>2. /\ left' = [count |-> N - 1, slot |-> F, rec |-> g_maps[N], todo |-> {"count", "slot"}]
        /\ pc' = "store"
    BY <1>4 DEF Unmap, Begin
  <2>3. DueCount' = N - 1 /\ \A s : Due(s)' = g_maps[From(s)]
    BY <1>0, <2>2 DEF Due, DueCount
  <2> HIDE DEF F
  <2>4. N \in Nat /\ F \in 1 .. N /\ \A s \in 1 .. N - 1 : s \in 1 .. N /\ From(s) \in 1 .. N /\ From(s) # F
    BY <1>0, <2>1, MemoryAssumption DEF TypeOK, Slots
  <2>5. \A s, t \in 1 .. N - 1 : From(s) = From(t) => s = t
    BY <2>4
  <2>6. \A t \in 1 .. N : t # F => t = N \/ t \in 1 .. N - 1
    BY <2>4
  <2>7. \A t \in 1 .. N : t # F => \E s \in 1 .. N - 1 : From(s) = t
    <3>1. SUFFICES ASSUME NEW t \in 1 .. N, t # F PROVE \E s \in 1 .. N - 1 : From(s) = t
      OBVIOUS
    <3>2. CASE t = N
      <4>1. F \in 1 .. N - 1
        BY <2>4, <3>1, <3>2
      <4>2. QED
        BY <3>2, <4>1
    <3>3. CASE t # N
      BY <2>6, <3>1, <3>3
    <3>4. QED
      BY <3>2, <3>3
  <2> HIDE DEF From
  <2>8. \A t \in 1 .. N : g_maps[t].ipa = r.ipa => t = F
    BY <1>0, <1>2, <2>1, <2>4 DEF RecordInv, DueOnce
  <2>9. DueIsMapped'
    <3>1. SUFFICES ASSUME NEW s \in 1 .. N - 1
                   PROVE  \E q \in Regions, b \in Buffers : Due(s)' = Rec(b, q) /\ Backs(b, q)'
      BY <2>3 DEF DueIsMapped
    <3>2. From(s) \in 1 .. DueCount
      BY <1>2, <2>4
    <3>3. PICK q \in Regions, b \in Buffers : Due(From(s)) = Rec(b, q) /\ Backs(b, q)
      BY <1>0, <3>2 DEF RecordInv, DueIsMapped
    <3>4. Backs(b, q)'
      BY <1>0, <3>3 DEF Backs
    <3>5. QED
      BY <1>2, <2>3, <3>3, <3>4
  <2>10. DueOnce'
    <3>1. SUFFICES ASSUME NEW s \in 1 .. N - 1, NEW t \in 1 .. N - 1, Due(s)'.ipa = Due(t)'.ipa
                   PROVE  s = t
      BY <2>3 DEF DueOnce
    <3>2. From(s) \in 1 .. DueCount /\ From(t) \in 1 .. DueCount
      BY <1>2, <2>4
    <3>3. Due(From(s)).ipa = Due(From(t)).ipa
      BY <1>2, <2>3, <3>1
    <3>4. From(s) = From(t)
      BY <1>0, <3>2, <3>3 DEF RecordInv, DueOnce
    <3>5. QED
      BY <2>5, <3>4
  <2>11. MappedIsDue'
    <3>1. SUFFICES ASSUME NEW q \in Regions, q \notin excused, kmap[Main][q] # None, q # r
                   PROVE  \E s \in 1 .. N - 1 : Due(s)'.ipa = q.ipa
      BY <1>0, <1>1, <2>3 DEF MappedIsDue
    <3>2. PICK t \in 1 .. N : g_maps[t].ipa = q.ipa
      BY <1>0, <1>2, <3>1 DEF RecordInv, MappedIsDue
    <3>3. t # F
      BY <2>1, <3>1, <3>2, RegionFacts
    <3>4. PICK s \in 1 .. N - 1 : From(s) = t
      BY <2>7, <3>3
    <3>5. QED
      BY <2>3, <3>2, <3>4
  <2>12. CallDue'
    <3>1. \A s \in 1 .. N - 1 : Due(s)'.ipa # r.ipa
      BY <2>3, <2>4, <2>8
    <3>2. QED
      BY <1>0, <1>1, <2>3, <3>1 DEF CallDue
  <2>13. QED
    BY <2>9, <2>10, <2>11, <2>12 DEF RecordInv
<1>5. QED
  BY <1>3, <1>4

\* The trap of the main space makes, unmakes or protects the region.
LEMMA MainTrapRecord ==
  ASSUME MemInv, TrapDone, space = Main
  PROVE  RecordInv'
<1> USE DEF kernel, table, reader
<1>0. /\ TypeOK /\ CallInv /\ RecordInv /\ pc = "trap" /\ call.r \in Regions
      /\ UNCHANGED <<g_maps, g_map_count, left>> /\ Main \in Spaces /\ NumNested \in Nat
  BY MemoryAssumption DEF MemInv, TrapDone, TypeOK, Calls, Main, Spaces
<1>1. DueCount' = DueCount /\ \A s : Due(s)' = Due(s)
  BY <1>0 DEF Due, DueCount
<1>2. /\ kmap'[Main][call.r] = After(Main)
      /\ \A q \in Regions : q # call.r => kmap'[Main][q] = kmap[Main][q]
  BY <1>0 DEF TrapDone, TypeOK
<1>3. NextSpace /\ excused' = IF call.kind = "unmap" THEN excused \ {call.r} ELSE excused
  BY DEF TrapDone
<1>4. ~Exchanging /\ ~Forgotten' /\ pc' # "store"
  <2>1. ~Exchanging
    BY <1>0 DEF Exchanging
  <2>2. pc' # "store" /\ (pc' \in {"store", "trap"} => space' = space + 1)
    BY <1>0, <1>3 DEF NextSpace, Return
  <2>3. space + 1 # Main
    BY DEF Main
  <2>4. QED
    BY <2>1, <2>2, <2>3 DEF Forgotten
<1>5. DueOnce'
  BY <1>0, <1>1 DEF RecordInv, DueOnce
<1>6. \A s \in 1 .. DueCount : \E r \in Regions, b \in Buffers :
        Due(s) = Rec(b, r) /\ b \in Buffers /\ kmap[Main][r].uva = b /\ Due(s).ipa = r.ipa
  BY <1>0, <1>4, RecordOf DEF Backs
<1>7. CASE call.kind = "map"
  <2>1. Exchanging' /\ call' = call /\ excused' = excused
    <3>1. call' = call /\ (pc' = "remember" \/ space' = space + 1)
      BY <1>0, <1>3, <1>7 DEF NextSpace
    <3>2. space + 1 # Main
      BY DEF Main
    <3>3. excused' = excused
      BY <1>3, <1>7
    <3>4. QED
      BY <1>4, <1>7, <3>1, <3>2, <3>3 DEF Exchanging
  <2>2. DueIsMapped'
    BY <1>1, <1>2, <1>6, <2>1 DEF DueIsMapped, Backs
  <2>3. MappedIsDue'
    BY <1>0, <1>1, <1>2, <1>4, <1>7, <2>1 DEF RecordInv, MappedIsDue, Forgotten
  <2>4. CallDue'
    BY <1>2, <1>4, <1>7, <2>1 DEF CallDue, After
  <2>5. QED
    BY <1>5, <2>2, <2>3, <2>4 DEF RecordInv
<1>8. CASE call.kind = "unmap"
  <2>1. Forgotten /\ ~Exchanging'
    BY <1>0, <1>3, <1>8, NoCallType DEF Forgotten, Exchanging, NextSpace, Return
  <2>2. \A s \in 1 .. DueCount : Due(s).ipa # call.r.ipa
    BY <1>0, <2>1 DEF RecordInv, CallDue
  <2>3. kmap'[Main][call.r] = None
    BY <1>0, <1>2, <1>8 DEF After, CallInv
  <2>4. DueIsMapped'
    BY <1>1, <1>2, <1>6, <2>2 DEF DueIsMapped, Backs
  <2>5. MappedIsDue'
    <3>1. SUFFICES ASSUME NEW q \in Regions, q \notin excused', kmap'[Main][q] # None
                   PROVE  \E s \in 1 .. DueCount' : Due(s)'.ipa = q.ipa
      BY DEF MappedIsDue
    <3>2. q # call.r /\ kmap[Main][q] # None /\ q \notin excused
      BY <1>2, <1>3, <2>3, <3>1
    <3>3. QED
      BY <1>0, <1>1, <3>2 DEF RecordInv, MappedIsDue
  <2>6. CallDue'
    BY <1>4, <2>1 DEF CallDue
  <2>7. QED
    BY <1>5, <2>4, <2>5, <2>6 DEF RecordInv
<1>9. CASE call.kind = "protect"
  <2>1. ~Exchanging' /\ ~Forgotten /\ excused' = excused
    <3>1. ~Exchanging'
      BY <1>0, <1>3, <1>9, NoCallType DEF Exchanging, NextSpace, Return
    <3>2. QED
      BY <1>3, <1>9, <3>1 DEF Forgotten
  <2>2. \A q \in Regions : kmap'[Main][q].uva = kmap[Main][q].uva /\ (kmap'[Main][q] = None <=> kmap[Main][q] = None)
    <3>1. /\ kmap'[Main][call.r].uva = kmap[Main][call.r].uva
          /\ kmap'[Main][call.r] = None <=> kmap[Main][call.r] = None
      <4>1. kmap[Main][call.r] \in Mapping \union {None} /\ call.to.flags \in Flags
        BY <1>0, <1>9 DEF TypeOK, CallInv, Mapping
      <4>2. CASE kmap[Main][call.r] = None
        BY <1>2, <1>9, <4>2 DEF After
      <4>3. CASE kmap[Main][call.r] # None
        BY <1>2, <1>9, <4>1, <4>3, MappingFacts DEF After
      <4>4. QED
        BY <4>2, <4>3
    <3>2. QED
      BY <1>2, <3>1
  <2>3. DueIsMapped'
    BY <1>1, <1>6, <2>2 DEF DueIsMapped, Backs
  <2>4. MappedIsDue'
    BY <1>0, <1>1, <1>4, <2>1, <2>2 DEF RecordInv, MappedIsDue
  <2>5. CallDue'
    BY <1>4, <2>1 DEF CallDue
  <2>6. QED
    BY <1>5, <2>3, <2>4, <2>5 DEF RecordInv
<1>10. QED
  BY <1>0, <1>7, <1>8, <1>9 DEF TypeOK, Calls

\* The traps of the nested spaces, carried out or refused, do not touch it.
LEMMA NestedTrapRecord ==
  ASSUME MemInv, pc = "trap", space # Main, NextSpace, kmap'[Main] = kmap[Main],
         excused' = excused, UNCHANGED <<g_maps, g_map_count, left>>
  PROVE  RecordInv'
<1>0. TypeOK /\ CallInv /\ RecordInv
  BY DEF MemInv
<1>1. DueCount' = DueCount /\ \A s : Due(s)' = Due(s)
  BY DEF Due, DueCount
<1>2. ~Forgotten /\ pc' # "store"
  BY DEF Forgotten, NextSpace, Return
<1>3. pc' = "trap" => space' = space + 1 /\ call' = call /\ space' # Main
  <2>1. space \in Nat
    BY <1>0, MemoryAssumption DEF TypeOK, Spaces, Main
  <2>2. space + 1 # Main
    BY <2>1 DEF Main
  <2>3. QED
    BY <2>2 DEF NextSpace, Return
<1>4. ~Forgotten'
  BY <1>2, <1>3 DEF Forgotten
<1>5. Exchanging' <=> Exchanging
  BY <1>2, <1>3, NoCallType DEF Exchanging, NextSpace, Return
<1>6. Exchanging => call' = call
  BY DEF Exchanging, NextSpace
<1>7. QED
  BY <1>0, <1>1, <1>2, <1>4, <1>5, <1>6, RecordKept

LEMMA RefusedRecord ==
  ASSUME MemInv, TrapRefused, space = Main
  PROVE  RecordInv'
<1> USE DEF kernel, table, reader
<1>0. /\ TypeOK /\ CallInv /\ RecordInv /\ pc = "trap" /\ Return
      /\ UNCHANGED <<kmap, g_maps, g_map_count, left>>
  BY DEF MemInv, TrapRefused
<1>1. DueCount' = DueCount /\ \A s : Due(s)' = Due(s)
  BY <1>0 DEF Due, DueCount
<1>2. ~Exchanging /\ ~Exchanging' /\ ~Forgotten' /\ pc' # "store"
  BY <1>0, NoCallType DEF Exchanging, Forgotten, Return
<1>3. DueIsMapped'
  BY <1>0, <1>1, <1>2 DEF RecordInv, DueIsMapped, Backs
<1>4. DueOnce'
  BY <1>0, <1>1 DEF RecordInv, DueOnce
<1>5. MappedIsDue'
  <2>1. SUFFICES ASSUME NEW q \in Regions, q \notin excused', kmap[Main][q] # None
                 PROVE  \E s \in 1 .. DueCount : Due(s).ipa = q.ipa
    BY <1>0, <1>1 DEF MappedIsDue
  <2>2. excused \subseteq excused' /\ (Forgotten => q # call.r)
    BY <2>1 DEF TrapRefused, Forgotten
  <2>3. QED
    BY <1>0, <1>2, <2>1, <2>2 DEF RecordInv, MappedIsDue
<1>6. CallDue'
  BY <1>2 DEF CallDue
<1>7. QED
  BY <1>3, <1>4, <1>5, <1>6 DEF RecordInv

\* map_remember: the region's record is replaced, added, or left out.
LEMMA RememberRecord ==
  ASSUME MemInv, Remember
  PROVE  RecordInv'
<1> DEFINE r == call.r
           b == call.to.uva
           N == g_map_count
<1> USE DEF kernel, table, reader
<1>0. /\ TypeOK /\ CallInv /\ RecordInv /\ pc = "remember" /\ call.kind = "map"
      /\ UNCHANGED <<kmap, g_maps, g_map_count>>
  BY DEF MemInv, Remember, CallInv
<1>1. r \in Regions /\ b \in Buffers
  BY <1>0, MappingFacts DEF TypeOK, CallInv, Calls
<1>2. Exchanging /\ ~Forgotten /\ kmap[Main][r].uva = b
  BY <1>0 DEF Exchanging, Forgotten, RecordInv, CallDue
<1>3. DueCount = N /\ (\A s : Due(s) = g_maps[s]) /\ left.todo = {}
  BY <1>0, DueOutsideStores
<1>4. N \in Nat /\ (\A s \in 1 .. N : s \in Slots)
  BY <1>0, SlotsFacts, MemoryAssumption
<1>5. \A s \in 1 .. N : g_maps[s].ipa # r.ipa =>
        \E q \in Regions, c \in Buffers : g_maps[s] = Rec(c, q) /\ kmap[Main][q].uva = c
  <2>1. SUFFICES ASSUME NEW s \in 1 .. N, g_maps[s].ipa # r.ipa
                 PROVE  \E q \in Regions, c \in Buffers : g_maps[s] = Rec(c, q) /\ kmap[Main][q].uva = c
    OBVIOUS
  <2>2. PICK q \in Regions, c \in Buffers : Due(s) = Rec(c, q) /\ Backs(c, q) /\ Due(s).ipa = q.ipa
    BY <1>0, <1>3, <2>1, RecordOf
  <2>3. QED
    BY <1>3, <2>1, <2>2 DEF Backs
<1>6. \A q \in Regions : q # r /\ q \notin excused /\ kmap[Main][q] # None =>
        \E s \in 1 .. N : g_maps[s].ipa = q.ipa
  BY <1>0, <1>3 DEF RecordInv, MappedIsDue
<1>7. Rec(b, r).ipa = r.ipa
  BY <1>1, RecType
<1>8. \A s, t \in 1 .. N : g_maps[s].ipa = g_maps[t].ipa => s = t
  BY <1>0, <1>3 DEF RecordInv, DueOnce
<1>9. \A q \in Regions : q.ipa = r.ipa => q = r
  BY <1>1, RegionFacts
<1>10. Recorded(r) \/ (\A s \in 1 .. N : g_maps[s].ipa # r.ipa)
  BY <1>4 DEF Recorded, Holds
<1>11. CASE pc' = "store"
  <2>1. UNCHANGED <<call, space, excused>>
    BY <1>11 DEF Remember, Return
  <2>2. ~Exchanging' /\ ~Forgotten'
    BY <1>0, <1>11, <2>1 DEF Exchanging, Forgotten
  <2>3. PICK M \in Nat, F \in Nat :
          /\ F \in 1 .. M /\ (F \in 1 .. N => g_maps[F].ipa = r.ipa)
          /\ M >= N /\ DueCount' = M /\ (\A s : Due(s)' = IF s = F THEN Rec(b, r) ELSE g_maps[s])
          /\ \A s \in 1 .. M : s # F => s \in 1 .. N /\ g_maps[s].ipa # r.ipa
    <3>1. CASE Recorded(r)
      <4>1. left' = [count |-> N, slot |-> FirstSlot(r), rec |-> Rec(b, r), todo |-> {"slot"}]
        BY <1>11, <3>1 DEF Remember, Begin
      <4>2. DueCount' = N /\ \A s : Due(s)' = IF s = FirstSlot(r) THEN Rec(b, r) ELSE g_maps[s]
        BY <1>0, <4>1 DEF Due, DueCount
      <4>3. FirstSlot(r) \in Slots /\ FirstSlot(r) <= N /\ g_maps[FirstSlot(r)].ipa = r.ipa
        BY <1>0, <1>1, <3>1, FirstSlotHolds
      <4>4. FirstSlot(r) \in 1 .. N
        BY <1>4, <4>3, MemoryAssumption DEF Slots
      <4>5. \A s \in 1 .. N : s # FirstSlot(r) => g_maps[s].ipa # r.ipa
        BY <1>8, <4>3, <4>4
      <4>6. N >= N
        BY <1>4
      <4>7. QED
        BY <1>4, <4>2, <4>3, <4>4, <4>5, <4>6
    <3>2. CASE ~Recorded(r)
      <4>1. left' = [count |-> N + 1, slot |-> N + 1, rec |-> Rec(b, r), todo |-> {"count", "slot"}]
        BY <1>11, <3>2 DEF Remember, Begin, Return
      <4>2. DueCount' = N + 1 /\ \A s : Due(s)' = IF s = N + 1 THEN Rec(b, r) ELSE g_maps[s]
        BY <1>0, <4>1 DEF Due, DueCount
      <4>3. N + 1 \in Nat /\ N + 1 \notin 1 .. N /\ N + 1 \in 1 .. N + 1 /\ N + 1 >= N /\ \A s \in 1 .. N + 1 : s # N + 1 => s \in 1 .. N
        BY <1>4
      <4>4. QED
        BY <1>10, <3>2, <4>2, <4>3
    <3>3. QED
      BY <3>1, <3>2
  <2>4. DueIsMapped'
    <3>1. SUFFICES ASSUME NEW s \in 1 .. M
                   PROVE  \E q \in Regions, c \in Buffers : Due(s)' = Rec(c, q) /\ Backs(c, q)'
      BY <2>3 DEF DueIsMapped
    <3>2. CASE s = F
      <4>1. Due(s)' = Rec(b, r) /\ Backs(b, r)'
        BY <1>0, <1>1, <1>2, <2>1, <2>3, <3>2 DEF Backs
      <4>2. QED
        BY <1>1, <2>1, <4>1
    <3>3. CASE s # F
      <4>1. PICK q \in Regions, c \in Buffers : g_maps[s] = Rec(c, q) /\ kmap[Main][q].uva = c
        BY <1>5, <2>3, <3>3
      <4>2. Due(s)' = Rec(c, q) /\ Backs(c, q)'
        BY <1>0, <2>3, <3>3, <4>1 DEF Backs
      <4>3. QED
        BY <4>2
    <3>4. QED
      BY <3>2, <3>3
  <2>5. DueOnce'
    BY <1>7, <1>8, <2>3 DEF DueOnce
  <2>6. \E s \in 1 .. M : Due(s)'.ipa = r.ipa
    BY <1>7, <2>3
  <2>7. MappedIsDue'
    <3>1. SUFFICES ASSUME NEW q \in Regions, q \notin excused, kmap[Main][q] # None, q # r
                   PROVE  \E s \in 1 .. M : Due(s)'.ipa = q.ipa
      BY <1>0, <2>1, <2>3, <2>6 DEF MappedIsDue
    <3>2. PICK s \in 1 .. N : g_maps[s].ipa = q.ipa
      BY <1>6, <3>1
    <3>3. s \in 1 .. M
      BY <1>4, <2>3, <3>2
    <3>4. CASE s # F
      BY <2>3, <3>2, <3>3, <3>4
    <3>5. CASE s = F
      BY <1>9, <2>3, <2>6, <3>1, <3>2, <3>5
    <3>6. QED
      BY <3>4, <3>5
  <2>8. CallDue'
    BY <2>1, <2>2, <2>3, <2>6 DEF CallDue
  <2>9. QED
    BY <2>4, <2>5, <2>7, <2>8 DEF RecordInv
<1>12. CASE pc' # "store"
  <2>1. ~Recorded(r) /\ excused' = excused \union {r} /\ Return /\ UNCHANGED left
    BY <1>12 DEF Remember
  <2>2. ~Exchanging' /\ ~Forgotten' /\ DueCount' = N /\ (\A s : Due(s)' = g_maps[s])
    BY <1>0, <1>3, <2>1, NoCallType DEF Exchanging, Forgotten, Return, Due, DueCount
  <2>3. \A s \in 1 .. N : g_maps[s].ipa # r.ipa
    BY <1>10, <2>1
  <2>4. DueIsMapped'
    BY <1>0, <1>5, <2>2, <2>3 DEF DueIsMapped, Backs
  <2>5. DueOnce'
    BY <1>8, <2>2 DEF DueOnce
  <2>6. MappedIsDue'
    BY <1>0, <1>6, <2>1, <2>2 DEF MappedIsDue
  <2>7. CallDue'
    BY <1>12, <2>2 DEF CallDue
  <2>8. QED
    BY <2>4, <2>5, <2>6, <2>7 DEF RecordInv
<1>13. QED
  BY <1>11, <1>12

\* The stores make the record what was due, in either order.
LEMMA StoreRecord ==
  ASSUME MemInv, NEW what \in {"count", "slot"}, Store(what)
  PROVE  RecordInv'
<1> USE DEF kernel, table, reader
<1>0. /\ TypeOK /\ CallInv /\ RecordInv /\ pc = "store" /\ what \in left.todo
      /\ UNCHANGED kmap /\ left.slot \in Slots /\ left \in Stores /\ call.kind # "protect"
  BY DEF MemInv, Store, TypeOK, CallInv
<1>1. DueCount' = DueCount /\ \A s \in 1 .. DueCount : Due(s)' = Due(s)
  <2>1. \A s \in 1 .. DueCount : s \in Slots
    BY <1>0, SlotsFacts
  <2>2. left'.todo = left.todo \ {what} /\ (left'.todo # {} => left'.count = left.count /\ left'.slot = left.slot /\ left'.rec = left.rec)
    BY <1>0, NoStoreType DEF Store, Stores
  <2>3. DueCount' = DueCount
    BY <1>0, <2>2 DEF Store, DueCount
  <2>4. CASE what = "slot"
    <3>1. g_maps' = [g_maps EXCEPT ![left.slot] = left.rec] /\ "slot" \notin left'.todo
      BY <2>2, <2>4 DEF Store
    <3>2. \A s \in Slots : g_maps'[s] = IF s = left.slot THEN left.rec ELSE g_maps[s]
      BY <1>0, <3>1 DEF TypeOK
    <3>3. QED
      BY <1>0, <2>1, <2>3, <2>4, <3>1, <3>2 DEF Due
  <2>5. CASE what = "count"
    <3>1. g_maps' = g_maps /\ ("slot" \in left'.todo <=> "slot" \in left.todo)
      BY <2>2, <2>5 DEF Store
    <3>2. QED
      BY <2>2, <2>3, <3>1 DEF Due
  <2>6. QED
    BY <2>4, <2>5
<1>2. ~Exchanging /\ ~Exchanging'
  <2>1. ~Exchanging
    BY <1>0 DEF Exchanging
  <2>2. pc' = "store" \/ call'.kind # "map"
    BY <1>0, NoCallType DEF Store, Return
  <2>3. QED
    BY <2>1, <2>2 DEF Exchanging
<1>3. DueIsMapped'
  <2>1. SUFFICES ASSUME NEW s \in 1 .. DueCount
                 PROVE  \E q \in Regions, c \in Buffers : Due(s)' = Rec(c, q) /\ Backs(c, q)'
    BY <1>1 DEF DueIsMapped
  <2>2. PICK q \in Regions, c \in Buffers : Due(s) = Rec(c, q) /\ Backs(c, q)
    BY <1>0 DEF RecordInv, DueIsMapped
  <2>3. Due(s)' = Rec(c, q) /\ Backs(c, q)'
    BY <1>0, <1>1, <1>2, <2>2 DEF Backs
  <2>4. QED
    BY <2>3
<1>4. DueOnce'
  BY <1>0, <1>1 DEF RecordInv, DueOnce
<1>5. CASE call.kind = "map"
  <2>1. PICK s \in 1 .. DueCount : Due(s).ipa = call.r.ipa
    BY <1>0, <1>5 DEF RecordInv, CallDue
  <2>2. ~Forgotten /\ ~Forgotten'
    BY <1>0, <1>5 DEF Store, Return, Forgotten
  <2>3. MappedIsDue'
    <3>1. SUFFICES ASSUME NEW q \in Regions, q \notin excused', kmap[Main][q] # None
                   PROVE  \E t \in 1 .. DueCount : Due(t).ipa = q.ipa
      BY <1>0, <1>1 DEF MappedIsDue
    <3>2. CASE q = call.r
      BY <2>1, <3>2
    <3>3. CASE q # call.r
      <4>1. q \notin excused
        BY <1>5, <3>1, <3>3 DEF Store
      <4>2. QED
        BY <1>0, <3>1, <3>3, <4>1 DEF RecordInv, MappedIsDue
    <3>4. QED
      BY <3>2, <3>3
  <2>4. CallDue'
    <3>1. pc' = "store" => call' = call
      BY <1>0 DEF Store, Return
    <3>2. QED
      BY <1>1, <1>2, <2>1, <2>2, <3>1 DEF CallDue
  <2>5. QED
    BY <1>3, <1>4, <2>3, <2>4 DEF RecordInv
<1>6. CASE call.kind = "unmap"
  <2>1. UNCHANGED <<call, space, excused>> /\ pc' \in {"store", "trap"}
    BY <1>0, <1>6 DEF Store
  <2>2. Forgotten /\ Forgotten'
    BY <1>0, <1>6, <2>1 DEF Forgotten, CallInv
  <2>3. MappedIsDue'
    BY <1>0, <1>1, <2>1, <2>2 DEF RecordInv, MappedIsDue
  <2>4. CallDue'
    BY <1>0, <1>1, <1>2, <1>6, <2>1, <2>2 DEF RecordInv, CallDue
  <2>5. QED
    BY <1>3, <1>4, <2>3, <2>4 DEF RecordInv
<1>7. QED
  BY <1>0, <1>5, <1>6 DEF TypeOK, Calls

LEMMA RecordNext ==
  ASSUME MemInv, [Next]_vars
  PROVE  RecordInv'
<1> USE DEF kernel, table, reader
<1>0. /\ TypeOK /\ CallInv /\ RecordInv /\ Main \in Spaces
      /\ pc = "idle" => ~Exchanging /\ ~Forgotten /\ space = Main
  BY NoCallType, MemoryAssumption DEF MemInv, CallInv, Exchanging, Forgotten, Spaces, Main
<1>1. ASSUME NEW r \in Regions, NEW b \in Buffers, Map(r, b) PROVE RecordInv'
  <2>1. ~Exchanging' /\ ~Forgotten' /\ pc' # "store"
    BY <1>0, <1>1 DEF Map, Exchanging, Forgotten
  <2>2. DueCount' = DueCount /\ \A s : Due(s)' = Due(s)
    BY <1>1 DEF Map, Due, DueCount
  <2>3. pc = "idle" /\ UNCHANGED <<kmap, excused>>
    BY <1>1 DEF Map
  <2>4. QED
    BY <1>0, <2>1, <2>2, <2>3, RecordKept
<1>2. ASSUME NEW r \in Regions, NEW f \in Flags, Protect(r, f) PROVE RecordInv'
  <2>1. ~Exchanging' /\ ~Forgotten' /\ pc' # "store"
    BY <1>2 DEF Protect, Exchanging, Forgotten
  <2>2. DueCount' = DueCount /\ \A s : Due(s)' = Due(s)
    BY <1>2 DEF Protect, Due, DueCount
  <2>3. pc = "idle" /\ UNCHANGED <<kmap, excused>>
    BY <1>2 DEF Protect
  <2>4. QED
    BY <1>0, <2>1, <2>2, <2>3, RecordKept
<1>3. ASSUME NEW s \in Spaces, NEW r \in Regions, NEW to \in Mapping \union {None}, SpaceOp(s, r, to)
      PROVE  RecordInv'
  <2>1. kmap'[Main] = kmap[Main] /\ UNCHANGED <<pc, call, space, excused>>
    BY <1>0, <1>3 DEF SpaceOp, TypeOK
  <2>2. DueCount' = DueCount /\ \A t : Due(t)' = Due(t)
    BY <1>3 DEF SpaceOp, Due, DueCount
  <2>3. (Exchanging' <=> Exchanging) /\ (Forgotten' <=> Forgotten)
    BY <2>1 DEF Exchanging, Forgotten
  <2>4. QED
    BY <1>0, <2>1, <2>2, <2>3, RecordKept
<1>4. CASE TrapDone
  <2>1. CASE space # Main
    <3>1. kmap'[Main] = kmap[Main] /\ excused' = excused /\ pc = "trap" /\ NextSpace
          /\ UNCHANGED <<g_maps, g_map_count, left>>
      BY <1>0, <1>4, <2>1 DEF TrapDone, TypeOK
    <3>2. QED
      BY <2>1, <3>1, NestedTrapRecord
  <2>2. QED
    BY <1>4, <2>1, MainTrapRecord
<1>5. CASE TrapRefused
  <2>1. CASE space # Main
    <3>1. kmap'[Main] = kmap[Main] /\ excused' = excused /\ pc = "trap" /\ NextSpace
          /\ UNCHANGED <<g_maps, g_map_count, left>>
      BY <1>0, <1>5, <2>1 DEF TrapRefused, TypeOK
    <3>2. QED
      BY <2>1, <3>1, NestedTrapRecord
  <2>2. QED
    BY <1>5, <2>1, RefusedRecord
<1>6. CASE Vcpu \/ UNCHANGED vars
  <2>1. UNCHANGED <<kmap, g_maps, g_map_count, left, pc, call, space, excused>>
    BY <1>6 DEF Vcpu, Scan, Lookup, vars
  <2>2. DueCount' = DueCount /\ \A t : Due(t)' = Due(t)
    BY <2>1 DEF Due, DueCount
  <2>3. (Exchanging' <=> Exchanging) /\ (Forgotten' <=> Forgotten)
    BY <2>1 DEF Exchanging, Forgotten
  <2>4. QED
    BY <1>0, <2>1, <2>2, <2>3, RecordKept
<1>7. QED
  BY <1>1, <1>2, <1>3, <1>4, <1>5, <1>6, UnmapRecord, RememberRecord, StoreRecord DEF Next, Vmm

-----------------------------------------------------------------------------
(* The nested spaces. *)

\* The loop over the nested spaces goes on: what it has done in this one, it has
\* done for good.
LEMMA NestedTrap ==
  ASSUME MemInv, pc = "trap", space # Main, NextSpace, TypeOK',
         \A s \in Spaces, r \in Regions :
           ~(s = space /\ r = call.r) => kmap'[s][r] = kmap[s][r] /\ (<<s, r>> \in skewed <=> <<s, r>> \in skewed'),
         <<space, call.r>> \notin skewed' => kmap'[space][call.r] = kmap[Main][call.r]
  PROVE  NestedInv'
<1>0. TypeOK /\ CallInv /\ NestedInv /\ call.r \in Regions
  BY DEF MemInv, TypeOK, Calls
<1>1. Main \in Spaces /\ space \in Nat /\ NumNested \in Nat /\ (\A s \in Spaces : s \in Nat /\ s <= NumNested)
  BY <1>0, MemoryAssumption DEF TypeOK, Spaces, Main
<1>2. \A r \in Regions : kmap'[Main][r] = kmap[Main][r]
  BY <1>1
<1>3. SUFFICES ASSUME NEW s \in Spaces, NEW r \in Regions, <<s, r>> \notin skewed'
               PROVE  IF r = call'.r /\ pc' = "trap" /\ space' # Main /\ s >= space'
                        THEN After(s)' = kmap'[Main][r]
                        ELSE kmap'[s][r] = kmap'[Main][r]
  BY DEF NestedInv
<1>4. CASE s = space /\ r = call.r
  <2>1. kmap'[s][r] = kmap'[Main][r]
    BY <1>2, <1>4, <1>3
  <2>2. ~(pc' = "trap" /\ s >= space')
    BY <1>1, <1>4 DEF NextSpace, Return
  <2>3. QED
    BY <2>1, <2>2
<1>5. CASE ~(s = space /\ r = call.r)
  <2>1. kmap'[s][r] = kmap[s][r] /\ <<s, r>> \notin skewed
    BY <1>3, <1>5
  <2>2. CASE r # call.r \/ ~(s >= space)
    <3>1. kmap[s][r] = kmap[Main][r]
      BY <1>0, <2>1, <2>2 DEF NestedInv
    <3>2. ~(r = call'.r /\ pc' = "trap" /\ space' # Main /\ s >= space')
      BY <1>1, <2>2 DEF NextSpace, Return
    <3>3. QED
      BY <1>2, <2>1, <3>1, <3>2
  <2>3. CASE r = call.r /\ s >= space
    <3>1. s >= space + 1 /\ space < NumNested
      BY <1>1, <1>5, <2>3
    <3>2. space' = space + 1 /\ pc' = "trap" /\ call' = call
      BY <3>1 DEF NextSpace
    <3>3. After(s) = kmap[Main][r]
      BY <1>0, <2>1, <2>3 DEF NestedInv
    <3>4. After(s)' = After(s)
      BY <2>1, <2>3, <3>2 DEF After
    <3>5. space' # Main /\ s >= space' /\ r = call'.r
      BY <1>1, <2>3, <3>1, <3>2 DEF Main
    <3>6. QED
      BY <1>2, <3>2, <3>3, <3>4, <3>5
  <2>4. QED
    BY <2>2, <2>3
<1>6. QED
  BY <1>4, <1>5

LEMMA NestedNext ==
  ASSUME MemInv, [Next]_vars
  PROVE  NestedInv'
<1> DEFINE Follow == \A s \in Spaces, r \in Regions : <<s, r>> \notin skewed => kmap[s][r] = kmap[Main][r]
<1> USE DEF kernel, table, reader
<1>0. /\ TypeOK /\ CallInv /\ NestedInv /\ TypeOK'
      /\ Main \in Spaces /\ call.r \in Regions
      /\ pc = "idle" => space = Main
  <2>1. TypeOK /\ CallInv /\ NestedInv /\ TypeOK'
    BY TypeNext DEF MemInv
  <2>2. Main \in Spaces
    BY MemoryAssumption DEF Spaces, Main
  <2>3. call.r \in Regions /\ (pc = "idle" => space = Main)
    BY <2>1 DEF TypeOK, CallInv, Calls
  <2>4. QED
    BY <2>1, <2>2, <2>3
<1>1. (pc # "trap" \/ space = Main) => Follow
  BY <1>0 DEF NestedInv
<1>2. Follow' /\ (pc' # "trap" \/ space' = Main) => NestedInv'
  BY DEF NestedInv
<1>3. ASSUME NEW s \in Spaces, NEW r \in Regions, NEW to \in Mapping \union {None}, SpaceOp(s, r, to)
      PROVE  NestedInv'
  <2>1. pc = "idle" /\ UNCHANGED pc /\ kmap' = [kmap EXCEPT ![s][r] = to]
        /\ skewed' = skewed \union {<<s, r>>} /\ s # Main
    BY <1>3 DEF SpaceOp
  <2>2. Follow'
    BY <1>0, <1>1, <2>1 DEF TypeOK
  <2>3. QED
    BY <1>2, <2>1, <2>2
<1>4. CASE TrapDone /\ space = Main
  <2>1. /\ kmap' = [kmap EXCEPT ![Main][call.r] = After(Main)] /\ NextSpace /\ pc = "trap"
        /\ \A s \in Spaces, r \in Regions : s # Main => (<<s, r>> \in skewed <=> <<s, r>> \in skewed')
    BY <1>4 DEF TrapDone
  <2>2. SUFFICES ASSUME NEW s \in Spaces, NEW r \in Regions, <<s, r>> \notin skewed'
                 PROVE  IF r = call'.r /\ pc' = "trap" /\ space' # Main /\ s >= space'
                          THEN After(s)' = kmap'[Main][r]
                          ELSE kmap'[s][r] = kmap'[Main][r]
    BY DEF NestedInv
  <2>3. Main < NumNested \/ Spaces = {Main}
    BY MemoryAssumption DEF Spaces, Main
  <2>4. CASE s = Main
    <3>1. ~(pc' = "trap" /\ space' # Main /\ s >= space')
      BY <1>4, <2>1, <2>4, MemoryAssumption DEF NextSpace, Return, Main
    <3>2. QED
      BY <2>4, <3>1
  <2>5. CASE s # Main
    <3>1. space' = 1 /\ pc' = "trap" /\ call' = call
      BY <1>4, <2>1, <2>3, <2>5 DEF NextSpace, Main
    <3>2. s >= space' /\ space' # Main
      BY <2>5, <3>1, MemoryAssumption DEF Spaces, Main
    <3>3. kmap'[s][r] = kmap[s][r] /\ kmap[s][r] = kmap[Main][r]
      BY <1>0, <1>1, <1>4, <2>1, <2>2, <2>5 DEF TypeOK
    <3>4. CASE r # call.r
      BY <1>0, <2>1, <3>1, <3>3, <3>4 DEF TypeOK
    <3>5. CASE r = call.r
      <4>1. kmap'[Main][r] = After(Main)
        BY <1>0, <2>1, <3>5 DEF TypeOK
      <4>2. After(s)' = After(Main)
        BY <3>1, <3>3, <3>5 DEF After
      <4>3. QED
        BY <3>1, <3>2, <3>5, <4>1, <4>2
    <3>6. QED
      BY <3>4, <3>5
  <2>6. QED
    BY <2>4, <2>5
<1>5. CASE TrapDone /\ space # Main
  <2>1. /\ pc = "trap" /\ NextSpace /\ kmap' = [kmap EXCEPT ![space][call.r] = After(space)]
        /\ skewed' = IF kmap'[space][call.r] = kmap'[Main][call.r]
                       THEN skewed \ {<<space, call.r>>} ELSE skewed
    BY <1>5 DEF TrapDone
  <2>2. \A s \in Spaces, r \in Regions :
          ~(s = space /\ r = call.r) => kmap'[s][r] = kmap[s][r] /\ (<<s, r>> \in skewed <=> <<s, r>> \in skewed')
    BY <1>0, <2>1 DEF TypeOK
  <2>3. kmap'[Main][call.r] = kmap[Main][call.r] /\ kmap'[space][call.r] = After(space)
    BY <1>0, <1>5, <2>1, <2>2 DEF TypeOK
  <2>4. <<space, call.r>> \notin skewed' => kmap'[space][call.r] = kmap[Main][call.r]
    <3>1. SUFFICES ASSUME <<space, call.r>> \notin skewed', <<space, call.r>> \notin skewed
                   PROVE  After(space) = kmap[Main][call.r]
      BY <2>1, <2>3
    <3>2. space \in Spaces /\ space >= space
      BY <1>0, MemoryAssumption DEF TypeOK, Spaces, Main
    <3>3. QED
      BY <1>0, <1>5, <2>1, <3>1, <3>2 DEF NestedInv
  <2>5. QED
    BY <1>0, <1>5, <2>1, <2>2, <2>4, NestedTrap
<1>6. CASE TrapRefused /\ space = Main
  BY <1>1, <1>2, <1>6 DEF TrapRefused, Return
<1>7. CASE TrapRefused /\ space # Main
  <2>1. pc = "trap" /\ NextSpace /\ UNCHANGED kmap /\ skewed' = skewed \union {<<space, call.r>>}
    BY <1>7 DEF TrapRefused
  <2>2. QED
    BY <1>0, <1>7, <2>1, NestedTrap
<1>8. CASE Remember
  BY <1>1, <1>2, <1>8 DEF Remember, Return
<1>9. ASSUME NEW what \in {"count", "slot"}, Store(what) PROVE NestedInv'
  <2>1. pc' # "trap" \/ space' = Main
    BY <1>0, <1>9 DEF Store, Return, CallInv, TypeOK, Calls
  <2>2. QED
    BY <1>1, <1>2, <1>9, <2>1 DEF Store
<1>10. ASSUME NEW r \in Regions, NEW b \in Buffers, Map(r, b) PROVE NestedInv'
  BY <1>0, <1>1, <1>2, <1>10 DEF Map
<1>11. ASSUME NEW r \in Regions, Unmap(r) PROVE NestedInv'
  BY <1>0, <1>1, <1>2, <1>11 DEF Unmap
<1>12. ASSUME NEW r \in Regions, NEW f \in Flags, Protect(r, f) PROVE NestedInv'
  BY <1>0, <1>1, <1>2, <1>12 DEF Protect
<1>13. CASE Vcpu \/ UNCHANGED vars
  <2>1. UNCHANGED <<kmap, skewed, pc, call, space>>
    BY <1>13 DEF Vcpu, Scan, Lookup, vars
  <2>2. QED
    BY <1>0, <2>1 DEF NestedInv, After
<1>14. QED
  BY <1>3, <1>4, <1>5, <1>6, <1>7, <1>8, <1>9, <1>10, <1>11, <1>12, <1>13 DEF Next, Vmm

-----------------------------------------------------------------------------
(* The invariant. *)

LEMMA InitInv == Init => MemInv
<1>1. SUFFICES ASSUME Init PROVE MemInv
  OBVIOUS
<1> USE <1>1
<1>2. Main \in Spaces /\ 0 \in 0 .. MaxMaps /\ 1 \in 1 .. MaxMaps + 1 /\ 0 \in 0 .. MaxFaults
  BY MemoryAssumption DEF Spaces, Main
<1>3. kmap \in [Spaces -> [Regions -> Mapping \union {None}]]
  BY DEF Init
<1>4. g_maps \in [Slots -> Records]
  BY NoStoreType DEF Init
<1>5. reading \in BOOLEAN /\ disturbed \in BOOLEAN
  BY DEF Init
<1>6. TypeOK
  BY <1>2, <1>3, <1>4, <1>5, NoCallType, NoStoreType DEF Init, TypeOK
<1>7. CallInv
  BY NoCallType, NoStoreType DEF Init, CallInv
<1>8. left.todo = {} /\ pc = "idle" /\ DueCount = 0 /\ ~Exchanging /\ ~Forgotten
  BY NoStoreType DEF Init, DueCount, Exchanging, Forgotten
<1>9. \A s \in 1 .. 0 : FALSE
  OBVIOUS
<1>10. \A r \in Regions : kmap[Main][r] = None
  BY <1>2 DEF Init
<1>11. RecordInv
  BY <1>8, <1>9, <1>10 DEF RecordInv, DueIsMapped, DueOnce, MappedIsDue, CallDue
<1>12. NestedInv
  BY <1>2 DEF Init, NestedInv
<1>13. QED
  BY <1>6, <1>7, <1>11, <1>12 DEF MemInv

\* The invariant holds at every step of every call.
THEOREM MemoryInvariant == Spec => []MemInv
<1>1. MemInv /\ [Next]_vars => MemInv'
  BY TypeNext, RecordNext, NestedNext DEF MemInv
<1>2. QED
  BY <1>1, InitInv, PTL DEF Spec

\* The types are kept: the count never exceeds the table, and the slot that a
\* store is made to is one of the table's.
THEOREM MemoryTypeCorrect == Spec => []TypeOK
<1>1. MemInv => TypeOK
  BY DEF MemInv
<1>2. QED
  BY <1>1, MemoryInvariant, PTL

LEMMA RecordIsMapped == MemInv => RecordedIsMapped
<1>1. SUFFICES ASSUME MemInv, ~Updating, NEW s \in 1 .. g_map_count
               PROVE  \E r \in Regions : Names(g_maps[s], r)
  BY DEF RecordedIsMapped
<1>2. left.todo = {} /\ TypeOK /\ RecordInv
  BY <1>1 DEF Updating, MemInv
<1>3. DueCount = g_map_count /\ Due(s) = g_maps[s]
  BY <1>2 DEF Due, DueCount
<1>4. PICK r \in Regions, b \in Buffers : Due(s) = Rec(b, r) /\ Backs(b, r) /\ Due(s).ipa = r.ipa
  BY <1>2, <1>3, RecordOf
<1>5. s \in Slots /\ s <= g_map_count
  BY <1>2, SlotsFacts, MemoryAssumption
<1>6. r = call.r => ~Exchanging
  BY <1>1, <1>3, <1>4, <1>5 DEF Exchanging, Updating, Recorded, Holds
<1>7. kmap[Main][r].uva = b
  BY <1>4, <1>6 DEF Backs
<1>8. QED
  BY <1>3, <1>4, <1>7 DEF Names

\* Whenever the record is not being changed, every entry of g_maps[0 .. g_map_count)
\* is of memory the guest has at that address.
THEOREM RecordAlwaysMapped == Spec => []RecordedIsMapped
  BY RecordIsMapped, MemoryInvariant, PTL

\* After hv_vm_map, hv_vm_unmap or hv_vm_protect returns, all the guest's memory
\* is in the record, but for what found the table full or could not be unmapped.
THEOREM MappedAlwaysRecorded == Spec => []MappedIsRecorded
<1>1. MemInv => MappedIsRecorded
  <2>1. SUFFICES ASSUME MemInv, pc = "idle", NEW r \in Regions, r \notin excused, kmap[Main][r] # None
                 PROVE  Recorded(r)
    BY DEF MappedIsRecorded
  <2>2. ~Exchanging /\ ~Forgotten /\ TypeOK
    BY <2>1, NoCallType DEF MemInv, CallInv, Exchanging, Forgotten
  <2>3. PICK s \in 1 .. g_map_count : g_maps[s].ipa = r.ipa
    BY <2>1, <2>2, DueOutsideStores DEF MemInv, RecordInv, MappedIsDue
  <2>4. s \in Slots /\ s <= g_map_count
    BY <2>2, SlotsFacts, MemoryAssumption
  <2>5. QED
    BY <2>3, <2>4 DEF Recorded, Holds
<1>2. QED
  BY <1>1, MemoryInvariant, PTL

\* Between calls every nested space has the guest's memory, where no copy was
\* refused and the VMM changed nothing itself: map_op misses no space.
THEOREM NestedAlwaysFollow == Spec => []NestedFollowMain
<1>1. MemInv => NestedFollowMain
  BY DEF MemInv, NestedInv, NestedFollowMain
<1>2. QED
  BY <1>1, MemoryInvariant, PTL

-----------------------------------------------------------------------------
(* The lookup. *)

LEMMA ScanNext ==
  ASSUME TypeOK, ScanInv, [Next]_vars
  PROVE  ScanInv'
<1> USE DEF kernel, table, reader
<1>1. CASE Vmm /\ disturbed' = (reading /\ (disturbed \/ Updating'))
  <2>1. UNCHANGED <<reading, query, i>>
    BY <1>1 DEF Vmm, Map, Unmap, Protect, SpaceOp, TrapDone, TrapRefused, Remember, Store
  <2>2. UNCHANGED <<g_maps, g_map_count>> \/ Updating
    BY <1>1 DEF Vmm, Map, Unmap, Protect, SpaceOp, TrapDone, TrapRefused, Remember, Store, Updating
  <2>3. SUFFICES ASSUME reading
                 PROVE  /\ Updating' => disturbed'
                        /\ ~disturbed' => \A s \in 1 .. i - 1 : s <= g_map_count' => ~Contains(g_maps[s], query)'
    BY <2>1 DEF ScanInv
  <2>4. (disturbed' <=> disturbed \/ Updating') /\ (Updating => disturbed)
    BY <1>1, <2>3 DEF ScanInv
  <2>5. ~disturbed => \A s \in 1 .. i - 1 : s <= g_map_count => ~Contains(g_maps[s], query)
    BY <2>3 DEF ScanInv
  <2>6. QED
    BY <2>1, <2>2, <2>4, <2>5 DEF Contains
<1>2. CASE Vcpu /\ disturbed' = (reading' /\ (disturbed \/ Updating))
  <2>1. UNCHANGED <<g_maps, g_map_count, left, call, pc, space>>
    BY <1>2 DEF Vcpu, Scan, Lookup
  <2>2. Updating' <=> Updating
    BY <2>1 DEF Updating, Recorded, Holds
  <2>3. ASSUME NEW q \in Queries, Lookup(q) PROVE ScanInv'
    <3>1. reading' /\ i' = 1
      BY <2>3 DEF Lookup
    <3>2. disturbed' <=> disturbed \/ Updating
      BY <1>2, <3>1
    <3>3. \A s \in 1 .. i' - 1 : FALSE
      BY <3>1
    <3>4. QED
      BY <2>2, <3>2, <3>3 DEF ScanInv
  <2>4. CASE Scan /\ Ends
    BY <2>4 DEF Scan, ScanInv
  <2>5. CASE Scan /\ ~Ends
    <3>1. reading /\ reading' /\ i' = i + 1 /\ query' = query /\ i <= g_map_count /\ ~Contains(g_maps[i], query)
      BY <2>5 DEF Scan, Ends, Found, More
    <3>2. disturbed' <=> disturbed \/ Updating
      BY <1>2, <3>1
    <3>3. ASSUME ~disturbed', NEW s \in 1 .. i' - 1, s <= g_map_count PROVE ~Contains(g_maps[s], query)
      <4>1. i \in Nat /\ i' - 1 = i /\ (s = i \/ s \in 1 .. i - 1)
        BY <3>1, <3>3, MemoryAssumption DEF TypeOK
      <4>2. QED
        BY <3>1, <3>2, <3>3, <4>1 DEF ScanInv
    <3>4. ASSUME ~disturbed', NEW s \in 1 .. i' - 1, s <= g_map_count' PROVE ~Contains(g_maps[s], query)'
      BY <2>1, <3>1, <3>3, <3>4 DEF Contains
    <3>5. QED
      BY <2>2, <3>2, <3>4 DEF ScanInv
  <2>6. QED
    BY <1>2, <2>3, <2>4, <2>5 DEF Vcpu
<1>3. CASE UNCHANGED vars
  BY <1>3 DEF vars, ScanInv, Updating, Recorded, Holds, Contains
<1>4. QED
  BY <1>1, <1>2, <1>3 DEF Next

LEMMA ModBelow ==
  ASSUME NEW a \in Nat, NEW w \in Nat, a < w
  PROVE  a % w = a
  OBVIOUS

\* Where nothing wraps, a record contains the range if and only if its region does.
LEMMA ContainsIsInside ==
  ASSUME TypeOK, query.ipa + query.len < Word, NEW r \in Regions, NEW b
  PROVE  Contains(Rec(b, r), query) <=> Inside(query, r)
<1>1. query.ipa \in Nat /\ query.len \in Nat
  BY MemoryAssumption DEF TypeOK, NoQuery
<1>2. Rec(b, r).ipa = r.ipa /\ Rec(b, r).size = r.size
  BY DEF Rec
<1>3. r.ipa \in Nat /\ r.size \in Nat /\ r.ipa + r.size < Word /\ Word \in Nat
  BY RegionFacts, MemoryAssumption DEF End
<1>4. (query.ipa + query.len) % Word = query.ipa + query.len /\ (r.ipa + r.size) % Word = r.ipa + r.size
  BY <1>1, <1>3, ModBelow
<1>5. QED
  BY <1>1, <1>2, <1>3, <1>4 DEF Contains, Inside, End

\* ohv_guest_ptr takes no lock; still, a lookup that meets no change of the record
\* answers with the host memory behind the address, whatever traps overlap it.
THEOREM LookupRight == Spec => QuietLookupRight
<1>1. Init => ScanInv
  BY DEF Init, ScanInv
<1>2. MemInv /\ ScanInv /\ [Next]_vars => ScanInv'
  BY ScanNext DEF MemInv
<1>3. MemInv /\ ScanInv =>
        (Ends /\ ~reading' /\ ~disturbed /\ ~Updating /\ query.ipa + query.len < Word
           => Right(query, Result))
  <2>1. SUFFICES ASSUME MemInv, ScanInv, Ends, ~disturbed, ~Updating, query.ipa + query.len < Word
                 PROVE  Right(query, Result)
    OBVIOUS
  <2>2. TypeOK /\ reading /\ \A s \in 1 .. g_map_count : \E r \in Regions : Names(g_maps[s], r)
    BY <2>1, RecordIsMapped DEF MemInv, Ends, RecordedIsMapped
  <2>3. i \in Nat /\ i >= 1 /\ g_map_count \in Nat
    BY <2>2, MemoryAssumption DEF TypeOK
  <2>4. CASE Found
    <3>1. i \in 1 .. g_map_count /\ Contains(g_maps[i], query) /\ Result = Answer(g_maps[i], query)
      BY <2>3, <2>4 DEF Found, More, Result
    <3>2. PICK r \in Regions, b \in Buffers : Due(i) = Rec(b, r) /\ Due(i).ipa = r.ipa /\ Backs(b, r)
      <4>1. left.todo = {} /\ RecordInv
        BY <2>1 DEF Updating, MemInv
      <4>2. i \in 1 .. DueCount
        BY <3>1, <4>1 DEF DueCount
      <4>3. QED
        BY <4>1, <4>2, RecordOf
    <3>3. g_maps[i] = Rec(b, r)
      BY <2>1, <3>2 DEF Due, Updating
    <3>4. PICK q \in Regions : Names(g_maps[i], q)
      BY <2>2, <3>1
    <3>5. g_maps[i].uva = b /\ g_maps[i].ipa = r.ipa /\ g_maps[i].uva = kmap[Main][q].uva /\ g_maps[i].ipa = q.ipa
      BY <3>3, <3>4 DEF Names, Rec
    <3>6. q = r /\ kmap[Main][r].uva = b
      BY <3>5, RegionFacts
    <3>7. Inside(query, r)
      BY <2>1, <2>2, <3>1, <3>3, ContainsIsInside
    <3>8. Result = [uva |-> b, off |-> query.ipa - r.ipa]
      BY <3>1, <3>5 DEF Answer
    <3>9. Result # Null
      BY <3>8, MemoryAssumption DEF Null
    <3>10. QED
      BY <3>6, <3>7, <3>8, <3>9 DEF Right
  <2>5. CASE ~Found
    <3>1. ~(i <= g_map_count) /\ Result = Null
      BY <2>1, <2>5 DEF Ends, More, Result
    <3>2. ASSUME NEW s \in 1 .. g_map_count, NEW r \in Regions, Names(g_maps[s], r), Inside(query, r)
          PROVE  FALSE
      <4>1. Contains(g_maps[s], query)
        BY <2>1, <2>2, <3>2, ContainsIsInside DEF Names
      <4>2. s \in 1 .. i - 1 /\ s <= g_map_count
        BY <2>3, <3>1
      <4>3. QED
        BY <2>1, <2>2, <4>1, <4>2 DEF ScanInv
    <3>3. QED
      BY <3>1, <3>2 DEF Right
  <2>6. QED
    BY <2>4, <2>5
<1>4. Spec => []ScanInv
  BY <1>1, <1>2, MemoryInvariant, PTL DEF Spec
<1>5. QED
  BY <1>3, <1>4, MemoryInvariant, PTL DEF QuietLookupRight
==============================================================================
