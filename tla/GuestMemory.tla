----------------------------- MODULE GuestMemory -----------------------------
(***************************************************************************)
(* The guest's memory: hv_vm_map, hv_vm_unmap and hv_vm_protect with the   *)
(* copies they make in the nested address spaces, the record of mappings   *)
(* the library keeps for itself (g_maps), and ohv_guest_ptr, by which the  *)
(* vCPUs' threads read guest memory through that record.                   *)
(*                                                                         *)
(* The VMM makes one call at a time.  The traps are made under g_vm_mutex; *)
(* the record is changed outside it, and read without any lock, so the     *)
(* stores to the count and to a slot are steps of their own, in either     *)
(* order.  A record is moved as a whole.                                   *)
(*                                                                         *)
(* External: the kernel carries out a trap or refuses it.  It maps below   *)
(* its IPA limit, which is below the top of the address word.              *)
(***************************************************************************)
EXTENDS Naturals

CONSTANTS
  Regions,    \* what the VMM maps and unmaps: disjoint ranges [ipa, size]
  Buffers,    \* host memory behind them
  NumNested,  \* g_nested_count; 0 for a VM without EL2
  MaxMaps,    \* ARRAY_COUNT(g_maps)
  Word,       \* addresses are modulo Word
  Queries,    \* what ohv_guest_ptr is asked for: [ipa, len]
  MaxFaults   \* bound: traps the kernel refuses, and calls for a single space

End(r) == r.ipa + r.size
NoBuf  == "no buffer"

ASSUME MemoryAssumption ==
  /\ NumNested \in Nat /\ MaxMaps \in Nat /\ Word \in Nat /\ MaxFaults \in Nat
  /\ Regions # {} /\ NoBuf \notin Buffers
  /\ \A q \in Queries : q \in [ipa : 0 .. Word - 1, len : Nat] /\ q.len > 0
  /\ \A r \in Regions : r \in [ipa : Nat, size : Nat] /\ r.size > 0 /\ End(r) < Word
  /\ \A r, s \in Regions : r # s => End(r) <= s.ipa \/ End(s) <= r.ipa

Main    == 0
Spaces  == Main .. NumNested
Slots   == 1 .. MaxMaps
Flags   == {"rw", "ro"}
None    == [uva |-> NoBuf, flags |-> "none"]
Mapping == [uva : Buffers, flags : Flags]
Rec(b, r) == [uva |-> b, ipa |-> r.ipa, size |-> r.size]
Records == {Rec(NoBuf, [ipa |-> 0, size |-> 0])} \union {Rec(b, r) : b \in Buffers, r \in Regions}
Null    == [uva |-> NoBuf, off |-> 0]
Calls   == [kind : {"map", "unmap", "protect"}, r : Regions, to : Mapping \union {None}]

VARIABLES
  kmap,                  \* kernel: what each space has at each region
  g_maps, g_map_count,   \* the record
  pc, call, space, left, \* the VMM's call, its loop over spaces, its stores to come
  reading, query, i,     \* a vCPU's lookup
  disturbed,             \* history: the lookup met an update
  excused,               \* history: mapped regions the table had no room for, or
                         \* that the kernel would not unmap
  skewed,                \* history: copies the kernel refused or the VMM changed itself
  faults

kernel == <<kmap, faults, skewed>>
table  == <<g_maps, g_map_count>>
reader == <<reading, query, i>>
vars   == <<kernel, table, pc, call, space, left, reader, disturbed, excused>>

NoStore == [count |-> 0, slot |-> 0, rec |-> Rec(NoBuf, [ipa |-> 0, size |-> 0]), todo |-> {}]
Stores  == [count : 0 .. MaxMaps, slot : 0 .. MaxMaps, rec : Records, todo : SUBSET {"count", "slot"}]

NoCall  == [kind |-> "unmap", r |-> CHOOSE r \in Regions : TRUE, to |-> None]
NoQuery == [ipa |-> 0, len |-> 1]

TypeOK ==
  /\ kmap \in [Spaces -> [Regions -> Mapping \union {None}]]
  /\ g_maps \in [Slots -> Records] /\ g_map_count \in 0 .. MaxMaps
  /\ pc \in {"idle", "trap", "remember", "store"}
  /\ call \in Calls /\ space \in Spaces /\ left \in Stores
  /\ reading \in BOOLEAN /\ query \in Queries \union {NoQuery} /\ i \in 1 .. MaxMaps + 1
  /\ disturbed \in BOOLEAN
  /\ excused \subseteq Regions /\ skewed \subseteq Spaces \X Regions
  /\ faults \in 0 .. MaxFaults

Init ==
  /\ kmap = [s \in Spaces |-> [r \in Regions |-> None]]
  /\ g_maps = [s \in Slots |-> NoStore.rec] /\ g_map_count = 0
  /\ pc = "idle" /\ call = NoCall /\ space = Main /\ left = NoStore
  /\ reading = FALSE /\ query = NoQuery /\ i = 1
  /\ disturbed = FALSE /\ excused = {} /\ skewed = {} /\ faults = 0

-----------------------------------------------------------------------------
(* The record. *)

Holds(s, r)  == s <= g_map_count /\ g_maps[s].ipa = r.ipa
Recorded(r)  == \E s \in Slots : Holds(s, r)
FirstSlot(r) == CHOOSE s \in Slots : Holds(s, r) /\ \A t \in Slots : Holds(t, r) => s <= t

\* The call is over.
Return == pc' = "idle" /\ call' = NoCall /\ space' = Main

\* The record is about to be changed: the stores to come.
Begin(count, slot, rec, todo) ==
  left' = [count |-> count, slot |-> slot, rec |-> rec, todo |-> todo]

\* Mutant of Remember: one slot too many is taken for free.
RememberPastEnd ==
  /\ pc = "remember"
  /\ LET r == call.r
         rec == Rec(call.to.uva, r) IN
     IF Recorded(r)
       THEN Begin(g_map_count, FirstSlot(r), rec, {"slot"})
       ELSE /\ g_map_count <= MaxMaps
            /\ Begin(g_map_count + 1, g_map_count + 1, rec, {"count", "slot"})
  /\ pc' = "store" /\ UNCHANGED <<call, space, excused>>
  /\ UNCHANGED <<kernel, table, reader>>

\* map_remember: replace, append, or have no room.
Remember ==
  /\ pc = "remember"
  /\ LET r == call.r
         rec == Rec(call.to.uva, r) IN
     \/ /\ Recorded(r)
        /\ Begin(g_map_count, FirstSlot(r), rec, {"slot"})
        /\ pc' = "store" /\ UNCHANGED <<call, space, excused>>
     \/ /\ ~Recorded(r) /\ g_map_count < MaxMaps
        /\ Begin(g_map_count + 1, g_map_count + 1, rec, {"count", "slot"})
        /\ pc' = "store" /\ UNCHANGED <<call, space, excused>>
     \/ /\ ~Recorded(r) /\ g_map_count = MaxMaps
        /\ excused' = excused \union {r}
        /\ Return /\ UNCHANGED left
  /\ UNCHANGED <<kernel, table, reader>>

\* One of the stores; after the last a map is done, and an unmap goes on to the trap.
Store(what) ==
  /\ pc = "store" /\ what \in left.todo
  /\ g_map_count' = IF what = "count" THEN left.count ELSE g_map_count
  /\ g_maps' = IF what = "slot" THEN [g_maps EXCEPT ![left.slot] = left.rec] ELSE g_maps
  /\ IF left.todo # {what}
       THEN left' = [left EXCEPT !.todo = @ \ {what}] /\ UNCHANGED <<pc, call, space>>
       ELSE /\ left' = NoStore
            /\ IF call.kind = "map" THEN Return ELSE pc' = "trap" /\ UNCHANGED <<call, space>>
  /\ excused' = IF call.kind = "map" THEN excused \ {call.r} ELSE excused
  /\ UNCHANGED <<kernel, reader>>

-----------------------------------------------------------------------------
(* The calls. *)

\* hv_vm_map(addr, ipa, size, flags), of writable memory.
Map(r, b) ==
  /\ pc = "idle"
  /\ call' = [kind |-> "map", r |-> r, to |-> [uva |-> b, flags |-> "rw"]]
  /\ pc' = "trap"
  /\ UNCHANGED <<kernel, table, space, left, reader, excused>>

\* Mutant of Unmap: the last record is not moved into the place of the one that goes.
UnmapLast(r) ==
  /\ pc = "idle"
  /\ call' = [kind |-> "unmap", r |-> r, to |-> None]
  /\ IF Recorded(r)
       THEN /\ Begin(g_map_count - 1, 0, NoStore.rec, {"count"})
            /\ pc' = "store"
       ELSE pc' = "trap" /\ UNCHANGED left
  /\ UNCHANGED <<kernel, table, space, reader, excused>>

\* hv_vm_unmap(ipa, size): map_forget first.
Unmap(r) ==
  /\ pc = "idle"
  /\ call' = [kind |-> "unmap", r |-> r, to |-> None]
  /\ IF Recorded(r)
       THEN /\ Begin(g_map_count - 1, FirstSlot(r), g_maps[g_map_count], {"count", "slot"})
            /\ pc' = "store"
       ELSE pc' = "trap" /\ UNCHANGED left
  /\ UNCHANGED <<kernel, table, space, reader, excused>>

\* hv_vm_protect(ipa, size, flags), of something the VMM has mapped.
Protect(r, f) ==
  /\ pc = "idle" /\ kmap[Main][r] # None
  /\ call' = [kind |-> "protect", r |-> r, to |-> [kmap[Main][r] EXCEPT !.flags = f]]
  /\ pc' = "trap"
  /\ UNCHANGED <<kernel, table, space, left, reader, excused>>

\* Mutant of NextSpace: only what is mapped goes to the nested spaces.
NextSpaceMapOnly ==
  IF call.kind = "map" /\ space < NumNested
    THEN space' = space + 1 /\ UNCHANGED <<pc, call>>
    ELSE IF call.kind = "map" THEN pc' = "remember" /\ UNCHANGED <<call, space>> ELSE Return

\* map_op goes on to the next nested space, or is done.
NextSpace ==
  IF space < NumNested
    THEN space' = space + 1 /\ UNCHANGED <<pc, call>>
    ELSE IF call.kind = "map" THEN pc' = "remember" /\ UNCHANGED <<call, space>> ELSE Return

\* What a space has at the region once the trap is carried out.
After(s) ==
  IF call.kind = "protect" /\ kmap[s][call.r] # None
    THEN [kmap[s][call.r] EXCEPT !.flags = call.to.flags]
    ELSE IF call.kind = "protect" THEN None ELSE call.to

\* map_op: the trap for one space is carried out.
TrapDone ==
  /\ pc = "trap"
  /\ kmap' = [kmap EXCEPT ![space][call.r] = After(space)]
  /\ skewed' = IF kmap'[space][call.r] = kmap'[Main][call.r]
                 THEN skewed \ {<<space, call.r>>} ELSE skewed
  /\ excused' = IF space = Main /\ call.kind = "unmap" THEN excused \ {call.r} ELSE excused
  /\ NextSpace
  /\ UNCHANGED <<faults, table, left, reader>>

\* Mutant of TrapRefused: the refusal of a copy is the answer of the call as well.
TrapRefusedAnswers ==
  /\ pc = "trap" /\ faults < MaxFaults
  /\ faults' = faults + 1
  /\ Return
  /\ skewed' = IF space = Main THEN skewed ELSE skewed \union {<<space, call.r>>}
  /\ excused' = IF space = Main /\ call.kind = "unmap" /\ kmap[Main][call.r] # None
                  THEN excused \union {call.r} ELSE excused
  /\ UNCHANGED <<kmap, table, left, reader>>

\* map_op: the trap is refused.  In the main space that is the answer of the
\* call; in a nested one it is ignored.
TrapRefused ==
  /\ pc = "trap" /\ faults < MaxFaults
  /\ faults' = faults + 1
  /\ IF space = Main THEN Return /\ UNCHANGED skewed
                     ELSE skewed' = skewed \union {<<space, call.r>>} /\ NextSpace
  /\ excused' = IF space = Main /\ call.kind = "unmap" /\ kmap[Main][call.r] # None
                  THEN excused \union {call.r} ELSE excused
  /\ UNCHANGED <<kmap, table, left, reader>>

\* __hv_vm_map_space, __hv_vm_unmap_space, __hv_vm_protect_space: one space,
\* under the mutex, and nothing is recorded.
SpaceOp(s, r, to) ==
  /\ pc = "idle" /\ s # Main /\ faults < MaxFaults
  /\ kmap' = [kmap EXCEPT ![s][r] = to]
  /\ skewed' = skewed \union {<<s, r>>}
  /\ faults' = faults + 1
  /\ UNCHANGED <<table, pc, call, space, left, reader, excused>>

-----------------------------------------------------------------------------
(* ohv_guest_ptr. *)

\* Mutant of Contains: the end of the range is not looked at.
ContainsStart(m, q) == q.ipa >= m.ipa /\ q.ipa % Word <= (m.ipa + m.size) % Word

\* The record contains the range, in arithmetic modulo Word.
Contains(m, q) == q.ipa >= m.ipa /\ (q.ipa + q.len) % Word <= (m.ipa + m.size) % Word

Answer(m, q) == [uva |-> m.uva, off |-> q.ipa - m.ipa]

Lookup(q) ==
  /\ ~reading
  /\ reading' = TRUE /\ query' = q /\ i' = 1
  /\ UNCHANGED <<kernel, table, pc, call, space, left, excused>>

More  == i <= g_map_count
Found == More /\ Contains(g_maps[i], query)
Ends  == reading /\ (Found \/ ~More)
Result == IF Found THEN Answer(g_maps[i], query) ELSE Null

\* One turn of the loop; the lookup ends with Result.
Scan ==
  /\ reading
  /\ IF Ends THEN reading' = FALSE /\ query' = NoQuery /\ i' = 1
             ELSE i' = i + 1 /\ UNCHANGED <<reading, query>>
  /\ UNCHANGED <<kernel, table, pc, call, space, left, excused>>

-----------------------------------------------------------------------------

Vmm ==
  \/ \E r \in Regions, b \in Buffers : Map(r, b)
  \/ \E r \in Regions : Unmap(r)
  \/ \E r \in Regions, f \in Flags : Protect(r, f)
  \/ \E s \in Spaces, r \in Regions, to \in Mapping \union {None} : SpaceOp(s, r, to)
  \/ TrapDone \/ TrapRefused \/ Remember
  \/ \E what \in {"count", "slot"} : Store(what)

Vcpu == Scan \/ \E q \in Queries : Lookup(q)

\* Stores are under way, or the memory a record names has been exchanged for
\* other memory and the record has not.
Updating ==
  \/ left.todo # {}
  \/ call.kind = "map" /\ (pc = "remember" \/ space # Main) /\ Recorded(call.r)

Next ==
  \/ Vmm /\ disturbed' = (reading /\ (disturbed \/ Updating'))
  \/ Vcpu /\ disturbed' = (reading' /\ (disturbed \/ Updating))

Spec == Init /\ [][Next]_vars

-----------------------------------------------------------------------------
(* Properties. *)

Names(m, r) == m = Rec(kmap[Main][r].uva, r)

\* Every record is of memory the guest really has there, at every step of a call
\* that is not changing the record itself: a mapping is recorded after it is made
\* and forgotten before it is unmade, and the record that takes the place of a
\* forgotten one is still there.
RecordedIsMapped ==
  ~Updating => \A s \in 1 .. g_map_count : \E r \in Regions : Names(g_maps[s], r)

\* Memory the guest has is recorded once the call that mapped it is over, except
\* for what found the table full and what the kernel would not unmap.
MappedIsRecorded ==
  pc = "idle" => \A r \in Regions \ excused : kmap[Main][r] # None => Recorded(r)

\* Each nested space has what the guest has, where the kernel refused nothing and
\* the VMM changed nothing itself: the copies are made, unmade and protected in
\* every space, whatever happened in another.
NestedFollowMain ==
  pc = "idle" =>
    \A s \in Spaces, r \in Regions : <<s, r>> \notin skewed => kmap[s][r] = kmap[Main][r]

Inside(q, r) == r.ipa <= q.ipa /\ q.ipa + q.len <= End(r)

Right(q, ans) ==
  IF ans = Null
    THEN ~\E s \in 1 .. g_map_count : \E r \in Regions : Names(g_maps[s], r) /\ Inside(q, r)
    ELSE \E r \in Regions : Inside(q, r) /\ ans = [uva |-> kmap[Main][r].uva, off |-> q.ipa - r.ipa]

\* A lookup that no change of the record overlaps, of an address whose range does
\* not wrap, answers with the host memory behind that address, and with nothing
\* only if no record has all of the range.  Traps may overlap it.
QuietLookupRight ==
  [][Ends /\ ~reading' /\ ~disturbed /\ ~Updating /\ query.ipa + query.len < Word
       => Right(query, Result)]_vars
=============================================================================
