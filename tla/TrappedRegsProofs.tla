-------------------------- MODULE TrappedRegsProofs --------------------------
(***************************************************************************)
(* Proofs about TrappedRegs, for any values, tables and sets of blocks     *)
(* that an exit leaves current.                                            *)
(***************************************************************************)
EXTENDS TrappedRegs, TLAPS

\* The page and the hardware, where nothing went astray.  What is current or marked
\* is right in the page; what is not marked, or what the guest runs with, is right
\* in the hardware.
BlocksInv ==
  \A b \in Blocks : \A r \in In(b) : r \notin astray =>
    /\ b \in valid \union dirty => page[r] = truth[r]
    /\ b \notin dirty \/ at = "guest" => hw[r] = truth[r]

\* Nothing but the library writes the controls and the words of the VNCR page.
ControlsInv == \A r \in Ctl \union Vncr : r \notin astray => page[r] = truth[r]

\* While the guest runs, nothing is current in the page.
PlaceInv == at = "guest" => valid = {}

\* The tables: what an entry of each may be for, and what is in it.
Keys(t) == CASE t = "gic" -> GicNames [] t = "apple" -> AppleNames [] t = "ctrr" -> {"c2_3"}

EntriesInv ==
  \A t \in Tables : \A k \in 1 .. Len(Ready(t)) :
    /\ Ready(t)[k].enc \in Keys(t) /\ Ready(t)[k].value = truth[Ready(t)[k].enc]
    /\ \A j \in 1 .. Len(Ready(t)) : Ready(t)[k].enc = Ready(t)[j].enc => k = j

\* A register without an entry is the VMM's, and as long as there is room for it,
\* nobody has written it.
AbsentInv ==
  \A t \in Tables : \A n \in Keys(t) : Entries(t, n) = {} =>
    /\ vmmReg[n] = truth[n]
    /\ Room(t) => truth[n] = 0

SlotsInv ==
  /\ slots["TPIDR_GL2"] = truth["TPIDR_GL2"] /\ slots["shadow_TTBR0_EL2"] = truth["shadow_TTBR0_EL2"]
  /\ (IF idsLoaded THEN slots["MIDR_EL1"] ELSE 1) = truth["MIDR_EL1"]
  /\ truth["CLIDR_EL1"] = 1 /\ \A n \in VmmOwn : vmmReg[n] = truth[n]

\* The VMM is handed what nothing answers for, what cannot be written, and what
\* found its table full.
Handable(a) ==
  \/ a.name \in VmmOwn
  \/ a.name \in FixedNames /\ ~a.read
  \/ \E t \in Tables : a.name \in Keys(t) /\ Entries(t, a.name) = {} /\ ~Room(t)

HandedInv == at = "handed" => Handable(acc)

PagesInv == BlocksInv /\ ControlsInv /\ PlaceInv
LibInv   == EntriesInv /\ AbsentInv /\ SlotsInv /\ HandedInv

RegsInv == RegsOK /\ PagesInv /\ LibInv /\ right

-----------------------------------------------------------------------------
(* Registers, blocks and names. *)

LEMMA BlockFacts ==
  /\ In("SYSREGS") = Banked \union Shared /\ In("GXF") = Ext /\ In("CONTROLS") = Ctl
  /\ \A b \in Blocks : In(b) \subseteq Carried
  /\ \A r \in Carried : \E b \in Blocks : r \in In(b)
  /\ \A b \in Blocks : \A r \in In(b) : r \notin Vncr
  /\ \A b, c \in Blocks : \A r \in In(b) : r \in In(c) => b = c
  /\ \A r \in Ctl : r \notin Shared
<1>1. In("SYSREGS") = Banked \union Shared /\ In("GXF") = Ext /\ In("CONTROLS") = Ctl
  BY DEF In
<1>2. QED
  BY <1>1 DEF Blocks, Banked, Ext, Ctl, Shared, Vncr, Carried

LEMMA BlockOfIn ==
  ASSUME NEW b \in Blocks, NEW r \in In(b)
  PROVE  BlockOf(r) = b
  BY BlockFacts DEF BlockOf, Blocks, Banked, Shared, Ext, Ctl

LEMMA RegFacts ==
  /\ Carried \subseteq PageRegs /\ Shared \subseteq Carried /\ Ctl \subseteq Carried /\ Banked \subseteq Carried
  /\ Ext \subseteq Carried /\ Vncr \subseteq PageRegs /\ PageRegs \subseteq Truths
  /\ \A r \in PageRegs : Silicon(r) = r
  /\ \A r \in PageRegs : r \notin Carried => r \in Vncr
  /\ \A r \in Vncr : r \notin Carried
<1>1. \A r \in PageRegs : Silicon(r) = r
  BY DEF PageRegs, Carried, Banked, Shared, Ext, Ctl, Vncr, Silicon, PlaceOf
<1>2. QED
  BY <1>1 DEF PageRegs, Carried, Truths, Vncr, Banked, Shared, Ext, Ctl

\* Where an access to a name of the tables looks, and under which name.
Key(n) == IF TableOf(n) = "ctrr" THEN Fold(n) ELSE n

LEMMA KeyFacts ==
  ASSUME NEW t \in Tables, NEW n \in Keys(t)
  PROVE  /\ n \in TableNames /\ n \in Names /\ n \in Truths /\ Silicon(n) = n
         /\ n \notin PageRegs /\ n \notin Slots /\ n \notin VmmOwn /\ n \notin FixedNames
         /\ \A s \in Tables : n \in Keys(s) => s = t
<1>1. n \in GicNames \/ n \in AppleNames \/ n = "c2_3"
  BY DEF Tables, Keys
<1>2. n = "c2_3" \/ n \notin OtherNames
  BY <1>1, RegsAssumption
<1>3. n \in TableNames /\ n \in Names /\ n \in Truths
  BY <1>1 DEF TableNames, Names, Truths, CtrrNames
<1>4. n \notin PageRegs /\ n \notin Slots /\ n \notin VmmOwn /\ n \notin FixedNames
  BY <1>2 DEF OtherNames, PageRegs, Carried, Banked, Shared, Ext, Ctl, Vncr, Slots, VmmOwn, FixedNames
<1>5. n # "TTBR0_EL2" /\ n # "c6_4" /\ n # "CCSIDR_EL1"
  BY <1>2 DEF OtherNames, PageNames, CtrrNames, FixedNames
<1>6. Silicon(n) = n
  BY <1>5 DEF Silicon, PlaceOf
<1>7. \A s \in Tables : n \in Keys(s) => s = t
  <2>1. "c2_3" \in OtherNames
    BY DEF OtherNames, CtrrNames
  <2>2. QED
    BY <2>1, RegsAssumption DEF Tables, Keys
<1>8. QED
  BY <1>3, <1>4, <1>6, <1>7

LEMMA TableFacts ==
  ASSUME NEW n \in TableNames
  PROVE  TableOf(n) \in Tables /\ Key(n) \in Keys(TableOf(n)) /\ Silicon(n) = Key(n) /\ (TableOf(n) # "ctrr" => Key(n) = n)
<1> DEFINE NamesOf(t) == CASE t = "gic" -> GicNames [] t = "apple" -> AppleNames [] t = "ctrr" -> CtrrNames
<1>1. NamesOf("gic") = GicNames /\ NamesOf("apple") = AppleNames /\ NamesOf("ctrr") = CtrrNames
  OBVIOUS
<1>2. \E t \in Tables : n \in NamesOf(t)
  BY <1>1 DEF TableNames, Tables
<1>3. TableOf(n) \in Tables /\ n \in NamesOf(TableOf(n))
  BY <1>2 DEF TableOf
<1>4. CASE TableOf(n) = "ctrr"
  <2>1. n \in {"c2_3", "c6_4"}
    BY <1>1, <1>3, <1>4 DEF CtrrNames
  <2>2. Key(n) = "c2_3" /\ Silicon(n) = "c2_3"
    BY <1>4, <2>1 DEF Key, Fold, Silicon, PlaceOf
  <2>3. "c2_3" \in Keys(TableOf(n))
    BY <1>4 DEF Keys
  <2>4. QED
    BY <1>3, <1>4, <2>2, <2>3
<1>5. CASE TableOf(n) # "ctrr"
  <2>1. n \in Keys(TableOf(n)) /\ Key(n) = n
    BY <1>1, <1>3, <1>5 DEF Keys, Key, Tables
  <2>2. QED
    BY <1>3, <2>1, KeyFacts
<1>6. QED
  BY <1>4, <1>5

\* Registers with a slot, or of the VMM's own, are no others.
LEMMA OwnFacts ==
  /\ \A n \in Slots \union VmmOwn \union {"CLIDR_EL1"} :
       /\ n \in Truths /\ n \notin PageRegs /\ Silicon(n) = n
       /\ \A t \in Tables : n \notin Keys(t)
  /\ Slots \intersect (VmmOwn \union {"CLIDR_EL1"}) = {} /\ "CLIDR_EL1" \notin VmmOwn
  /\ VmmOwn \subseteq Names /\ FixedNames \subseteq Names /\ VmmOwn \intersect FixedNames = {}
  /\ \A n \in FixedNames, t \in Tables : n \notin Keys(t)
<1>1. \A n \in Slots \union VmmOwn \union {"CLIDR_EL1"} : n \in Truths /\ n \notin PageRegs /\ Silicon(n) = n
  BY DEF Slots, VmmOwn, Truths, PageRegs, Carried, Banked, Shared, Ext, Ctl, Vncr, Silicon, PlaceOf
<1>2. Slots \intersect (VmmOwn \union {"CLIDR_EL1"}) = {} /\ "CLIDR_EL1" \notin VmmOwn
  BY DEF Slots, VmmOwn
<1>3. VmmOwn \subseteq Names /\ FixedNames \subseteq Names /\ VmmOwn \intersect FixedNames = {}
  BY DEF Names, VmmOwn, FixedNames
<1>4. "CLIDR_EL1" \in FixedNames
  BY DEF FixedNames
<1>5. QED
  BY <1>1, <1>2, <1>3, <1>4, KeyFacts

-----------------------------------------------------------------------------
(* The tables. *)

Entry == [enc : TableNames, value : Values]

LEMMA MaxType == \A t \in Tables : Max(t) \in Nat /\ (t # "apple" => Max(t) > 0)
<1>1. Max("gic") = MaxGic /\ Max("apple") = MaxApple /\ Max("ctrr") = MaxCtrr
  BY DEF Max
<1>2. QED
  BY <1>1, RegsAssumption DEF Tables

LEMMA ReadyType ==
  ASSUME RegsOK, NEW t \in Tables
  PROVE  Ready(t) \in Seq(Entry) /\ Len(Ready(t)) \in Nat /\ Len(Ready(t)) <= Max(t)
<1>1. tab[t] \in Seq(Entry) /\ Len(tab[t]) <= Max(t)
  BY DEF RegsOK, Entry
<1>2. CASE t = "gic" /\ tab[t] = <<>>
  <2> DEFINE e == [enc |-> "ICC_SRE_EL1", value |-> 1]
  <2>1. e \in Entry
    BY RegsAssumption DEF Entry, TableNames
  <2> HIDE DEF e
  <2>2. <<e>> \in Seq(Entry) /\ Len(<<e>>) = 1
    BY <2>1
  <2>3. Ready(t) = <<e>>
    BY <1>2 DEF Ready, e
  <2>4. Max(t) \in Nat /\ Max(t) > 0
    BY <1>2, MaxType DEF Tables
  <2>5. QED
    BY <2>2, <2>3, <2>4
<1>3. CASE ~(t = "gic" /\ tab[t] = <<>>)
  <2>1. Ready(t) = tab[t]
    BY <1>3 DEF Ready
  <2>2. QED
    BY <1>1, <2>1
<1>4. QED
  BY <1>2, <1>3

\* The single entry that the folded register takes always has room.
LEMMA CtrrRoom ==
  ASSUME RegsOK, EntriesInv, NEW n \in Keys("ctrr"), Entries("ctrr", n) = {}
  PROVE  Room("ctrr")
<1>1. "ctrr" \in Tables /\ n = "c2_3" /\ Keys("ctrr") = {"c2_3"}
  BY DEF Tables, Keys
<1>2. Len(Ready("ctrr")) \in Nat
  BY <1>1, ReadyType
<1>3. \A k \in 1 .. Len(Ready("ctrr")) : FALSE
  BY <1>1 DEF EntriesInv, Entries
<1>4. Len(Ready("ctrr")) = 0
  <2>1. 1 \notin 1 .. Len(Ready("ctrr"))
    BY <1>3
  <2>2. QED
    BY <1>2, <2>1
<1>5. Max("ctrr") \in Nat /\ Max("ctrr") > 0
  BY <1>1, MaxType
<1>6. QED
  BY <1>4, <1>5 DEF Room

\* The table with the register in it.
LEMMA WithFacts ==
  ASSUME RegsOK, EntriesInv, AbsentInv, NEW t \in Tables, NEW n \in Keys(t),
         Entries(t, n) # {} \/ Room(t)
  PROVE  /\ With(t, n) \in Seq(Entry) /\ Len(With(t, n)) \in Nat
         /\ Len(With(t, n)) <= Max(t)
         /\ Index(With(t, n), n) \in 1 .. Len(With(t, n)) /\ With(t, n)[Index(With(t, n), n)].enc = n
         /\ \A k \in 1 .. Len(With(t, n)) :
              /\ With(t, n)[k].enc \in Keys(t) /\ With(t, n)[k].value = truth[With(t, n)[k].enc]
              /\ \A j \in 1 .. Len(With(t, n)) : With(t, n)[k].enc = With(t, n)[j].enc => k = j
         /\ \A m : Entries(t, m) # {} => \E k \in 1 .. Len(With(t, n)) : With(t, n)[k].enc = m
         /\ Len(Ready(t)) <= Len(With(t, n))
<1> DEFINE R == Ready(t)
           W == With(t, n)
           e == [enc |-> n, value |-> 0]
<1>1. R \in Seq(Entry) /\ Len(R) \in Nat /\ Len(R) <= Max(t) /\ Max(t) \in Nat
  BY ReadyType, MaxType
<1>2. \A k \in 1 .. Len(R) :
        /\ R[k].enc \in Keys(t) /\ R[k].value = truth[R[k].enc]
        /\ \A j \in 1 .. Len(R) : R[k].enc = R[j].enc => k = j
  BY DEF EntriesInv
<1>3. \A m, k : k \in Entries(t, m) <=> k \in 1 .. Len(R) /\ R[k].enc = m
  BY DEF Entries
<1>4. ASSUME \E k \in 1 .. Len(W) : W[k].enc = n
      PROVE  Index(W, n) \in 1 .. Len(W) /\ W[Index(W, n)].enc = n
  BY <1>4 DEF Index
<1>5. CASE Entries(t, n) # {}
  <2>1. W = R
    BY <1>5 DEF With
  <2>2. \E k \in 1 .. Len(W) : W[k].enc = n
    BY <1>3, <1>5, <2>1
  <2>3. Len(R) <= Len(W)
    BY <1>1, <2>1
  <2> HIDE DEF R, W
  <2>4. \A m : Entries(t, m) # {} => \E k \in 1 .. Len(W) : W[k].enc = m
    BY <1>3, <2>1
  <2>5. QED
    BY <1>1, <1>2, <1>4, <2>1, <2>2, <2>3, <2>4 DEF R, W
<1>6. CASE Entries(t, n) = {} /\ Room(t)
  <2>1. W = Append(R, e)
    BY <1>6 DEF With
  <2>2. e \in Entry /\ e.enc = n /\ e.value = 0
    BY KeyFacts, RegsAssumption DEF Entry
  <2>3. truth[n] = 0
    BY <1>6 DEF AbsentInv
  <2>4. Len(R) < Max(t)
    BY <1>6 DEF Room
  <2>5. \A k \in 1 .. Len(R) : R[k].enc # n
    BY <1>3, <1>6
  <2> HIDE DEF R, W, e
  <2>6. /\ W \in Seq(Entry) /\ Len(W) = Len(R) + 1
        /\ \A k \in 1 .. Len(W) : IF k = Len(W) THEN W[k] = e ELSE k \in 1 .. Len(R) /\ W[k] = R[k]
        /\ \A k \in 1 .. Len(R) : k \in 1 .. Len(W) /\ W[k] = R[k]
        /\ Len(W) \in 1 .. Len(W)
    BY <1>1, <2>1, <2>2
  <2>7. Len(W) \in Nat /\ Len(W) <= Max(t) /\ Len(R) <= Len(W)
    BY <1>1, <2>4, <2>6
  <2>8. \E k \in 1 .. Len(W) : W[k].enc = n
    BY <2>2, <2>6
  <2>9. \A k \in 1 .. Len(W) :
          /\ W[k].enc \in Keys(t) /\ W[k].value = truth[W[k].enc]
          /\ \A j \in 1 .. Len(W) : W[k].enc = W[j].enc => k = j
    <3>1. SUFFICES ASSUME NEW k \in 1 .. Len(W)
                   PROVE  /\ W[k].enc \in Keys(t) /\ W[k].value = truth[W[k].enc]
                          /\ \A j \in 1 .. Len(W) : W[k].enc = W[j].enc => k = j
      OBVIOUS
    <3>2. CASE k = Len(W)
      BY <2>2, <2>3, <2>5, <2>6, <3>2
    <3>3. CASE k # Len(W)
      BY <1>2, <2>2, <2>5, <2>6, <3>3
    <3>4. QED
      BY <3>2, <3>3
  <2>10. \A m : Entries(t, m) # {} => \E k \in 1 .. Len(W) : W[k].enc = m
    BY <1>3, <2>6
  <2>11. QED
    BY <1>4, <2>6, <2>7, <2>8, <2>9, <2>10 DEF R, W
<1>7. QED
  BY <1>5, <1>6

-----------------------------------------------------------------------------
(* What the parts of a step do. *)

LEMMA WrittenFacts ==
  ASSUME RegsOK, NEW n, NEW v \in Values, Written(n, v)
  PROVE  /\ truth' \in [Truths -> Values] /\ writes' \in 0 .. MaxWrites
         /\ \A m \in Truths : truth'[m] = IF m = n THEN v ELSE truth[m]
<1>1. writes' \in 0 .. MaxWrites
  BY RegsAssumption DEF Written, RegsOK
<1>2. truth' \in [Truths -> Values]
  BY DEF Written, RegsOK
<1>3. \A m \in Truths : truth'[m] = IF m = n THEN v ELSE truth[m]
  BY DEF Written, RegsOK
<1>4. QED
  BY <1>1, <1>2, <1>3

LEMMA NoAccessType == NoAccess \in [name : Names, read : BOOLEAN]
<1>1. "AT" \in Names
  BY DEF Names, Insns
<1>2. QED
  BY <1>1 DEF NoAccess

LEMMA AnswerFacts ==
  ASSUME RegsOK, right, NEW v \in Values, Answer(v)
  PROVE  /\ at' = "ready" /\ acc' = NoAccess /\ vmmReg' = vmmReg /\ x' \in Values
         /\ truth' \in [Truths -> Values] /\ writes' \in 0 .. MaxWrites
         /\ acc.read => /\ truth' = truth
                        /\ v = truth[Silicon(acc.name)] \/ Silicon(acc.name) \in astray \union Stale => right'
         /\ ~acc.read => /\ right'
                         /\ \A m \in Truths : truth'[m] = IF m = Silicon(acc.name) THEN x ELSE truth[m]
<1>1. CASE acc.read
  BY <1>1 DEF Answer, RegsOK, Reads, hist
<1>2. CASE ~acc.read
  <2>1. x \in Values /\ Written(Silicon(acc.name), x) /\ x' = 0
    BY <1>2 DEF Answer, RegsOK
  <2>2. QED
    BY <1>2, <2>1, WrittenFacts, RegsAssumption DEF Answer
<1>3. QED
  BY <1>1, <1>2

\* A step that leaves the tables, as they are when made ready, and the slots alone.
LEMMA LibKept ==
  ASSUME LibInv, \A t \in Tables : Ready(t)' = Ready(t), UNCHANGED <<slots, idsLoaded, vmmReg>>,
         \A n \in Truths : n \notin PageRegs => truth'[n] = truth[n],
         at' = "handed" => Handable(acc')
  PROVE  LibInv'
<1>1. \A t \in Tables : \A n : Entries(t, n)' = Entries(t, n)
  BY DEF Entries
<1>2. \A t \in Tables : Room(t)' <=> Room(t)
  BY DEF Room
<1>3. \A t \in Tables : \A n : n \in Keys(t) => truth'[n] = truth[n]
  BY KeyFacts
<1>4. EntriesInv'
  BY <1>3 DEF LibInv, EntriesInv
<1>5. AbsentInv'
  BY <1>1, <1>2, <1>3 DEF LibInv, AbsentInv
<1>6. SlotsInv'
  <2>1. \A n \in Slots \union VmmOwn \union {"CLIDR_EL1"} : truth'[n] = truth[n]
    BY OwnFacts
  <2>2. QED
    BY <2>1 DEF LibInv, SlotsInv, Slots
<1>7. HandedInv'
  BY <1>1, <1>2 DEF HandedInv, Handable
<1>8. QED
  BY <1>4, <1>5, <1>6, <1>7 DEF LibInv

\* A step of the page and the hardware alone.
LEMMA LibUntouched ==
  ASSUME LibInv, UNCHANGED <<tab, slots, idsLoaded, vmmReg>>,
         \A n \in Truths : n \notin PageRegs => truth'[n] = truth[n],
         at' = "handed" => at = "handed" /\ acc' = acc
  PROVE  LibInv'
<1>1. \A t \in Tables : Ready(t)' = Ready(t)
  BY DEF Ready
<1>2. at' = "handed" => Handable(acc')
  BY DEF LibInv, HandedInv
<1>3. QED
  BY <1>1, <1>2, LibKept

\* A step of the library alone.
LEMMA PagesKept ==
  ASSUME PagesInv, at # "guest", at' # "guest", UNCHANGED <<page, hw, valid, dirty, astray>>,
         \A r \in PageRegs : truth'[r] = truth[r]
  PROVE  PagesInv'
<1>1. BlocksInv'
  <2>1. \A b \in Blocks : \A r \in In(b) : truth'[r] = truth[r]
    BY BlockFacts, RegFacts
  <2>2. QED
    BY <2>1 DEF PagesInv, BlocksInv
<1>2. ControlsInv'
  BY RegFacts DEF PagesInv, ControlsInv
<1>3. PlaceInv'
  BY DEF PlaceInv
<1>4. QED
  BY <1>1, <1>2, <1>3 DEF PagesInv

\* A write that goes to the page: P is the page before it, a sync included.
LEMMA PageWritten ==
  ASSUME RegsOK, PagesInv, at # "guest", at' # "guest",
         NEW r \in PageRegs, NEW v \in Values, NEW P \in [PageRegs -> Values],
         page' = [P EXCEPT ![r] = v], hw' = hw, dirty \subseteq dirty',
         \A m \in Truths : truth'[m] = IF m = r THEN v ELSE truth[m],
         \A q : q \in astray => q = r \/ q \in astray',
         \A b \in Blocks : \A q \in In(b) : q \notin astray' /\ q # r /\ b \in valid' \union dirty' => P[q] = truth[q],
         \A q \in Ctl \union Vncr : q \notin astray' /\ q # r => P[q] = truth[q],
         \A b \in Blocks : r \in In(b) /\ r \notin astray' => b \in dirty' \/ hw[r] = v
  PROVE  PagesInv' /\ page' \in [PageRegs -> Values]
<1>1. \A q \in PageRegs : page'[q] = (IF q = r THEN v ELSE P[q]) /\ truth'[q] = IF q = r THEN v ELSE truth[q]
  BY RegFacts
<1>2. \A b \in Blocks : \A q \in In(b) : q \in PageRegs
  BY BlockFacts, RegFacts
<1>3. BlocksInv'
  <2>1. SUFFICES ASSUME NEW b \in Blocks, NEW q \in In(b), q \notin astray'
                 PROVE  /\ b \in valid' \union dirty' => page'[q] = truth'[q]
                        /\ b \notin dirty' => hw'[q] = truth'[q]
    BY DEF BlocksInv
  <2>2. CASE q = r
    BY <1>1, <1>2, <2>1, <2>2
  <2>3. CASE q # r
    <3>1. q \notin astray
      BY <2>1, <2>3
    <3>2. QED
      BY <1>1, <1>2, <2>1, <2>3, <3>1 DEF PagesInv, BlocksInv
  <2>4. QED
    BY <2>2, <2>3
<1>4. ControlsInv'
  BY <1>1, RegFacts DEF ControlsInv
<1>5. PlaceInv'
  BY DEF PlaceInv
<1>6. QED
  BY <1>3, <1>4, <1>5 DEF PagesInv

\* An exit: what it leaves current is what the guest had.
LEMMA ExitPages ==
  ASSUME RegsOK, PagesInv, at = "guest", at' # "guest", NEW now \in SUBSET Blocks, Exit(now),
         UNCHANGED <<hw, dirty, astray, truth>>
  PROVE  PagesInv' /\ page' \in [PageRegs -> Values] /\ valid' \subseteq Blocks
<1>1. \A r \in Carried : hw[r] \in Values /\ (r \notin astray => hw[r] = truth[r])
  BY BlockFacts DEF PagesInv, BlocksInv, RegsOK
<1>2. \A b \in now : b \in Blocks
  OBVIOUS
<1>3. \A r \in PageRegs : page'[r] = IF \E b \in now : r \in In(b) THEN hw[r] ELSE page[r]
  BY DEF Exit
<1>4. \A r \in PageRegs : (\E b \in now : r \in In(b)) => r \in Carried
  BY <1>2, BlockFacts, RegFacts
<1>5. page' \in [PageRegs -> Values]
  <2>1. \A r \in PageRegs : page'[r] \in Values
    BY <1>1, <1>3, <1>4 DEF RegsOK
  <2>2. QED
    BY <2>1 DEF Exit
<1>6. \A r \in PageRegs : r \notin astray /\ (page[r] = truth[r] \/ \E b \in now : r \in In(b)) => page'[r] = truth[r]
  BY <1>1, <1>3, <1>4
<1>7. BlocksInv'
  <2>1. SUFFICES ASSUME NEW b \in Blocks, NEW r \in In(b), r \notin astray
                 PROVE  (b \in valid' \union dirty' => page'[r] = truth'[r]) /\ hw'[r] = truth'[r]
    BY DEF BlocksInv
  <2>2. r \in PageRegs /\ r \in Carried
    BY BlockFacts, RegFacts
  <2>3. b \in dirty => page[r] = truth[r]
    BY <2>1 DEF PagesInv, BlocksInv
  <2>4. valid' = now
    BY DEF Exit
  <2>5. QED
    BY <1>1, <1>6, <2>1, <2>2, <2>3, <2>4
<1>8. ControlsInv'
  BY <1>6, RegFacts DEF PagesInv, ControlsInv
<1>9. PlaceInv'
  BY DEF PlaceInv
<1>10. QED
  BY <1>5, <1>7, <1>8, <1>9 DEF PagesInv, Exit

\* What is not stale, and whose block is not the controls', is right in the page.
LEMMA FreshRight ==
  ASSUME RegsOK, PagesInv, NEW b \in Blocks, NEW r \in In(b), r \notin astray, b # "CONTROLS"
  PROVE  IF r \in Stale THEN hw[r] = truth[r] ELSE page[r] = truth[r]
<1>1. r \in Carried /\ BlockOf(r) = b /\ r \notin Ctl
  BY BlockFacts, BlockOfIn DEF Blocks
<1>2. CASE r \in Stale
  BY <1>1, <1>2 DEF Stale, PagesInv, BlocksInv
<1>3. CASE r \notin Stale
  <2>1. page[r] = hw[r] \/ b \in valid \union dirty
    BY <1>1, <1>3 DEF Stale
  <2>2. QED
    BY <1>3, <2>1 DEF PagesInv, BlocksInv
<1>4. QED
  BY <1>2, <1>3

\* A sync makes all of the page right that has not gone astray.
LEMMA SyncedRight ==
  ASSUME RegsOK, PagesInv
  PROVE  Synced \in [PageRegs -> Values] /\ \A r \in PageRegs : r \notin astray => Synced[r] = truth[r]
<1>1. \A r \in PageRegs : Synced[r] = IF r \in Stale THEN hw[r] ELSE page[r]
  BY DEF Synced
<1>2. \A r \in Stale : r \in Carried /\ r \notin Ctl
  BY DEF Stale
<1>3. Synced \in [PageRegs -> Values]
  <2>1. \A r \in PageRegs : Synced[r] \in Values
    BY <1>1, <1>2 DEF RegsOK
  <2>2. QED
    BY <2>1 DEF Synced
<1>4. ASSUME NEW r \in PageRegs, r \notin astray PROVE Synced[r] = truth[r]
  <2>1. CASE r \in Ctl \union Vncr
    <3>1. r \notin Stale
      BY <1>2, <2>1, RegFacts
    <3>2. QED
      BY <1>1, <1>4, <2>1, <3>1 DEF PagesInv, ControlsInv
  <2>2. CASE r \notin Ctl \union Vncr
    <3>1. PICK b \in Blocks : r \in In(b)
      BY <2>2, RegFacts, BlockFacts
    <3>2. b # "CONTROLS"
      BY <2>2, <3>1, BlockFacts
    <3>3. QED
      BY <1>1, <1>4, <3>1, <3>2, FreshRight
  <2>3. QED
    BY <2>1, <2>2
<1>5. QED
  BY <1>3, <1>4

-----------------------------------------------------------------------------
(* The steps: the guest, the kernel and the devices. *)

LEMMA GuestWriteInv ==
  ASSUME RegsInv, UNCHANGED right, NEW r \in Carried, NEW v \in Values, GuestWrite(r, v)
  PROVE  RegsInv'
<1>0. /\ RegsOK /\ PagesInv /\ LibInv /\ right /\ at = "guest" /\ at' = at
      /\ UNCHANGED <<acc, x, page, valid, dirty, tab, slots, idsLoaded, vmmReg>>
      /\ hw' = [hw EXCEPT ![r] = v] /\ r \notin Ctl /\ r \in PageRegs
      /\ astray' = IF page[r] # v /\ BlockOf(r) \in dirty THEN astray \union {r} ELSE astray \ {r}
  BY RegFacts DEF RegsInv, GuestWrite, libVars
<1>1. /\ truth' \in [Truths -> Values] /\ writes' \in 0 .. MaxWrites
      /\ \A m \in Truths : truth'[m] = IF m = r THEN v ELSE truth[m]
  BY <1>0, WrittenFacts DEF GuestWrite
<1>2. hw' \in [Carried -> Values] /\ \A q \in Carried : hw'[q] = IF q = r THEN v ELSE hw[q]
  BY <1>0 DEF RegsOK
<1>3. RegsOK'
  BY <1>0, <1>1, <1>2 DEF RegsOK
<1>4. BlocksInv'
  <2>1. SUFFICES ASSUME NEW b \in Blocks, NEW q \in In(b), q \notin astray'
                 PROVE  (b \in valid' \union dirty' => page'[q] = truth'[q]) /\ hw'[q] = truth'[q]
    BY DEF BlocksInv
  <2>2. q \in Carried /\ q \in Truths /\ BlockOf(q) = b /\ valid' = {}
    BY <1>0, BlockFacts, RegFacts, BlockOfIn DEF PagesInv, PlaceInv
  <2>3. CASE q = r
    BY <1>0, <1>1, <1>2, <2>1, <2>2, <2>3
  <2>4. CASE q # r
    <3>1. q \notin astray
      BY <1>0, <2>1, <2>4
    <3>2. QED
      BY <1>0, <1>1, <1>2, <2>1, <2>2, <2>4, <3>1 DEF PagesInv, BlocksInv
  <2>5. QED
    BY <2>3, <2>4
<1>5. ControlsInv'
  <2>1. \A q \in Ctl \union Vncr : q # r /\ q \in Truths
    BY <1>0, RegFacts
  <2>2. \A q \in Ctl \union Vncr : q \notin astray' => q \notin astray
    BY <1>0, <2>1
  <2>3. QED
    BY <1>0, <1>1, <2>1, <2>2 DEF PagesInv, ControlsInv
<1>6. PlaceInv'
  BY <1>0 DEF PagesInv, PlaceInv
<1>7. LibInv'
  BY <1>0, <1>1, LibUntouched
<1>8. QED
  BY <1>0, <1>3, <1>4, <1>5, <1>6, <1>7 DEF RegsInv, PagesInv

LEMMA TrapInv ==
  ASSUME RegsInv, UNCHANGED right, NEW n \in Names, NEW read \in BOOLEAN, NEW v \in Values,
         NEW now \in ExitBlocks, Trap(n, read, v, now)
  PROVE  RegsInv'
<1>0. /\ RegsOK /\ PagesInv /\ LibInv /\ right /\ at = "guest" /\ at' = "trap"
      /\ UNCHANGED <<hw, dirty, astray, tab, slots, idsLoaded, vmmReg, truth, writes>> /\ Exit(now)
      /\ x' \in Values
  BY DEF RegsInv, Trap, libVars, hist
<1>1. acc' \in [name : Names, read : BOOLEAN] /\ now \in SUBSET Blocks
  BY RegsAssumption DEF Trap
<1>2. PagesInv' /\ page' \in [PageRegs -> Values] /\ valid' \subseteq Blocks
  BY <1>0, <1>1, ExitPages
<1>3. RegsOK'
  BY <1>0, <1>1, <1>2 DEF RegsOK
<1>4. LibInv'
  BY <1>0, LibUntouched
<1>5. QED
  BY <1>0, <1>2, <1>3, <1>4 DEF RegsInv

LEMMA OtherExitInv ==
  ASSUME RegsInv, UNCHANGED right, NEW now \in ExitBlocks, OtherExit(now)
  PROVE  RegsInv'
<1>0. /\ RegsOK /\ PagesInv /\ LibInv /\ right /\ at = "guest" /\ at' = "vmm"
      /\ UNCHANGED <<acc, x, hw, dirty, astray, tab, slots, idsLoaded, vmmReg, truth, writes>> /\ Exit(now)
  BY DEF RegsInv, OtherExit, libVars, hist
<1>1. now \in SUBSET Blocks
  BY RegsAssumption
<1>2. PagesInv' /\ page' \in [PageRegs -> Values] /\ valid' \subseteq Blocks
  BY <1>0, <1>1, ExitPages
<1>3. RegsOK'
  BY <1>0, <1>2 DEF RegsOK
<1>4. LibInv'
  BY <1>0, LibUntouched
<1>5. QED
  BY <1>0, <1>2, <1>3, <1>4 DEF RegsInv

\* An entry carries the marked blocks, of which what is not astray is right.
LEMMA EnterInv ==
  ASSUME RegsInv, UNCHANGED right, Enter
  PROVE  RegsInv'
<1>0. /\ RegsOK /\ PagesInv /\ LibInv /\ right /\ at # "guest" /\ at' = "guest"
      /\ UNCHANGED <<page, astray, tab, slots, idsLoaded, vmmReg, truth, writes>>
      /\ dirty' = {} /\ valid' = {} /\ x' = 0 /\ acc' = NoAccess
  BY DEF RegsInv, Enter, libVars, hist
<1>1. \A r \in Carried : hw'[r] = IF \E b \in dirty : r \in In(b) THEN page[r] ELSE hw[r]
  BY DEF Enter
<1>2. hw' \in [Carried -> Values]
  <2>1. \A r \in Carried : hw'[r] \in Values
    BY <1>0, <1>1, RegFacts DEF RegsOK
  <2>2. QED
    BY <2>1 DEF Enter
<1>3. RegsOK'
  BY <1>0, <1>2, NoAccessType, RegsAssumption DEF RegsOK
<1>4. ASSUME NEW b \in Blocks, NEW r \in In(b), r \notin astray PROVE hw'[r] = truth[r]
  <2>1. r \in Carried
    BY BlockFacts
  <2>2. CASE b \in dirty
    BY <1>0, <1>1, <1>4, <2>1, <2>2 DEF PagesInv, BlocksInv
  <2>3. CASE b \notin dirty
    <3>1. \A c \in dirty : r \notin In(c)
      BY <1>0, <2>3, BlockFacts DEF RegsOK
    <3>2. QED
      BY <1>0, <1>1, <1>4, <2>1, <2>3, <3>1 DEF PagesInv, BlocksInv
  <2>4. QED
    BY <2>2, <2>3
<1>5. BlocksInv'
  BY <1>0, <1>4 DEF BlocksInv
<1>6. ControlsInv' /\ PlaceInv'
  BY <1>0 DEF PagesInv, ControlsInv, PlaceInv
<1>7. LibInv'
  BY <1>0, LibUntouched
<1>8. QED
  BY <1>0, <1>3, <1>5, <1>6, <1>7 DEF RegsInv, PagesInv

\* A device's store: where a mark goes, or comes back, the two copies are the same,
\* or the register is astray.
LEMMA DeviceStoreInv ==
  ASSUME RegsInv, DevicesOK, NEW d \in Devices, NEW bits \in SUBSET {"CONTROLS"}, DeviceStore(d, bits)
  PROVE  RegsInv' /\ DevicesOK'
<1>0. /\ RegsOK /\ PagesInv /\ LibInv /\ right
      /\ UNCHANGED <<at, acc, x, page, hw, valid, tab, slots, idsLoaded, vmmReg, right, truth, writes>>
      /\ dirty' = seen[d] \union bits
      /\ astray' = astray \union {r \in Carried : page[r] # hw[r] /\ BlockOf(r) \in dirty \ dirty'}
                          \union {r \in Stale : BlockOf(r) \in dirty'}
  BY DEF RegsInv, DeviceStore, libVars, hist
<1>1. DevicesOK' /\ dirty' \subseteq Blocks
  BY <1>0 DEF DevicesOK, DeviceStore, Blocks
<1>2. RegsOK'
  <2>1. astray' \subseteq Carried
    BY <1>0 DEF RegsOK, Stale
  <2>2. QED
    BY <1>0, <1>1, <2>1 DEF RegsOK
<1>3. BlocksInv'
  <2>1. SUFFICES ASSUME NEW b \in Blocks, NEW r \in In(b), r \notin astray'
                 PROVE  /\ b \in valid \union dirty' => page[r] = truth[r]
                        /\ b \notin dirty' \/ at = "guest" => hw[r] = truth[r]
    BY <1>0 DEF BlocksInv
  <2>2. r \in Carried /\ BlockOf(r) = b /\ r \notin astray
    BY <1>0, <2>1, BlockFacts, BlockOfIn
  <2>3. b \in dirty /\ b \notin dirty' => page[r] = hw[r]
    BY <1>0, <2>1, <2>2
  <2>4. /\ b \in valid \union dirty => page[r] = truth[r]
        /\ b \notin dirty \/ at = "guest" => hw[r] = truth[r]
    BY <1>0, <2>2 DEF PagesInv, BlocksInv
  <2>5. b \in dirty' /\ b \notin valid \union dirty => page[r] = truth[r]
    <3>1. CASE b = "CONTROLS"
      BY <1>0, <2>2, <3>1, BlockFacts DEF PagesInv, ControlsInv
    <3>2. CASE b # "CONTROLS"
      <4>1. r \notin Ctl
        BY <3>2, BlockFacts DEF Blocks
      <4>2. b \in dirty' => r \notin Stale
        BY <1>0, <2>1, <2>2
      <4>3. QED
        BY <1>0, <2>2, <3>2, <4>2, FreshRight
    <3>3. QED
      BY <3>1, <3>2
  <2>6. QED
    BY <2>3, <2>4, <2>5
<1>4. ControlsInv' /\ PlaceInv'
  BY <1>0 DEF PagesInv, ControlsInv, PlaceInv
<1>5. LibInv'
  BY <1>0, LibUntouched
<1>6. QED
  BY <1>0, <1>1, <1>2, <1>3, <1>4, <1>5 DEF RegsInv, PagesInv

LEMMA DeviceLoadInv ==
  ASSUME RegsInv, DevicesOK, NEW d \in Devices, DeviceLoad(d)
  PROVE  RegsInv' /\ DevicesOK'
<1>0. /\ RegsOK /\ PagesInv /\ LibInv /\ right
      /\ UNCHANGED <<at, acc, x, page, hw, valid, dirty, astray, tab, slots, idsLoaded, vmmReg, right, truth, writes>>
  BY DEF RegsInv, DeviceLoad, pageVars, libVars, hist
<1>1. DevicesOK'
  BY <1>0 DEF DevicesOK, DeviceLoad, RegsOK
<1>2. RegsOK'
  BY <1>0 DEF RegsOK
<1>3. PagesInv'
  BY <1>0 DEF PagesInv, BlocksInv, ControlsInv, PlaceInv
<1>4. LibInv'
  BY <1>0, LibUntouched
<1>5. QED
  BY <1>0, <1>1, <1>2, <1>3, <1>4 DEF RegsInv

-----------------------------------------------------------------------------
(* The steps: service_nv2_access. *)

\* A register with a place in the page, written there and marked: what the marked
\* blocks have of others is right, or goes astray.
LEMMA ArrivesInv ==
  ASSUME RegsOK, PagesInv, at # "guest", at' # "guest", NEW r \in PageRegs, NEW v \in Values,
         NEW bits \in SUBSET Blocks, \A b \in Blocks : r \in In(b) => b \in bits,
         page' = [page EXCEPT ![r] = v], UNCHANGED <<hw, valid>>, MarkDirty(bits), Arrives(r, bits),
         \A m \in Truths : truth'[m] = IF m = r THEN v ELSE truth[m]
  PROVE  /\ PagesInv' /\ page' \in [PageRegs -> Values]
         /\ dirty' \subseteq Blocks /\ astray' \subseteq Carried
<1>1. /\ dirty' = dirty \union bits /\ page \in [PageRegs -> Values]
      /\ astray' = (astray \union {q \in Stale : BlockOf(q) \in bits}) \ {r}
  BY DEF MarkDirty, Arrives, RegsOK
<1>2. dirty' \subseteq Blocks /\ astray' \subseteq Carried
  BY <1>1 DEF RegsOK, Stale
<1>3. \A q : q \in astray => q = r \/ q \in astray'
  BY <1>1
<1>4. ASSUME NEW b \in Blocks, NEW q \in In(b), q \notin astray', q # r, b \in valid' \union dirty'
      PROVE  page[q] = truth[q]
  <2>1. q \notin astray /\ BlockOf(q) = b
    BY <1>3, <1>4, BlockOfIn
  <2>2. CASE b \in valid \union dirty
    BY <2>1, <2>2 DEF PagesInv, BlocksInv
  <2>3. CASE b = "CONTROLS"
    BY <2>1, <2>3, BlockFacts DEF PagesInv, ControlsInv
  <2>4. CASE b \notin valid \union dirty /\ b # "CONTROLS"
    <3>1. q \notin Stale
      BY <1>1, <1>4, <2>1, <2>4
    <3>2. QED
      BY <2>1, <2>4, <3>1, FreshRight
  <2>5. QED
    BY <2>2, <2>3, <2>4
<1>5. \A q \in Ctl \union Vncr : q \notin astray' /\ q # r => page[q] = truth[q]
  BY <1>3 DEF PagesInv, ControlsInv
<1>6. dirty \subseteq dirty' /\ \A b \in Blocks : r \in In(b) /\ r \notin astray' => b \in dirty' \/ hw[r] = v
  BY <1>1
<1>7. \A b \in Blocks : \A q \in In(b) : q \notin astray' /\ q # r /\ b \in valid' \union dirty' => page[q] = truth[q]
  BY <1>4
<1>8. PagesInv' /\ page' \in [PageRegs -> Values]
  BY <1>1, <1>3, <1>5, <1>6, <1>7, PageWritten
<1>9. QED
  BY <1>2, <1>8

\* The block of the register, if it is in one, is among those that are marked.
LEMMA TransferInv ==
  ASSUME RegsInv, at = "trap", NEW r \in PageRegs, r = Silicon(acc.name), NEW bits \in SUBSET Blocks,
         \A b \in Blocks : r \in In(b) => b \in bits, r \notin Ctl, Transfer(r, bits)
  PROVE  RegsInv'
<1>0. /\ RegsOK /\ PagesInv /\ LibInv /\ right /\ page[r] \in Values /\ x \in Values
      /\ UNCHANGED <<hw, valid, tab, slots, idsLoaded>> /\ Answer(page[r])
  BY DEF RegsInv, Transfer, libVars, RegsOK
<1>1. /\ at' = "ready" /\ acc' = NoAccess /\ vmmReg' = vmmReg /\ x' \in Values
      /\ truth' \in [Truths -> Values] /\ writes' \in 0 .. MaxWrites
      /\ acc.read => truth' = truth /\ (page[r] = truth[r] \/ r \in astray \union Stale => right')
      /\ ~acc.read => right' /\ \A m \in Truths : truth'[m] = IF m = r THEN x ELSE truth[m]
  BY <1>0, AnswerFacts
<1>2. page[r] = truth[r] \/ r \in astray \union Stale
  <2>1. CASE r \in Vncr
    BY <1>0, <2>1 DEF PagesInv, ControlsInv
  <2>2. CASE r \notin Vncr
    <3>1. PICK b \in Blocks : r \in In(b)
      BY <2>2, RegFacts, BlockFacts
    <3>2. b # "CONTROLS"
      BY <3>1, BlockFacts
    <3>3. QED
      BY <1>0, <3>1, <3>2, FreshRight
  <2>3. QED
    BY <2>1, <2>2
<1>3. LibInv'
  BY <1>0, <1>1, LibUntouched
<1>4. CASE acc.read
  <2>1. UNCHANGED <<page, dirty, astray>>
    BY <1>4 DEF Transfer
  <2>2. right'
    BY <1>1, <1>2, <1>4
  <2>3. PagesInv'
    BY <1>0, <1>1, <1>4, <2>1, PagesKept
  <2>4. RegsOK'
    BY <1>0, <1>1, <1>4, <2>1, <2>2, NoAccessType DEF RegsOK
  <2>5. QED
    BY <1>3, <2>2, <2>3, <2>4 DEF RegsInv
<1>5. CASE ~acc.read
  <2>1. page' = [page EXCEPT ![r] = x] /\ MarkDirty(bits) /\ Arrives(r, bits)
    BY <1>5 DEF Transfer
  <2>2. PagesInv' /\ page' \in [PageRegs -> Values] /\ dirty' \subseteq Blocks /\ astray' \subseteq Carried
    <3>1. at # "guest" /\ at' # "guest" /\ UNCHANGED <<hw, valid>>
      BY <1>0, <1>1
    <3>2. \A m \in Truths : truth'[m] = IF m = r THEN x ELSE truth[m]
      BY <1>1, <1>5
    <3>3. QED
      BY <1>0, <2>1, <3>1, <3>2, ArrivesInv
  <2>3. right'
    BY <1>1, <1>5
  <2>4. RegsOK'
    BY <1>0, <1>1, <2>2, <2>3, NoAccessType DEF RegsOK
  <2>5. QED
    BY <1>3, <2>2, <2>3, <2>4 DEF RegsInv
<1>6. QED
  BY <1>4, <1>5

LEMMA ServePageInv ==
  ASSUME RegsInv, ServeGxf \/ ServeCsselr \/ ServeNv2
  PROVE  RegsInv'
<1>1. CASE ServeGxf
  <2>1. at = "trap" /\ acc.name \in Ext /\ Transfer(acc.name, {"GXF"})
    BY <1>1 DEF ServeGxf, Ext
  <2>2. acc.name \in PageRegs /\ acc.name = Silicon(acc.name) /\ acc.name \notin Ctl
    BY <2>1, RegFacts DEF Ext, Shared, Ctl
  <2>3. {"GXF"} \in SUBSET Blocks /\ \A b \in Blocks : acc.name \in In(b) => b \in {"GXF"}
    BY <2>1, BlockFacts DEF Blocks
  <2>4. QED
    BY <2>1, <2>2, <2>3, TransferInv
<1>2. CASE ServeCsselr
  <2>1. at = "trap" /\ acc.name \in Shared /\ Transfer(acc.name, {"SYSREGS"})
    BY <1>2 DEF ServeCsselr, Shared
  <2>2. acc.name \in PageRegs /\ acc.name = Silicon(acc.name) /\ acc.name \notin Ctl
    BY <2>1, RegFacts DEF Ext, Shared, Ctl
  <2>3. {"SYSREGS"} \in SUBSET Blocks /\ \A b \in Blocks : acc.name \in In(b) => b \in {"SYSREGS"}
    BY <2>1, BlockFacts DEF Blocks
  <2>4. QED
    BY <2>1, <2>2, <2>3, TransferInv
<1>3. CASE ServeNv2
  <2>1. at = "trap" /\ acc.name \in {"TTBR0_EL2", "HCR_EL2"}
        /\ Transfer(PlaceOf(acc.name), IF PlaceOf(acc.name) \in Banked THEN {"SYSREGS"} ELSE {})
    BY <1>3 DEF ServeNv2
  <2>2. Silicon(acc.name) = PlaceOf(acc.name) /\ (PlaceOf(acc.name) \in Banked \/ PlaceOf(acc.name) \in Vncr)
    BY <2>1 DEF Silicon, PlaceOf, Banked, Vncr
  <2>3. PlaceOf(acc.name) \in PageRegs /\ PlaceOf(acc.name) \notin Ctl
    BY <2>2, RegFacts DEF Banked, Vncr, Ctl
  <2>4. CASE PlaceOf(acc.name) \in Banked
    <3>1. {"SYSREGS"} \in SUBSET Blocks /\ \A b \in Blocks : PlaceOf(acc.name) \in In(b) => b \in {"SYSREGS"}
      BY <2>4, BlockFacts DEF Blocks
    <3>2. QED
      BY <2>1, <2>2, <2>3, <2>4, <3>1, TransferInv
  <2>5. CASE PlaceOf(acc.name) \notin Banked
    <3>1. {} \in SUBSET Blocks /\ \A b \in Blocks : PlaceOf(acc.name) \in In(b) => b \in {}
      BY <2>2, <2>5, BlockFacts
    <3>2. QED
      BY <2>1, <2>2, <2>3, <2>5, <3>1, TransferInv
  <2>6. QED
    BY <2>4, <2>5
<1>4. QED
  BY <1>1, <1>2, <1>3

LEMMA ServeAtInv ==
  ASSUME RegsInv, NEW par \in Values, ServeAt(par)
  PROVE  RegsInv'
<1>0. /\ RegsOK /\ PagesInv /\ LibInv /\ right /\ at = "trap" /\ at' = "ready"
      /\ UNCHANGED <<acc, x, hw, valid, tab, slots, idsLoaded, vmmReg, right>>
      /\ page' = [page EXCEPT !["PAR_EL1"] = par]
      /\ MarkDirty({"SYSREGS"}) /\ Arrives("PAR_EL1", {"SYSREGS"}) /\ Written("PAR_EL1", par)
  BY DEF RegsInv, ServeAt, libVars
<1>1. /\ truth' \in [Truths -> Values] /\ writes' \in 0 .. MaxWrites
      /\ \A m \in Truths : truth'[m] = IF m = "PAR_EL1" THEN par ELSE truth[m]
  BY <1>0, WrittenFacts
<1>2. "PAR_EL1" \in In("SYSREGS") /\ "PAR_EL1" \in PageRegs /\ {"SYSREGS"} \in SUBSET Blocks
  BY RegFacts, BlockFacts DEF Shared, Blocks
<1>3. \A b \in Blocks : "PAR_EL1" \in In(b) => b \in {"SYSREGS"}
  BY <1>2, BlockFacts
<1>4. PagesInv' /\ page' \in [PageRegs -> Values] /\ dirty' \subseteq Blocks /\ astray' \subseteq Carried
  <2>1. at # "guest" /\ at' # "guest" /\ UNCHANGED <<hw, valid>>
    BY <1>0
  <2>2. \A m \in Truths : truth'[m] = IF m = "PAR_EL1" THEN par ELSE truth[m]
    BY <1>1
  <2>3. QED
    BY <1>0, <1>2, <1>3, <2>1, <2>2, ArrivesInv
<1>5. RegsOK'
  BY <1>0, <1>1, <1>4 DEF RegsOK
<1>6. LibInv'
  BY <1>0, <1>1, <1>2, LibUntouched
<1>7. QED
  BY <1>0, <1>4, <1>5, <1>6 DEF RegsInv

LEMMA ServeNothingInv ==
  ASSUME RegsInv, ServeMaintenance \/ \E held \in Values : ServeHeld(held)
  PROVE  RegsInv'
<1>0. /\ RegsOK /\ PagesInv /\ LibInv /\ right /\ at = "trap" /\ at' = "ready"
      /\ UNCHANGED <<page, hw, valid, dirty, astray, tab, slots, idsLoaded, vmmReg, right, truth, writes>>
      /\ acc' = NoAccess /\ x' \in Values
  BY DEF RegsInv, ServeMaintenance, ServeHeld, libVars, pageVars, hist, RegsOK
<1>1. RegsOK'
  BY <1>0, NoAccessType DEF RegsOK
<1>2. PagesInv'
  BY <1>0, PagesKept
<1>3. LibInv'
  BY <1>0, LibUntouched
<1>4. QED
  BY <1>0, <1>1, <1>2, <1>3 DEF RegsInv

\* What is handed over leaves everything as it is.
LEMMA HandOverInv ==
  ASSUME RegsInv, at = "trap", HandOver, UNCHANGED <<page, hw, valid, dirty, astray, slots, idsLoaded>>,
         tab' \in [Tables -> Seq([enc : TableNames, value : Values])],
         \A t \in Tables : Len(tab'[t]) <= Max(t),
         \A t \in Tables : Ready(t)' = Ready(t), Handable(acc)
  PROVE  RegsInv'
<1>0. /\ RegsOK /\ PagesInv /\ LibInv /\ right /\ at' = "handed"
      /\ UNCHANGED <<acc, x, vmmReg, right, truth, writes>>
  BY DEF RegsInv, HandOver, hist
<1>1. RegsOK'
  BY <1>0 DEF RegsOK
<1>2. PagesInv'
  BY <1>0, PagesKept
<1>3. LibInv'
  BY <1>0, LibKept
<1>4. QED
  BY <1>0, <1>1, <1>2, <1>3 DEF RegsInv

LEMMA ServeFixedInv ==
  ASSUME RegsInv, ServeFixed \/ Unmatched
  PROVE  RegsInv'
<1>0. /\ RegsOK /\ PagesInv /\ LibInv /\ right /\ at = "trap"
      /\ UNCHANGED <<page, hw, valid, dirty, astray, tab, slots, idsLoaded>>
  BY DEF RegsInv, ServeFixed, Unmatched, libVars, pageVars
<1>1. CASE HandOver /\ (acc.name \in VmmOwn \/ (acc.name \in FixedNames /\ ~acc.read))
  <2>1. \A t \in Tables : Ready(t)' = Ready(t)
    BY <1>0 DEF Ready
  <2>2. Handable(acc)
    BY <1>1 DEF Handable
  <2>3. /\ tab' \in [Tables -> Seq([enc : TableNames, value : Values])]
        /\ \A t \in Tables : Len(tab'[t]) <= Max(t)
    BY <1>0 DEF RegsOK
  <2>4. QED
    BY <1>0, <1>1, <2>1, <2>2, <2>3, HandOverInv
<1>2. CASE ServeFixed /\ acc.read
  <2> DEFINE v == IF acc.name = "CLIDR_EL1" THEN 1 ELSE page["CSSELR_EL1"]
  <2>1. acc.name \in FixedNames /\ Answer(v)
    BY <1>2 DEF ServeFixed
  <2>2. "CSSELR_EL1" \in In("SYSREGS") /\ "SYSREGS" \in Blocks /\ "CSSELR_EL1" \in PageRegs
    BY BlockFacts, RegFacts DEF Shared, Blocks
  <2>3. page["CSSELR_EL1"] = truth["CSSELR_EL1"] \/ "CSSELR_EL1" \in astray \union Stale
    BY <1>0, <2>2, FreshRight
  <2>4. v \in Values
    BY <1>0, <2>2, RegsAssumption DEF RegsOK
  <2>5. v = truth[Silicon(acc.name)] \/ Silicon(acc.name) \in astray \union Stale
    <3>1. CASE acc.name = "CLIDR_EL1"
      BY <1>0, <3>1, OwnFacts DEF LibInv, SlotsInv
    <3>2. CASE acc.name = "CCSIDR_EL1"
      BY <2>3, <3>2 DEF Silicon
    <3>3. QED
      BY <2>1, <3>1, <3>2 DEF FixedNames
  <2> HIDE DEF v
  <2>6. /\ at' = "ready" /\ acc' = NoAccess /\ vmmReg' = vmmReg /\ x' \in Values
        /\ truth' \in [Truths -> Values] /\ writes' \in 0 .. MaxWrites
        /\ truth' = truth /\ (v = truth[Silicon(acc.name)] \/ Silicon(acc.name) \in astray \union Stale => right')
    BY <1>0, <1>2, <2>1, <2>4, AnswerFacts
  <2>7. right'
    BY <2>5, <2>6
  <2>8. RegsOK'
    BY <1>0, <2>6, <2>7, NoAccessType DEF RegsOK
  <2>9. PagesInv'
    BY <1>0, <2>6, PagesKept
  <2>10. LibInv'
    BY <1>0, <2>6, LibUntouched
  <2>11. QED
    BY <2>7, <2>8, <2>9, <2>10 DEF RegsInv
<1>3. QED
  BY <1>1, <1>2 DEF ServeFixed, Unmatched

LEMMA ServeSlotInv ==
  ASSUME RegsInv, ServeSlot
  PROVE  RegsInv'
<1> DEFINE n == "TPIDR_GL2"
<1>0. /\ RegsOK /\ PagesInv /\ LibInv /\ right /\ at = "trap" /\ acc.name = n
      /\ UNCHANGED <<page, hw, valid, dirty, astray, tab, idsLoaded>>
      /\ Answer(slots[n]) /\ slots' = IF acc.read THEN slots ELSE [slots EXCEPT ![n] = x]
  BY DEF RegsInv, ServeSlot, pageVars
<1>1. n \in Slots /\ n \in Truths /\ n \notin PageRegs /\ Silicon(n) = n
  BY OwnFacts DEF Slots
<1>2. slots[n] \in Values /\ x \in Values /\ slots[n] = truth[n]
  BY <1>0, <1>1 DEF RegsOK, LibInv, SlotsInv
<1>3. /\ at' = "ready" /\ acc' = NoAccess /\ vmmReg' = vmmReg /\ x' \in Values
      /\ truth' \in [Truths -> Values] /\ writes' \in 0 .. MaxWrites
      /\ acc.read => truth' = truth /\ (slots[n] = truth[n] => right')
      /\ ~acc.read => right' /\ \A m \in Truths : truth'[m] = IF m = n THEN x ELSE truth[m]
  BY <1>0, <1>1, <1>2, AnswerFacts
<1>4. right'
  BY <1>0, <1>2, <1>3
<1>5. slots' \in [Slots -> Values]
  BY <1>0, <1>2 DEF RegsOK
<1>6. RegsOK'
  BY <1>0, <1>3, <1>4, <1>5, NoAccessType DEF RegsOK
<1>7. PagesInv'
  <2>1. \A r \in PageRegs : truth'[r] = truth[r]
    BY <1>1, <1>3, RegFacts
  <2>2. QED
    BY <1>0, <1>3, <2>1, PagesKept
<1>8. LibInv'
  <2>1. CASE acc.read
    BY <1>0, <1>3, <2>1, LibUntouched
  <2>2. CASE ~acc.read
    <3>1. \A m \in Truths : m # n => truth'[m] = truth[m]
      BY <1>3, <2>2
    <3>2. \A t \in Tables : \A m : m \in Keys(t) => truth'[m] = truth[m]
      BY <1>1, <3>1, KeyFacts
    <3>3. EntriesInv' /\ AbsentInv'
      <4>1. \A t : Ready(t)' = Ready(t)
        BY <1>0 DEF Ready
      <4>2. (\A t, m : Entries(t, m)' = Entries(t, m)) /\ \A t : Room(t)' <=> Room(t)
        BY <4>1 DEF Entries, Room
      <4>3. QED
        BY <1>0, <1>3, <3>2, <4>1, <4>2 DEF LibInv, EntriesInv, AbsentInv
    <3>4. SlotsInv'
      <4>1. slots'[n] = x /\ truth'[n] = x
        BY <1>0, <1>1, <1>3, <2>2 DEF RegsOK
      <4>2. \A m \in Slots : m # n => slots'[m] = slots[m]
        BY <1>0, <2>2 DEF RegsOK
      <4>3. \A m \in VmmOwn \union {"CLIDR_EL1"} : m # n /\ truth'[m] = truth[m]
        BY <1>1, <3>1, OwnFacts
      <4>4. \A m \in Slots : m # n => truth'[m] = truth[m]
        BY <3>1, OwnFacts
      <4>5. QED
        BY <1>0, <1>3, <4>1, <4>2, <4>3, <4>4 DEF LibInv, SlotsInv, Slots
    <3>5. HandedInv'
      BY <1>3 DEF HandedInv
    <3>6. QED
      BY <3>3, <3>4, <3>5 DEF LibInv
  <2>3. QED
    BY <2>1, <2>2
<1>9. QED
  BY <1>4, <1>6, <1>7, <1>8 DEF RegsInv

\* The table is full: it is made ready, and the VMM answers.
LEMMA ServeFullInv ==
  ASSUME RegsInv, ServeTable, NEW t \in Tables, t = TableOf(acc.name),
         Entries(t, Key(acc.name)) = {}, ~Room(t)
  PROVE  RegsInv'
<1>0. /\ RegsOK /\ LibInv /\ right /\ at = "trap" /\ acc.name \in TableNames
      /\ UNCHANGED <<page, hw, valid, dirty, astray, slots, idsLoaded>>
      /\ HandOver /\ tab' = [tab EXCEPT ![t] = Ready(t)]
  BY DEF RegsInv, ServeTable, pageVars, Key
<1>1. t \in Tables /\ Key(acc.name) \in Keys(t) /\ (t # "ctrr" => Key(acc.name) = acc.name)
  BY <1>0, TableFacts
<1>2. t # "ctrr"
  BY <1>0, <1>1, CtrrRoom DEF LibInv
<1>3. Handable(acc)
  BY <1>1, <1>2 DEF Handable
<1>4. Ready(t) \in Seq([enc : TableNames, value : Values]) /\ Len(Ready(t)) <= Max(t)
  BY <1>0, <1>1, ReadyType DEF Entry
<1>5. /\ tab' \in [Tables -> Seq([enc : TableNames, value : Values])]
      /\ \A s \in Tables : tab'[s] = IF s = t THEN Ready(t) ELSE tab[s]
  BY <1>0, <1>4 DEF RegsOK
<1>6. \A s \in Tables : Len(tab'[s]) <= Max(s)
  BY <1>0, <1>4, <1>5 DEF RegsOK
<1>7. \A s \in Tables : Ready(s)' = Ready(s)
  <2>1. ASSUME NEW s \in Tables, s # t PROVE Ready(s)' = Ready(s)
    BY <1>5, <2>1 DEF Ready
  <2>2. Ready(t)' = Ready(t)
    <3>1. tab'[t] = Ready(t)
      BY <1>1, <1>5
    <3>2. <<[enc |-> "ICC_SRE_EL1", value |-> 1]>> # <<>>
      OBVIOUS
    <3>3. QED
      BY <1>1, <1>5, <3>1, <3>2 DEF Ready
  <2>3. QED
    BY <2>1, <2>2
<1>8. QED
  BY <1>0, <1>3, <1>5, <1>6, <1>7, HandOverInv

\* The register has an entry, or gets one.
LEMMA ServeEntryInv ==
  ASSUME RegsInv, ServeTable, NEW t \in Tables, t = TableOf(acc.name),
         NEW n \in Keys(t), n = Key(acc.name), Entries(t, n) # {} \/ Room(t)
  PROVE  RegsInv'
<1> DEFINE W == With(t, n)
           p == Index(W, n)
           V == IF acc.read THEN W ELSE [W EXCEPT ![p].value = x]
<1>0. /\ RegsOK /\ PagesInv /\ LibInv /\ right /\ at = "trap" /\ acc.name \in TableNames
      /\ UNCHANGED <<page, hw, valid, dirty, astray, slots, idsLoaded>>
      /\ Answer(W[p].value) /\ tab' = [tab EXCEPT ![t] = V]
  BY DEF RegsInv, ServeTable, pageVars, Key
<1>1. t \in Tables /\ n \in Keys(t) /\ Silicon(acc.name) = n
  BY <1>0, TableFacts
<1>2. n \in Truths /\ n \notin PageRegs /\ n \notin Slots /\ n \notin VmmOwn /\ n \notin FixedNames
      /\ \A s \in Tables : n \in Keys(s) => s = t
  BY <1>1, KeyFacts
<1>3. /\ W \in Seq(Entry) /\ Len(W) \in Nat /\ Len(W) <= Max(t)
      /\ p \in 1 .. Len(W) /\ W[p].enc = n
      /\ \A k \in 1 .. Len(W) :
           /\ W[k].enc \in Keys(t) /\ W[k].value = truth[W[k].enc]
           /\ \A j \in 1 .. Len(W) : W[k].enc = W[j].enc => k = j
      /\ \A m : Entries(t, m) # {} => \E k \in 1 .. Len(W) : W[k].enc = m
      /\ Len(Ready(t)) <= Len(W)
  <2>1. RegsOK /\ EntriesInv /\ AbsentInv
    BY <1>0 DEF LibInv
  <2>2. QED
    BY <1>1, <2>1, WithFacts
<1>4. W[p] \in Entry /\ W[p].value \in Values /\ W[p].value = truth[n] /\ x \in Values
  <2> HIDE DEF W, p
  <2>1. W[p] \in Entry
    BY <1>3
  <2>2. W[p].value \in Values
    BY <2>1 DEF Entry
  <2>3. QED
    BY <1>0, <1>3, <2>1, <2>2 DEF RegsOK
<1>5. /\ at' = "ready" /\ acc' = NoAccess /\ vmmReg' = vmmReg /\ x' \in Values
      /\ truth' \in [Truths -> Values] /\ writes' \in 0 .. MaxWrites
      /\ acc.read => truth' = truth /\ (W[p].value = truth[n] => right')
      /\ ~acc.read => right' /\ \A m \in Truths : truth'[m] = IF m = n THEN x ELSE truth[m]
  BY <1>0, <1>1, <1>4, AnswerFacts
<1>6. right'
  BY <1>0, <1>4, <1>5
<1>7. /\ V \in Seq(Entry) /\ Len(V) = Len(W)
      /\ \A k \in 1 .. Len(W) : V[k].enc = W[k].enc /\ V[k].value = IF ~acc.read /\ k = p THEN x ELSE W[k].value
  <2>1. CASE acc.read
    BY <1>3, <2>1
  <2>2. CASE ~acc.read
    <3> HIDE DEF W, p
    <3>1. W \in [1 .. Len(W) -> Entry]
      BY <1>3
    <3>2. V = [W EXCEPT ![p] = [W[p] EXCEPT !.value = x]]
      BY <2>2
    <3>3. [W[p] EXCEPT !.value = x] \in Entry /\ [W[p] EXCEPT !.value = x].enc = W[p].enc
          /\ [W[p] EXCEPT !.value = x].value = x
      BY <1>4 DEF Entry
    <3>4. V \in [1 .. Len(W) -> Entry]
      BY <3>1, <3>2, <3>3
    <3>5. V \in Seq(Entry) /\ Len(V) = Len(W)
      BY <1>3, <3>4
    <3>6. \A k \in 1 .. Len(W) : V[k] = IF k = p THEN [W[p] EXCEPT !.value = x] ELSE W[k]
      BY <3>1, <3>2
    <3>7. QED
      BY <2>2, <3>3, <3>5, <3>6
  <2>3. QED
    BY <2>1, <2>2
<1> HIDE DEF W, p, V
<1>8. tab' \in [Tables -> Seq(Entry)] /\ \A s \in Tables : tab'[s] = IF s = t THEN V ELSE tab[s]
  BY <1>0, <1>7 DEF RegsOK, Entry
<1>9. Ready(t)' = V /\ \A s \in Tables : s # t => Ready(s)' = Ready(s)
  <2>1. V # <<>>
    <3>1. Len(V) # 0
      BY <1>3, <1>7
    <3>2. QED
      BY <3>1
  <2>2. Ready(t)' = V
    BY <1>1, <1>8, <2>1 DEF Ready
  <2>3. QED
    BY <1>8, <2>2 DEF Ready
<1>10. RegsOK'
  <2>1. \A s \in Tables : Len(tab'[s]) <= Max(s)
    BY <1>0, <1>3, <1>7, <1>8 DEF RegsOK
  <2>2. QED
    BY <1>0, <1>5, <1>6, <1>8, <2>1, NoAccessType DEF RegsOK, Entry
<1>11. \A m \in Truths : m # n => truth'[m] = truth[m]
  BY <1>5
<1>12. truth'[n] = IF acc.read THEN truth[n] ELSE x
  BY <1>2, <1>5
<1>13. PagesInv'
  <2>1. \A r \in PageRegs : truth'[r] = truth[r]
    BY <1>2, <1>11, RegFacts
  <2>2. QED
    BY <1>0, <1>5, <2>1, PagesKept
<1>14. \A s \in Tables : \A m : m \in Keys(s) /\ (s # t \/ m # n) => truth'[m] = truth[m]
  BY <1>2, <1>11, KeyFacts
<1>15. EntriesInv'
  <2>1. SUFFICES ASSUME NEW s \in Tables, NEW k \in 1 .. Len(Ready(s)')
                 PROVE  /\ Ready(s)'[k].enc \in Keys(s) /\ Ready(s)'[k].value = truth'[Ready(s)'[k].enc]
                        /\ \A j \in 1 .. Len(Ready(s)') : Ready(s)'[k].enc = Ready(s)'[j].enc => k = j
    BY DEF EntriesInv
  <2>2. CASE s # t
    BY <1>0, <1>9, <1>14, <2>1, <2>2 DEF LibInv, EntriesInv
  <2>3. CASE s = t
    <3>1. Ready(s)' = V /\ k \in 1 .. Len(W)
      BY <1>7, <1>9, <2>1, <2>3
    <3>2. V[k].enc \in Keys(s) /\ \A j \in 1 .. Len(W) : V[k].enc = V[j].enc => k = j
      BY <1>3, <1>7, <2>3, <3>1
    <3>3. CASE k = p
      BY <1>3, <1>4, <1>7, <1>12, <3>1, <3>2, <3>3
    <3>4. CASE k # p
      <4>1. W[k].enc # n
        BY <1>3, <3>1, <3>4
      <4>2. truth'[W[k].enc] = truth[W[k].enc]
        BY <1>1, <1>3, <1>14, <3>1, <4>1
      <4>3. QED
        BY <1>3, <1>7, <3>1, <3>2, <3>4, <4>2
    <3>5. QED
      BY <1>7, <3>1, <3>2, <3>3, <3>4
  <2>4. QED
    BY <2>2, <2>3
<1>16. AbsentInv'
  <2>1. SUFFICES ASSUME NEW s \in Tables, NEW m \in Keys(s), Entries(s, m)' = {}
                 PROVE  vmmReg'[m] = truth'[m] /\ (Room(s)' => truth'[m] = 0)
    BY DEF AbsentInv
  <2>2. CASE s # t
    <3>1. Entries(s, m) = {} /\ (Room(s)' <=> Room(s))
      BY <1>9, <2>1, <2>2 DEF Entries, Room
    <3>2. QED
      BY <1>0, <1>5, <1>14, <2>2, <3>1 DEF LibInv, AbsentInv
  <2>3. CASE s = t
    <3>1. \A k \in 1 .. Len(W) : W[k].enc # m
      BY <1>7, <1>9, <2>1, <2>3 DEF Entries
    <3>2. m # n /\ Entries(s, m) = {}
      BY <1>3, <2>3, <3>1
    <3>3. Room(s)' => Room(s)
      <4>1. Len(Ready(t)) \in Nat /\ Max(t) \in Nat
        BY <1>0, <1>1, ReadyType, MaxType
      <4>2. QED
        BY <1>3, <1>7, <1>9, <2>3, <4>1 DEF Room
    <3>4. QED
      BY <1>0, <1>5, <1>14, <3>2, <3>3 DEF LibInv, AbsentInv
  <2>4. QED
    BY <2>2, <2>3
<1>17. SlotsInv'
  <2>1. \A m \in Slots \union VmmOwn \union {"CLIDR_EL1"} : truth'[m] = truth[m]
    <3>1. n # "CLIDR_EL1"
      BY <1>2 DEF FixedNames
    <3>2. QED
      BY <1>2, <1>11, <3>1, OwnFacts
  <2>2. QED
    BY <1>0, <1>5, <2>1 DEF LibInv, SlotsInv, Slots
<1>18. HandedInv'
  BY <1>5 DEF HandedInv
<1>19. QED
  BY <1>6, <1>10, <1>13, <1>15, <1>16, <1>17, <1>18 DEF RegsInv, LibInv

\* The VMM answers for what it was handed.
LEMMA VmmCompletesInv ==
  ASSUME RegsInv, VmmCompletes
  PROVE  RegsInv'
<1> DEFINE n == acc.name
<1>0. /\ RegsOK /\ PagesInv /\ LibInv /\ right /\ at = "handed" /\ at' = "vmm" /\ acc' = NoAccess
      /\ UNCHANGED <<page, hw, valid, dirty, astray, tab, slots, idsLoaded>> /\ Handable(acc)
  BY DEF RegsInv, LibInv, HandedInv, VmmCompletes, pageVars, libVars
<1>1. n \in Names /\ x \in Values
  BY <1>0 DEF RegsOK
<1>2. CASE acc.read
  <2>1. x' = vmmReg[n] /\ UNCHANGED <<vmmReg, truth, writes>> /\ right' = (vmmReg[n] = truth[Silicon(n)] \/ Silicon(n) \in astray)
    BY <1>2 DEF VmmCompletes, Reads, hist
  <2>2. vmmReg[n] = truth[Silicon(n)]
    <3>1. CASE n \in VmmOwn
      BY <1>0, <3>1, OwnFacts DEF LibInv, SlotsInv
    <3>2. ASSUME NEW t \in Tables, n \in Keys(t), Entries(t, n) = {} PROVE vmmReg[n] = truth[Silicon(n)]
      BY <1>0, <3>2, KeyFacts DEF LibInv, AbsentInv
    <3>3. QED
      BY <1>0, <1>2, <3>1, <3>2 DEF Handable
  <2>3. right'
    BY <2>1, <2>2
  <2>4. RegsOK'
    BY <1>0, <1>1, <2>1, <2>3, NoAccessType DEF RegsOK
  <2>5. PagesInv'
    BY <1>0, <2>1, PagesKept
  <2>6. LibInv'
    BY <1>0, <2>1, LibUntouched
  <2>7. QED
    BY <2>3, <2>4, <2>5, <2>6 DEF RegsInv
<1>3. CASE ~acc.read
  <2>1. /\ x' = 0 /\ UNCHANGED right
        /\ IF n \in FixedNames THEN UNCHANGED <<vmmReg, truth, writes>>
           ELSE vmmReg' = [vmmReg EXCEPT ![n] = x] /\ Written(Silicon(n), x)
    BY <1>3 DEF VmmCompletes, hist
  <2>2. vmmReg' \in [Names -> Values]
        /\ \A m \in Names : vmmReg'[m] = IF m = n /\ n \notin FixedNames THEN x ELSE vmmReg[m]
    BY <1>0, <1>1, <2>1 DEF RegsOK
  <2>3. n \notin FixedNames => n \notin PageRegs /\ n \notin Slots /\ Silicon(n) = n /\ n # "CLIDR_EL1"
    BY <1>0, KeyFacts, OwnFacts DEF Handable, FixedNames
  <2>4. /\ truth' \in [Truths -> Values] /\ writes' \in 0 .. MaxWrites
        /\ n \in FixedNames => truth' = truth
        /\ n \notin FixedNames => \A m \in Truths : truth'[m] = IF m = n THEN x ELSE truth[m]
    <3>1. CASE n \in FixedNames
      BY <1>0, <2>1, <3>1 DEF RegsOK
    <3>2. CASE n \notin FixedNames
      BY <1>0, <1>1, <2>1, <2>3, <3>2, WrittenFacts
    <3>3. QED
      BY <3>1, <3>2
  <2>5. RegsOK'
    BY <1>0, <2>1, <2>2, <2>4, NoAccessType, RegsAssumption DEF RegsOK
  <2>6. PagesInv'
    <3>1. \A r \in PageRegs : truth'[r] = truth[r]
      BY <2>3, <2>4, RegFacts
    <3>2. QED
      BY <1>0, <3>1, PagesKept
  <2>7. /\ \A t : Ready(t)' = Ready(t)
        /\ \A t, m : Entries(t, m)' = Entries(t, m)
        /\ \A t : Room(t)' <=> Room(t)
    <3>1. \A t : Ready(t)' = Ready(t)
      BY <1>0 DEF Ready
    <3>2. QED
      BY <3>1 DEF Entries, Room
  <2>8. \A t \in Tables : n \in Keys(t) => Entries(t, n) = {} /\ ~Room(t)
    BY <1>0, KeyFacts, OwnFacts DEF Handable
  <2>9. \A t \in Tables : \A m \in Keys(t) :
          m \in Truths /\ m \in Names /\ m \notin FixedNames
    BY KeyFacts
  <2>10. EntriesInv'
    <3>1. ASSUME NEW t \in Tables, NEW k \in 1 .. Len(Ready(t))
          PROVE  truth'[Ready(t)[k].enc] = truth[Ready(t)[k].enc]
      <4>1. Ready(t)[k].enc \in Keys(t)
        BY <1>0 DEF LibInv, EntriesInv
      <4>2. Ready(t)[k].enc # n
        BY <2>8, <4>1 DEF Entries
      <4>3. QED
        BY <2>4, <2>9, <4>1, <4>2
    <3>2. QED
      BY <1>0, <2>7, <3>1 DEF LibInv, EntriesInv
  <2>11. AbsentInv'
    <3>1. SUFFICES ASSUME NEW t \in Tables, NEW m \in Keys(t), Entries(t, m) = {}
                   PROVE  vmmReg'[m] = truth'[m] /\ (Room(t) => truth'[m] = 0)
      BY <2>7 DEF AbsentInv
    <3>2. CASE m = n
      BY <2>2, <2>4, <2>8, <2>9, <3>2
    <3>3. CASE m # n
      BY <1>0, <2>2, <2>4, <2>9, <3>1, <3>3 DEF LibInv, AbsentInv
    <3>4. QED
      BY <3>2, <3>3
  <2>12. SlotsInv'
    <3>1. \A m \in Slots \union {"CLIDR_EL1"} : truth'[m] = truth[m]
      BY <2>3, <2>4, OwnFacts
    <3>2. \A m \in VmmOwn : vmmReg'[m] = truth'[m]
      <4>1. SUFFICES ASSUME NEW m \in VmmOwn PROVE vmmReg'[m] = truth'[m]
        OBVIOUS
      <4>2. m \in Names /\ m \in Truths /\ m \notin FixedNames /\ vmmReg[m] = truth[m]
        BY <1>0, OwnFacts DEF LibInv, SlotsInv
      <4>3. QED
        BY <2>2, <2>4, <4>2
    <3>3. QED
      BY <1>0, <3>1, <3>2 DEF LibInv, SlotsInv, Slots
  <2>13. HandedInv'
    BY <1>0 DEF HandedInv
  <2>14. QED
    BY <1>0, <2>1, <2>5, <2>6, <2>10, <2>11, <2>12, <2>13 DEF RegsInv, LibInv
<1>4. QED
  BY <1>2, <1>3

-----------------------------------------------------------------------------
(* The steps: sysreg_access and the control fields. *)

\* The page a call works on, after the sync it may need: all of it that is not astray
\* is right, or there was no sync, and the register's block is current as it is.
LEMMA CurrentRight ==
  ASSUME RegsOK, PagesInv, NEW r \in PageRegs, NEW write \in BOOLEAN
  PROVE  /\ Current(r, write) \in [PageRegs -> Values]
         /\ r \notin astray => Current(r, write)[r] = truth[r]
         /\ \A q \in Ctl \union Vncr : q \notin astray => Current(r, write)[q] = truth[q]
         /\ NeedsSync(r, write) => \A q \in PageRegs : q \notin astray => Current(r, write)[q] = truth[q]
         /\ ~NeedsSync(r, write) => Current(r, write) = page /\ r \in Shared \union Ctl \union Vncr
<1>1. \A q \in Ctl \union Vncr : q \in PageRegs /\ (q \notin astray => page[q] = truth[q])
  BY RegFacts DEF PagesInv, ControlsInv
<1>2. CASE NeedsSync(r, write)
  <2>1. Current(r, write) = Synced
    BY <1>2 DEF Current
  <2>2. QED
    BY <1>1, <1>2, <2>1, SyncedRight
<1>3. CASE ~NeedsSync(r, write)
  <2>1. Current(r, write) = page /\ r \notin Banked \union Ext /\ (r \in Shared => "SYSREGS" \in valid)
    BY <1>3 DEF Current, NeedsSync
  <2>2. r \in Shared \union Ctl \union Vncr
    BY <2>1, RegFacts DEF Carried
  <2>3. r \in Shared /\ r \notin astray => page[r] = truth[r]
    BY <2>1, BlockFacts DEF PagesInv, BlocksInv, Blocks
  <2>4. page \in [PageRegs -> Values]
    BY DEF RegsOK
  <2>5. QED
    BY <1>1, <1>3, <2>1, <2>2, <2>3, <2>4
<1>4. QED
  BY <1>2, <1>3

LEMMA VmmGetInv ==
  ASSUME RegsInv, NEW r \in PageRegs, VmmGet(r)
  PROVE  RegsInv'
<1>0. /\ RegsOK /\ PagesInv /\ LibInv /\ right /\ at = "vmm"
      /\ UNCHANGED <<at, acc, x, hw, dirty, astray, tab, slots, idsLoaded, vmmReg, truth, writes>>
      /\ page' = Current(r, FALSE) /\ valid' = IF NeedsSync(r, FALSE) THEN Blocks ELSE valid
      /\ right' = (page'[r] = truth[r] \/ r \in astray)
  BY DEF RegsInv, VmmGet, libVars, hist, Reads
<1>1. /\ page' \in [PageRegs -> Values] /\ (r \notin astray => page'[r] = truth[r])
      /\ \A q \in Ctl \union Vncr : q \notin astray => page'[q] = truth[q]
      /\ NeedsSync(r, FALSE) => \A q \in PageRegs : q \notin astray => page'[q] = truth[q]
      /\ ~NeedsSync(r, FALSE) => page' = page
  BY <1>0, CurrentRight
<1>2. right'
  BY <1>0, <1>1
<1>3. RegsOK'
  BY <1>0, <1>1, <1>2 DEF RegsOK
<1>4. BlocksInv'
  <2>1. \A b \in Blocks : \A q \in In(b) : q \in PageRegs
    BY BlockFacts, RegFacts
  <2>2. CASE NeedsSync(r, FALSE)
    BY <1>0, <1>1, <2>1, <2>2 DEF PagesInv, BlocksInv
  <2>3. CASE ~NeedsSync(r, FALSE)
    BY <1>0, <1>1, <2>3 DEF PagesInv, BlocksInv
  <2>4. QED
    BY <2>2, <2>3
<1>5. ControlsInv' /\ PlaceInv'
  BY <1>0, <1>1 DEF ControlsInv, PlaceInv
<1>6. LibInv'
  BY <1>0, LibUntouched
<1>7. QED
  BY <1>2, <1>3, <1>4, <1>5, <1>6 DEF RegsInv, PagesInv

LEMMA VmmSetInv ==
  ASSUME RegsInv, UNCHANGED right, NEW r \in PageRegs, NEW v \in Values, VmmSet(r, v)
  PROVE  RegsInv'
<1> DEFINE P == Current(r, TRUE)
           out == Out(r, v)
           bits == IF r \in Shared THEN {} ELSE IF r \in Vncr THEN {"CONTROLS"} ELSE {BlockOf(r)}
<1>0. /\ RegsOK /\ PagesInv /\ LibInv /\ right /\ at = "vmm"
      /\ UNCHANGED <<at, acc, x, hw, tab, slots, idsLoaded, vmmReg>>
      /\ page' = [P EXCEPT ![r] = out] /\ valid' = (IF NeedsSync(r, TRUE) THEN Blocks ELSE valid)
      /\ dirty' = dirty \union bits /\ Written(r, out)
      /\ astray' = IF r \in Shared /\ hw[r] # v /\ "SYSREGS" \notin dirty THEN astray \union {r}
                   ELSE astray \ {r}
  BY DEF RegsInv, VmmSet, libVars, MarkDirty
<1>1. out \in Values /\ (r \in Shared => out = v)
  BY RegsAssumption DEF Out, Shared
<1>2. /\ P \in [PageRegs -> Values]
      /\ \A q \in Ctl \union Vncr : q \notin astray => P[q] = truth[q]
      /\ NeedsSync(r, TRUE) => \A q \in PageRegs : q \notin astray => P[q] = truth[q]
      /\ ~NeedsSync(r, TRUE) => P = page /\ r \in Shared \union Ctl \union Vncr
  BY <1>0, CurrentRight
<1>3. /\ bits \subseteq Blocks /\ (\A b \in Blocks : r \in In(b) => b \in bits \/ (r \in Shared /\ b = "SYSREGS"))
      /\ (r \in Shared \union Ctl \union Vncr => bits \subseteq {"CONTROLS"})
  <2>1. "CONTROLS" \in Blocks
    BY DEF Blocks
  <2>2. r \in Vncr \/ \E b \in Blocks : r \in In(b)
    BY BlockFacts, RegFacts
  <2>3. \A b \in Blocks : r \in In(b) => BlockOf(r) = b /\ r \notin Vncr
    BY BlockFacts, BlockOfIn
  <2>4. r \in Ctl => BlockOf(r) = "CONTROLS"
    BY <2>1, <2>3, BlockFacts
  <2>5. \A b \in Blocks : r \in In(b) /\ r \in Shared => b = "SYSREGS"
    BY BlockFacts DEF Blocks
  <2>6. QED
    BY <2>1, <2>2, <2>3, <2>4, <2>5
<1> HIDE DEF P, bits, out
<1>4. /\ truth' \in [Truths -> Values] /\ writes' \in 0 .. MaxWrites
      /\ \A m \in Truths : truth'[m] = IF m = r THEN out ELSE truth[m]
  BY <1>0, <1>1, WrittenFacts
<1>5. \A q : q \in astray => q = r \/ q \in astray'
  BY <1>0
<1>6. \A b \in Blocks : \A q \in In(b) : q \notin astray' /\ q # r /\ b \in valid' \union dirty' => P[q] = truth[q]
  <2>1. SUFFICES ASSUME NEW b \in Blocks, NEW q \in In(b), q \notin astray, b \in valid' \union dirty'
                 PROVE  P[q] = truth[q]
    BY <1>5
  <2>2. q \in PageRegs
    BY BlockFacts, RegFacts
  <2>3. CASE NeedsSync(r, TRUE)
    BY <1>2, <2>1, <2>2, <2>3
  <2>4. CASE ~NeedsSync(r, TRUE)
    <3>1. P = page /\ valid' = valid /\ dirty' \subseteq dirty \union {"CONTROLS"}
      BY <1>0, <1>2, <1>3, <2>4
    <3>2. b = "CONTROLS" => P[q] = truth[q]
      BY <1>2, <2>1, BlockFacts
    <3>3. QED
      BY <1>0, <2>1, <3>1, <3>2 DEF PagesInv, BlocksInv
  <2>5. QED
    BY <2>3, <2>4
<1>7. PagesInv' /\ page' \in [PageRegs -> Values]
  <2>1. at # "guest" /\ at' # "guest" /\ hw' = hw /\ page' = [P EXCEPT ![r] = out]
    BY <1>0
  <2>2. \A m \in Truths : truth'[m] = IF m = r THEN out ELSE truth[m]
    BY <1>4
  <2>3. P \in [PageRegs -> Values] /\ \A q \in Ctl \union Vncr : q \notin astray' /\ q # r => P[q] = truth[q]
    BY <1>2, <1>5
  <2>4. dirty \subseteq dirty' /\ \A b \in Blocks : r \in In(b) /\ r \notin astray' => b \in dirty' \/ hw[r] = out
    BY <1>0, <1>1, <1>3
  <2>5. RegsOK /\ PagesInv
    BY <1>0
  <2>6. QED
    BY <1>1, <1>5, <1>6, <2>1, <2>2, <2>3, <2>4, <2>5, PageWritten
<1>8. RegsOK'
  <2>1. valid' \subseteq Blocks /\ dirty' \subseteq Blocks
    BY <1>0, <1>3 DEF RegsOK
  <2>2. astray' \subseteq Carried
    BY <1>0, RegFacts DEF RegsOK
  <2>3. QED
    BY <1>0, <1>4, <1>7, <2>1, <2>2 DEF RegsOK
<1>9. LibInv'
  BY <1>0, <1>4, LibUntouched
<1>10. QED
  BY <1>0, <1>7, <1>8, <1>9 DEF RegsInv

LEMMA VmmSetControlInv ==
  ASSUME RegsInv, UNCHANGED right, NEW r \in Ctl, NEW v \in Values, VmmSetControl(r, v)
  PROVE  RegsInv'
<1>0. /\ RegsOK /\ PagesInv /\ LibInv /\ right /\ at = "vmm"
      /\ UNCHANGED <<at, acc, x, hw, valid, tab, slots, idsLoaded, vmmReg>>
      /\ page' = [page EXCEPT ![r] = v] /\ MarkDirty({"CONTROLS"}) /\ Arrives(r, {"CONTROLS"}) /\ Written(r, v)
  BY DEF RegsInv, VmmSetControl, libVars
<1>1. /\ truth' \in [Truths -> Values] /\ writes' \in 0 .. MaxWrites
      /\ \A m \in Truths : truth'[m] = IF m = r THEN v ELSE truth[m]
  BY <1>0, WrittenFacts
<1>2. r \in PageRegs /\ {"CONTROLS"} \in SUBSET Blocks /\ r \in In("CONTROLS")
  BY RegFacts, BlockFacts DEF Blocks
<1>3. \A b \in Blocks : r \in In(b) => b \in {"CONTROLS"}
  BY <1>2, BlockFacts
<1>4. PagesInv' /\ page' \in [PageRegs -> Values] /\ dirty' \subseteq Blocks /\ astray' \subseteq Carried
  <2>1. at # "guest" /\ at' # "guest" /\ UNCHANGED <<hw, valid>>
    BY <1>0
  <2>2. \A m \in Truths : truth'[m] = IF m = r THEN v ELSE truth[m]
    BY <1>1
  <2>3. QED
    BY <1>0, <1>2, <1>3, <2>1, <2>2, ArrivesInv
<1>5. RegsOK'
  BY <1>0, <1>1, <1>4 DEF RegsOK
<1>6. LibInv'
  BY <1>0, <1>1, <1>2, LibUntouched
<1>7. QED
  BY <1>0, <1>4, <1>5, <1>6 DEF RegsInv

LEMMA VmmGetControlInv ==
  ASSUME RegsInv, NEW r \in Ctl, VmmGetControl(r)
  PROVE  RegsInv'
<1>0. /\ RegsOK /\ PagesInv /\ LibInv /\ right /\ at = "vmm"
      /\ UNCHANGED <<at, acc, x, page, hw, valid, dirty, astray, tab, slots, idsLoaded, vmmReg, truth, writes>>
      /\ right' = (page[r] = truth[r] \/ r \in astray)
  BY DEF RegsInv, VmmGetControl, libVars, pageVars, hist, Reads
<1>1. right'
  <2>1. page[r] = truth[r] \/ r \in astray
    BY <1>0 DEF PagesInv, ControlsInv
  <2>2. QED
    BY <1>0, <2>1
<1>2. RegsOK'
  BY <1>0, <1>1 DEF RegsOK
<1>3. PagesInv'
  BY <1>0, PagesKept
<1>4. LibInv'
  BY <1>0, LibUntouched
<1>5. QED
  BY <1>1, <1>2, <1>3, <1>4 DEF RegsInv

\* Reading a slot gives v = truth, writing it makes both v.
LEMMA VmmSlotInv ==
  ASSUME RegsInv, NEW name \in VmmSlotNames,
         VmmGetSlot(name) \/ (UNCHANGED right /\ \E v \in Values : VmmSetSlot(name, v))
  PROVE  RegsInv'
<1> DEFINE n == VmmPlace(name)
           S == IF name = "MIDR_EL1" THEN IdsLoaded ELSE slots
<1>a. n \in {"MIDR_EL1", "shadow_TTBR0_EL2"} /\ (n = "MIDR_EL1" <=> name = "MIDR_EL1") /\ n \in Slots
  BY DEF VmmSlotNames, VmmPlace, Slots
<1> HIDE DEF n
<1>0. /\ RegsOK /\ PagesInv /\ LibInv /\ right /\ at = "vmm"
      /\ UNCHANGED <<at, acc, x, page, hw, valid, dirty, astray, tab, vmmReg>>
      /\ idsLoaded' = (idsLoaded \/ n = "MIDR_EL1")
  BY <1>a DEF RegsInv, VmmGetSlot, VmmSetSlot, pageVars
<1>1. S \in [Slots -> Values] /\ \A m \in Slots : S[m] = IF n = "MIDR_EL1" /\ ~idsLoaded /\ m = "MIDR_EL1" THEN 1 ELSE slots[m]
  BY <1>0, <1>a, RegsAssumption DEF RegsOK, IdsLoaded
<1>2. /\ S[n] = truth[n] /\ S["TPIDR_GL2"] = truth["TPIDR_GL2"] /\ S["shadow_TTBR0_EL2"] = truth["shadow_TTBR0_EL2"]
      /\ (IF idsLoaded' THEN S["MIDR_EL1"] ELSE 1) = truth["MIDR_EL1"]
  BY <1>0, <1>1, <1>a DEF LibInv, SlotsInv, Slots
<1>3. n \in Truths /\ n \notin PageRegs /\ n \notin VmmOwn /\ n # "CLIDR_EL1" /\ Silicon(n) = n
      /\ \A t \in Tables : n \notin Keys(t)
  BY <1>a, OwnFacts
<1>4. idsLoaded' \in BOOLEAN
  BY <1>0
<1> HIDE DEF S
<1>5. PICK v \in Values :
        /\ slots' \in [Slots -> Values] /\ \A m \in Slots : slots'[m] = IF m = n THEN v ELSE S[m]
        /\ truth' \in [Truths -> Values] /\ writes' \in 0 .. MaxWrites
        /\ \A m \in Truths : truth'[m] = IF m = n THEN v ELSE truth[m]
        /\ right'
  <2>1. CASE VmmGetSlot(name)
    <3>1. slots' = S /\ UNCHANGED <<truth, writes>> /\ right' = (slots'[n] = truth[n] \/ n \in astray)
      BY <2>1 DEF VmmGetSlot, Reads, hist, S, n
    <3>2. right'
      BY <1>2, <1>3, <3>1
    <3>3. S[n] \in Values
      BY <1>1, <1>a
    <3>4. truth \in [Truths -> Values] /\ writes \in 0 .. MaxWrites
      BY <1>0 DEF RegsOK
    <3>5. QED
      BY <1>1, <1>2, <3>1, <3>2, <3>3, <3>4
  <2>2. ASSUME NEW v \in Values, UNCHANGED right, VmmSetSlot(name, v)
        PROVE  /\ slots' \in [Slots -> Values] /\ \A m \in Slots : slots'[m] = IF m = n THEN v ELSE S[m]
               /\ truth' \in [Truths -> Values] /\ writes' \in 0 .. MaxWrites
               /\ \A m \in Truths : truth'[m] = IF m = n THEN v ELSE truth[m]
               /\ right'
    <3>1. slots' = [S EXCEPT ![n] = v] /\ Written(n, v) /\ right'
      BY <1>0, <2>2 DEF VmmSetSlot, S, n
    <3>2. QED
      BY <1>0, <1>1, <3>1, WrittenFacts
  <2>3. QED
    BY <2>1, <2>2
<1>6. RegsOK'
  BY <1>0, <1>4, <1>5 DEF RegsOK
<1>7. PagesInv'
  <2>1. \A r \in PageRegs : truth'[r] = truth[r]
    BY <1>3, <1>5, RegFacts
  <2>2. QED
    BY <1>0, <2>1, PagesKept
<1>8. EntriesInv' /\ AbsentInv'
  <2>1. \A t : Ready(t)' = Ready(t)
    BY <1>0 DEF Ready
  <2>2. (\A t, m : Entries(t, m)' = Entries(t, m)) /\ \A t : Room(t)' <=> Room(t)
    BY <2>1 DEF Entries, Room
  <2>3. \A t \in Tables : \A m : m \in Keys(t) => truth'[m] = truth[m]
    BY <1>3, <1>5, KeyFacts
  <2>4. QED
    BY <1>0, <2>1, <2>2, <2>3 DEF LibInv, EntriesInv, AbsentInv
<1>9. SlotsInv'
  <2>1. \A m \in VmmOwn \union {"CLIDR_EL1"} : truth'[m] = truth[m]
    BY <1>3, <1>5, OwnFacts
  <2>2. \A m \in Slots : m \in Truths /\ slots'[m] = (IF m = n THEN v ELSE S[m]) /\ truth'[m] = IF m = n THEN v ELSE truth[m]
    BY <1>5, OwnFacts
  <2>3. n = "MIDR_EL1" => idsLoaded'
    BY <1>0
  <2>4. QED
    BY <1>0, <1>2, <1>a, <2>1, <2>2, <2>3 DEF LibInv, SlotsInv, Slots
<1>10. HandedInv'
  BY <1>0 DEF HandedInv
<1>11. QED
  BY <1>5, <1>6, <1>7, <1>8, <1>9, <1>10 DEF RegsInv, LibInv

-----------------------------------------------------------------------------
(* The invariant. *)

LEMMA InitInv == Init => RegsInv /\ DevicesOK
<1>1. SUFFICES ASSUME Init PROVE RegsInv /\ DevicesOK
  OBVIOUS
<1> USE <1>1
<1>2. \A n \in Truths : truth[n] = Host(n)
  BY DEF Init
<1>3. \A r \in PageRegs : Host(r) = 0 /\ r \in Truths
  BY RegFacts DEF Host, PageRegs, Carried, Banked, Shared, Ext, Ctl, Vncr
<1>4. right /\ right \in BOOLEAN /\ idsLoaded \in BOOLEAN
  BY DEF Init
<1>5. 0 \in 0 .. MaxWrites /\ (\A t \in Tables : 0 <= Max(t)) /\ Len(<<>>) = 0
  BY MaxType, RegsAssumption
<1>6. tab \in [Tables -> Seq([enc : TableNames, value : Values])] /\ \A t \in Tables : tab[t] = <<>>
  BY DEF Init
<1>7. truth \in [Truths -> Values] /\ slots \in [Slots -> Values] /\ vmmReg \in [Names -> Values]
  BY RegsAssumption DEF Init, Host
<1>8. page \in [PageRegs -> Values] /\ hw \in [Carried -> Values]
  BY RegsAssumption DEF Init
<1>9. RegsOK
  BY <1>4, <1>5, <1>6, <1>7, <1>8, NoAccessType, RegsAssumption DEF Init, RegsOK
<1>10. \A r \in PageRegs : page[r] = truth[r] /\ (r \in Carried => hw[r] = truth[r])
  BY <1>2, <1>3 DEF Init
<1>11. PagesInv
  <2>1. \A b \in Blocks : \A r \in In(b) : r \in PageRegs /\ r \in Carried
    BY BlockFacts, RegFacts
  <2>2. QED
    BY <1>10, <2>1, RegFacts DEF Init, PagesInv, BlocksInv, ControlsInv, PlaceInv
<1>12. Ready("gic") = <<[enc |-> "ICC_SRE_EL1", value |-> 1]>> /\ Ready("apple") = <<>> /\ Ready("ctrr") = <<>>
  BY <1>6 DEF Ready, Tables
<1>13. "ICC_SRE_EL1" \in Keys("gic") /\ "ICC_SRE_EL1" \in Truths /\ Host("ICC_SRE_EL1") = 1
  BY RegsAssumption DEF Keys, Truths, TableNames, Host
<1>14. EntriesInv
  <2> DEFINE e == [enc |-> "ICC_SRE_EL1", value |-> 1]
  <2>1. e.enc = "ICC_SRE_EL1" /\ e.value = 1
    OBVIOUS
  <2> HIDE DEF e
  <2>2. Len(<<e>>) = 1 /\ <<e>>[1] = e
    OBVIOUS
  <2>3. \A k \in 1 .. 1 : k = 1
    OBVIOUS
  <2>4. \A k \in 1 .. 0 : FALSE
    OBVIOUS
  <2>5. ASSUME NEW t \in Tables, NEW k \in 1 .. Len(Ready(t))
        PROVE  /\ Ready(t)[k].enc \in Keys(t) /\ Ready(t)[k].value = truth[Ready(t)[k].enc]
               /\ \A j \in 1 .. Len(Ready(t)) : Ready(t)[k].enc = Ready(t)[j].enc => k = j
    <3>1. CASE t = "gic"
      <4>1. Ready(t) = <<e>> /\ k = 1
        BY <1>12, <2>2, <2>3, <3>1 DEF e
      <4>2. QED
        BY <1>2, <1>13, <2>1, <2>2, <2>3, <3>1, <4>1
    <3>2. CASE t # "gic"
      <4>1. Ready(t) = <<>>
        BY <1>12, <3>2 DEF Tables
      <4>2. QED
        BY <1>5, <2>4, <4>1
    <3>3. QED
      BY <3>1, <3>2
  <2>6. QED
    BY <2>5 DEF EntriesInv
<1>15. AbsentInv
  <2>1. SUFFICES ASSUME NEW t \in Tables, NEW n \in Keys(t), Entries(t, n) = {}
                 PROVE  vmmReg[n] = truth[n] /\ truth[n] = 0
    BY DEF AbsentInv
  <2>2. n # "ICC_SRE_EL1"
    <3>1. ASSUME n = "ICC_SRE_EL1" PROVE FALSE
      <4>1. t = "gic"
        BY <1>13, <3>1, KeyFacts DEF Tables
      <4>2. 1 \in 1 .. Len(Ready(t)) /\ Ready(t)[1].enc = n
        BY <1>12, <3>1, <4>1
      <4>3. QED
        BY <2>1, <4>2 DEF Entries
    <3>2. QED
      BY <3>1
  <2>3. n \in Names /\ n \in Truths /\ n \notin Slots /\ n \notin FixedNames
    BY KeyFacts
  <2>4. Host(n) = 0
    BY <2>2, <2>3 DEF Host, Slots, FixedNames
  <2>5. QED
    BY <1>2, <2>3, <2>4 DEF Init
<1>16. SlotsInv
  <2>1. \A n \in Slots \union VmmOwn \union {"CLIDR_EL1"} : truth[n] = Host(n)
    BY <1>2, OwnFacts
  <2>2. \A n \in VmmOwn : vmmReg[n] = 0
    BY OwnFacts DEF Init
  <2>3. QED
    BY <2>1, <2>2 DEF Init, SlotsInv, Slots, VmmOwn, Host
<1>17. HandedInv
  BY DEF Init, HandedInv
<1>18. DevicesOK
  BY DEF Init, DevicesOK
<1>19. QED
  BY <1>4, <1>9, <1>11, <1>14, <1>15, <1>16, <1>17, <1>18 DEF RegsInv, LibInv

LEMMA ServeTableInv ==
  ASSUME RegsInv, ServeTable
  PROVE  RegsInv'
<1>1. acc.name \in TableNames
  BY DEF ServeTable
<1>2. TableOf(acc.name) \in Tables /\ Key(acc.name) \in Keys(TableOf(acc.name))
  BY <1>1, TableFacts
<1>3. PICK t \in Tables, n \in Keys(TableOf(acc.name)) : t = TableOf(acc.name) /\ n = Key(acc.name)
  BY <1>2
<1>4. QED
  BY <1>2, <1>3, ServeFullInv, ServeEntryInv

LEMMA StutterInv ==
  ASSUME RegsInv, UNCHANGED vars
  PROVE  RegsInv'
<1>1. /\ RegsOK /\ PagesInv /\ LibInv /\ right
      /\ UNCHANGED <<at, acc, x, page, hw, valid, dirty, astray, tab, slots, idsLoaded, vmmReg, right, truth, writes>>
  BY DEF RegsInv, vars, pageVars, libVars, hist
<1>2. RegsOK'
  BY <1>1 DEF RegsOK
<1>3. PagesInv'
  BY <1>1 DEF PagesInv, BlocksInv, ControlsInv, PlaceInv
<1>4. LibInv'
  BY <1>1, LibUntouched
<1>5. QED
  BY <1>1, <1>2, <1>3, <1>4 DEF RegsInv

\* The steps of the vCPU's own thread leave the devices alone.
LEMMA OwnInv ==
  ASSUME RegsInv, Own
  PROVE  RegsInv'
<1>1. CASE Quiet /\ UNCHANGED right
  <2>1. 0 \in Values /\ Insns \subseteq Names
    BY RegsAssumption DEF Names
  <2>2. QED
    BY <1>1, <2>1, GuestWriteInv, TrapInv, OtherExitInv, EnterInv, VmmSetInv, VmmSlotInv, VmmSetControlInv
       DEF Quiet
<1>2. CASE Serve
  BY <1>2, ServePageInv, ServeFixedInv, ServeSlotInv, ServeTableInv, ServeNothingInv, ServeAtInv DEF Serve
<1>3. QED
  BY <1>1, <1>2, VmmCompletesInv, VmmGetInv, VmmSlotInv, VmmGetControlInv DEF Own

LEMMA NextInv ==
  ASSUME RegsInv, DevicesOK, [Next]_vars
  PROVE  RegsInv' /\ DevicesOK'
<1>1. CASE Own /\ UNCHANGED deviceVars
  BY <1>1, OwnInv DEF DevicesOK, deviceVars
<1>2. CASE \E d \in Devices : DeviceLoad(d)
  BY <1>2, DeviceLoadInv
<1>3. CASE \E d \in Devices, bits \in {{}, {"CONTROLS"}} : DeviceStore(d, bits)
  <2>1. {} \in SUBSET {"CONTROLS"} /\ {"CONTROLS"} \in SUBSET {"CONTROLS"}
    OBVIOUS
  <2>2. QED
    BY <1>3, <2>1, DeviceStoreInv
<1>4. CASE UNCHANGED vars
  BY <1>4, StutterInv DEF DevicesOK, vars, deviceVars
<1>5. QED
  BY <1>1, <1>2, <1>3, <1>4 DEF Next

\* The invariant holds at every step of the guest, the library, the VMM and the
\* devices.
THEOREM RegsInvariant == Spec => [](RegsInv /\ DevicesOK)
<1>1. RegsInv /\ DevicesOK /\ [Next]_vars => (RegsInv /\ DevicesOK)'
  BY NextInv
<1>2. QED
  BY <1>1, InitInv, PTL DEF Spec

\* The types are kept: none of gic_if, apple_shadow and ctrr grows past its array,
\* and every entry is of a register that has a place there.
THEOREM RegsTypeCorrect == Spec => []TypeOK
<1>1. RegsInv /\ DevicesOK => TypeOK
  BY DEF RegsInv, TypeOK
<1>2. QED
  BY <1>1, RegsInvariant, PTL

\* Every read of a place, trapped, handed to the VMM or made by it, gives what was
\* last written there by anyone, unless the code left it open (astray), or a trapped
\* read found a block that the exit had not brought.
THEOREM AlwaysReadsBack == Spec => []ReadsBack
<1>1. RegsInv /\ DevicesOK => ReadsBack
  BY DEF RegsInv, ReadsBack
<1>2. QED
  BY <1>1, RegsInvariant, PTL

\* The guest always runs with what was last written to each register that the
\* hardware has and that is not astray: what mark_dirty names at an entry is right,
\* and what it does not name the hardware has already.
THEOREM HardwareAlwaysCurrent == Spec => []HardwareCurrent
<1>1. RegsInv /\ DevicesOK => HardwareCurrent
  <2>1. SUFFICES ASSUME RegsInv, at = "guest", NEW r \in Carried \ astray PROVE hw[r] = truth[r]
    BY DEF HardwareCurrent
  <2>2. PagesInv
    BY <2>1 DEF RegsInv
  <2>3. QED
    BY <2>1, <2>2, BlockFacts DEF PagesInv, BlocksInv
<1>2. QED
  BY <1>1, RegsInvariant, PTL
==============================================================================
