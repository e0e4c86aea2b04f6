----------------------------- MODULE Stage1Walk -----------------------------
(***************************************************************************)
(* ohv_translate_stage1, the walk of the guest's own translation tables    *)
(* that answers a trapped AT, against what the architecture says an AT     *)
(* answers.                                                                *)
(*                                                                         *)
(* The walk is the code's, with the widths as parameters: pages have       *)
(* OutBits, MidBits or BigBits bits (12, 14 and 16 in the code), an        *)
(* address VaWidth (64), and no more than MaxVaBits (52) of them are       *)
(* translated.  Physical addresses have PaBits (48).  A table fills a page *)
(* with descriptors of 2^DescBits bytes (8), so a level resolves PageBits  *)
(* - DescBits bits.                                                        *)
(*                                                                         *)
(* The guest writes its tables and its controls; every state is a set of   *)
(* tables, and the invariants speak of every address.                      *)
(***************************************************************************)
EXTENDS Naturals

CONSTANTS
  OutBits, MidBits, BigBits, DescBits, VaWidth, MaxVaBits, PaBits,
  MinVaBits, \* the smallest size of address the architecture has (16)
  Words,   \* addresses of the descriptors in memory that ohv_guest_ptr finds
  Outputs, \* addresses a descriptor may hold
  Ttbr     \* TTBR of either half: the table base, the ASID above it, CnP below

ASSUME WalkAssumption ==
  /\ {OutBits, MidBits, BigBits, DescBits, VaWidth, MaxVaBits, PaBits, MinVaBits,
      Ttbr} \subseteq Nat
  /\ DescBits < OutBits /\ OutBits < MidBits /\ MidBits < BigBits
  /\ OutBits < MaxVaBits /\ MaxVaBits < VaWidth
  /\ Words \subseteq Nat /\ Outputs \subseteq Nat
  /\ PaBits <= VaWidth
  /\ OutBits + 2 * (OutBits - DescBits) <= PaBits   \* no block is larger
  /\ BigBits + (BigBits - DescBits) <= PaBits

\* What the proofs use of powers of two, of which the provers know nothing.
ASSUME PowerAssumption ==
  \A m, n \in 0 .. VaWidth : 2^m \in Nat \ {0} /\ 2^(m + n) = 2^m * 2^n

\* Bits 1 and 0 of a descriptor: 0 and 2 are invalid.
Descs == [type : {0}, out : {0}] \union [type : {1, 3}, out : Outputs]

VARIABLES
  mem,    \* the descriptors
  on,     \* SCTLR.M
  tsz,    \* T0SZ or T1SZ
  tg      \* TG0 or TG1

vars == <<mem, on, tsz, tg>>

Init ==
  /\ mem = [a \in Words |-> [type |-> 0, out |-> 0]]
  /\ on = FALSE /\ tsz = 0 /\ tg = 0

\* External: the guest writes a descriptor.
WriteDesc(a, d) == mem' = [mem EXCEPT ![a] = d] /\ UNCHANGED <<on, tsz, tg>>

\* External: the guest writes SCTLR, and a field of TCR.
WriteSctlr == on' = ~on /\ UNCHANGED <<mem, tsz, tg>>
WriteTsz   == tsz' \in 0 .. VaWidth - 1 /\ UNCHANGED <<mem, on, tg>>
WriteTg    == tg' \in 0 .. 3 /\ UNCHANGED <<mem, on, tsz>>

Next ==
  \/ WriteSctlr \/ WriteTsz \/ WriteTg
  \/ \E a \in Words, d \in Descs : WriteDesc(a, d)

Spec == Init /\ [][Next]_vars

-----------------------------------------------------------------------------
(* The code. *)

Vas   == {p * 2^OutBits : p \in 0 .. 2^(VaWidth - OutBits) - 1}
Fault == 1   \* OHV_PAR_FAULT: bit 0, clear in every address

\* The address with its low n bits cleared.
Down(a, n) == a - (a % 2^n)

\* Bit 63 says which half of the address space.
Upper(va) == va \div 2^(VaWidth - 1) # 0

\* Mutant of PageBits: TG1 is read like TG0.
PageBitsOneTable(va) ==
  IF tg = 3 THEN 0 ELSE CASE tg = 0 -> OutBits [] tg = 1 -> BigBits [] tg = 2 -> MidBits

\* The granule; 0 if the field names none.
PageBits(va) ==
  IF Upper(va)
    THEN CASE tg = 1 -> MidBits [] tg = 2 -> OutBits [] tg = 3 -> BigBits [] OTHER -> 0
    ELSE CASE tg = 0 -> OutBits [] tg = 1 -> BigBits [] tg = 2 -> MidBits [] OTHER -> 0

LevelBits(pb) == pb - DescBits
VaBits        == VaWidth - tsz
Shift(pb, level) == pb + (3 - level) * LevelBits(pb)

\* The loop counts down from 3 while the levels resolve too few bits.
StartLevel(pb) ==
  LET enough == {l \in 0 .. 3 : l = 0 \/ Shift(pb, l) + LevelBits(pb) >= VaBits}
  IN CHOOSE l \in enough : \A k \in enough : k <= l

Index(va, pb, level) ==
  LET shift == Shift(pb, level)
      bits  == IF shift + LevelBits(pb) > VaBits THEN VaBits - shift ELSE LevelBits(pb)
  IN (va \div 2^shift) % 2^bits

\* The bits of a physical address, which is how the code clears the rest.
Cut(a) == a % 2^PaBits

\* Mutant of Leaf: the offset within a page, also for a block.
LeafPageOffset(d, va, pb, level) == Down(d.out, Shift(pb, level)) + Down(va % 2^pb, OutBits)

\* A block, or the page itself.
Leaf(d, va, pb, level) ==
  Down(d.out, Shift(pb, level)) + Down(Cut(va % 2^Shift(pb, level)), OutBits)

\* Mutant of TableBase: the ASID is taken for a part of the address.
TableBaseWithAsid(pb) == Down(Ttbr, pb)

\* Where the walk begins: the first table is taken to begin at a page.
TableBase(pb) == Down(Cut(Ttbr), pb)

\* Where a table may be.
Tables(pb) == {TableBase(pb)} \union {Down(o, pb) : o \in Outputs}

\* The loop, from a level on, by the table it has come to.
WalkFrom(va, pb) ==
  LET w[level \in 0 .. 3] ==
        [table \in Tables(pb) |->
           LET a == table + Index(va, pb, level) * 2^DescBits IN
           IF a \notin Words \/ mem[a].type = 0 THEN Fault
           ELSE IF mem[a].type = 1 \/ level = 3 THEN Leaf(mem[a], va, pb, level)
           ELSE w[level + 1][Down(mem[a].out, pb)]]
  IN w

Walk(va, pb) == WalkFrom(va, pb)[StartLevel(pb)][TableBase(pb)]

Translate(va) ==
  IF ~on THEN Down(Cut(va), OutBits)
  ELSE IF PageBits(va) = 0 \/ VaBits < PageBits(va) \/ VaBits > MaxVaBits THEN Fault
  ELSE Walk(va, PageBits(va))

-----------------------------------------------------------------------------
(* What an AT answers: the address is split into fields from the bottom, and *)
(* a translation is a chain of tables that leads to a leaf.  Left out, as in  *)
(* the code: permissions, the access flag, TBI and EPD.                       *)

Granule(va) ==   \* by name of the field's values, for the two registers
  LET names == IF Upper(va) THEN <<"none", "16K", "4K", "64K">> ELSE <<"4K", "64K", "16K", "none">>
      size  == [g \in {"4K", "16K", "64K"} |->
                  CASE g = "4K" -> OutBits [] g = "16K" -> MidBits [] g = "64K" -> BigBits]
  IN IF names[tg + 1] = "none" THEN 0 ELSE size[names[tg + 1]]

\* The levels that VaBits take, at least one, and the field of each.
Levels(pb) ==
  CHOOSE n \in 1 .. 4 : /\ pb + n * LevelBits(pb) >= VaBits
                        /\ n = 1 \/ pb + (n - 1) * LevelBits(pb) < VaBits
Field(va, pb, level) ==
  LET page == (va % 2^VaBits) \div 2^pb IN (page \div 2^((3 - level) * LevelBits(pb))) % 2^LevelBits(pb)

\* The address is one the half has: the bits above VaBits are all like bit 63.
Canonical(va) ==
  va \div (2^VaBits) = IF Upper(va) THEN 2^(VaWidth - VaBits) - 1 ELSE 0

\* The first table has as many entries as its field has values, which may be
\* fewer than a page holds, and begins at a multiple of its own size.
FirstTable(pb) ==
  Down(Cut(Ttbr), DescBits + (VaBits - (pb + (Levels(pb) - 1) * LevelBits(pb))))

\* c leads from TTBR, at the first level, to an entry of the given type at the last.
Chain(c, last, type, va, pb) ==
  LET first    == 4 - Levels(pb)
      entry(l) == c[l] + Field(va, pb, l) * 2^DescBits IN
  /\ c[first] = FirstTable(pb)
  /\ \A l \in first .. last : entry(l) \in Words
  /\ \A l \in first .. last - 1 : mem[entry(l)].type = 3 /\ c[l + 1] = Down(mem[entry(l)].out, pb)
  /\ mem[entry(last)].type = type

Chains(last, type, va, pb) ==
  {c \in [4 - Levels(pb) .. last -> {FirstTable(pb)} \union {Down(o, pb) : o \in Outputs}] :
     Chain(c, last, type, va, pb)}

\* Where type 1 is a block: level 2, and level 1 with the smallest pages.
BlockLevels(pb) == IF pb = OutBits THEN {1, 2} ELSE {2}

\* The addresses the chains lead to: a page at level 3, a block before it.
Translations(va, pb) ==
  LET size(l)   == 2^(pb + (3 - l) * LevelBits(pb))
      out(c, l) == mem[c[l] + Field(va, pb, l) * 2^DescBits].out
      pa(c, l)  == (out(c, l) \div size(l)) * size(l) + ((va % size(l)) \div 2^OutBits) * 2^OutBits
  IN UNION {{pa(c, last) : c \in Chains(last, IF last = 3 THEN 3 ELSE 1, va, pb)}
             : last \in (BlockLevels(pb) \union {3}) \cap (4 - Levels(pb) .. 3)}

\* No granule, or a size of address that the architecture lets a walk refuse.
RefusedSize(va) == Granule(va) = 0 \/ VaBits < Granule(va) \/ VaBits > MaxVaBits

\* What the code takes for granted of the guest.  The size of address is one the
\* architecture has and four levels resolve it (in the code, not 49 to 52 bits
\* with pages of 4K).  The first table begins at a page.
\* The tables the address uses have no reserved encoding: type 1 is found at no
\* level that has no blocks.
WellFormed(va, pb) ==
  /\ VaBits >= MinVaBits /\ VaBits <= pb + 4 * LevelBits(pb)
  /\ FirstTable(pb) % 2^pb = 0
  /\ \A last \in (4 - Levels(pb) .. 3) \ BlockLevels(pb) : Chains(last, 1, va, pb) = {}

\* With the MMU off an address is its own translation if it is one at all.
Answer(va) ==
  IF ~on THEN IF va < 2^PaBits THEN va ELSE Fault
  ELSE LET pb == Granule(va) IN
       IF RefusedSize(va) \/ Translations(va, pb) = {} THEN Fault
       ELSE CHOOSE pa \in Translations(va, pb) : TRUE

\* The addresses and tables the claim is about.
Supported(va) ==
  IF on THEN Canonical(va) /\ (RefusedSize(va) \/ WellFormed(va, Granule(va)))
        ELSE va < 2^PaBits

\* ohv_translate_stage1 answers what an AT would, for every supported address of
\* either half, every granule and size and all tables: the level the walk starts
\* at, the width of its first index, the granule of the upper half and the offset
\* in a block all have to be right.
WalkAgrees == \A va \in Vas : Supported(va) => Translate(va) = Answer(va)
=============================================================================
