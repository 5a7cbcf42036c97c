--------------------------- MODULE FaultInjection ---------------------------
(***************************************************************************)
(* hpdcache_fault_injection (src/rtl/tb/include/hpdcache_fault_injection.h)*)
(* places an ECC fault mask over the SRAM word of a cache entry:          *)
(* injectDirFault for a directory entry, injectDatFault for a data word.  *)
(* Both cut the mask into the 32-bit chunks (svLogicVecVal) of the packed *)
(* SRAM row and hand the row to the Verilated SRAM with the row address.  *)
(*                                                                         *)
(* The mask is symbolic: bit i of the mask is the value i, so a chunk     *)
(* shows which mask bit each of its bits receives (NoBit for a zero), and *)
(* one call checks every mask at once.  The build is a choice of Init:    *)
(* CONF_HPDCACHE_WORD_WIDTH, CONF_HPDCACHE_DATA_WAYS_PER_RAM_WORD,        *)
(* CONF_HPDCACHE_ACCESS_WORDS and HPDCACHE_TAG_WIDTH are compile-time     *)
(* constants outside the repository.                                      *)
(***************************************************************************)
EXTENDS Integers, FiniteSets

CONSTANTS
  WordWidths,        \* CONF_HPDCACHE_WORD_WIDTH choices (32 or 64)
  WaysPerRamWord,    \* CONF_HPDCACHE_DATA_WAYS_PER_RAM_WORD choices
  AccessWordsSet,    \* CONF_HPDCACHE_ACCESS_WORDS choices
  TagWidths,         \* HPDCACHE_TAG_WIDTH choices
  Ways,              \* CONF_HPDCACHE_WAYS
  ClWords,           \* CONF_HPDCACHE_CL_WORDS
  Sets               \* the set indices a test passes

ASSUME WordWidths \subseteq {32, 64}
ASSUME \A n \in WaysPerRamWord : n > 0 /\ Ways % n = 0
ASSUME \A n \in AccessWordsSet : n > 0 /\ ClWords % n = 0

NoBit == -1
Chunk == [0..31 -> {NoBit} \cup 0..71]
Elems(w) == (w + 31) \div 32                 \* SV_PACKED_DATA_NELEMS

Build == [width : WordWidths, wpr : WaysPerRamWord,
          access : AccessWordsSet, tag : TagWidths]

\* getParBits
getParBits(wordWidth) == IF wordWidth < 64 THEN 7 ELSE 8

DatWordBits(c) == c.width + getParBits(c.width)
DatRamBits(c) == DatWordBits(c) * c.wpr
DirWordBits(c) == (c.tag + 4) + getParBits(c.tag + 4)

\* the template arguments of the masks: sc_bv<72> and sc_bv<64>
MaskWidth(fn) == IF fn = "dat" THEN 72 ELSE 64

\* getDatRow, getDatCol and getScope: the SRAM a call reaches
getDatRow(c, way) == way \div c.wpr
\* fault-seeded variant of getDatCol: a division for the modulo
getDatColDiv(c, word) == word \div c.access
getDatCol(c, word) == word % c.access
getScope(c, fn, way, word) ==
  IF fn = "dir" THEN << "dir", way >>
  ELSE << "dat", getDatRow(c, way), getDatCol(c, word) >>

\* fault-seeded variant of RangeToUint: 32 bits taken whatever the width
RangeToUintWide(hi, lo) == [k \in 0..31 |-> lo + k]

\* mask.range(hi, lo).to_uint(): the low 32 bits of the slice
RangeToUint(hi, lo) == [k \in 0..31 |-> IF k <= hi - lo THEN lo + k ELSE NoBit]

\* fault-seeded variant of ShiftLeft: the shift by wordOffset left out
ShiftLeftDropped(x, s) == x

\* `x << s` on an unsigned int: the top s bits fall off
ShiftLeft(x, s) == [k \in 0..31 |-> IF k >= s THEN x[k - s] ELSE NoBit]

ZeroChunks(w) == [b \in 0..Elems(w) - 1 |-> [k \in 0..31 |-> NoBit]]

VARIABLES
  build,     \* the compiled configuration
  pc,        \* "idle", "middle", "dirloop" or "fault"
  fn, args,  \* the running call: "dat" or "dir", << set, way, word >>
  lv,        \* the svLogicVecVal array
  b, loIdx, hiIdx, bits,
  last       \* the target of the last call that returned

vars == << build, pc, fn, args, lv, b, loIdx, hiIdx, bits, last >>

NoCall == [fn |-> "none"]

\* what a returned call wrote: the SRAM, its row, and the mask bit of each
\* position of the packed row
Target(row, chunks) ==
  LET set == {q \in (DOMAIN chunks) \X (0..31) : chunks[q[1]][q[2]] /= NoBit} IN
  [fn |-> fn, args |-> args,
   ram |-> getScope(build, fn, args[2], args[3]), row |-> row,
   cells |-> {<< 32 * q[1] + q[2], chunks[q[1]][q[2]] >> : q \in set}]

TypeOK ==
  /\ build \in Build
  /\ pc \in {"idle", "middle", "dirloop", "fault"}
  /\ \E n \in 1..16 : lv \in [0..n - 1 -> Chunk]
  /\ b \in Nat /\ bits \in Int /\ loIdx \in Nat /\ hiIdx \in Int
  /\ last = NoCall \/ last.cells \subseteq Nat \X (0..MaskWidth(last.fn) - 1)

\* the locals of a call, dead once it returns
NoLocals ==
  /\ fn' = "none" /\ args' = << 0, 0, 0 >> /\ lv' = ZeroChunks(1)
  /\ b' = 0 /\ loIdx' = 0 /\ hiIdx' = 0 /\ bits' = 0

Init ==
  /\ build \in Build
  /\ pc = "idle" /\ fn = "none" /\ args = << 0, 0, 0 >>
  /\ lv = ZeroChunks(1) /\ b = 0 /\ loIdx = 0 /\ hiIdx = 0 /\ bits = 0
  /\ last = NoCall

\* lv[x].aval = mask.range(hi, ..) is defined: x indexes the array and
\* hi the mask
InRange(x, hi) == x \in DOMAIN lv /\ hi < MaskWidth(fn)

\* an access out of the array or out of the sc_bv: the call goes wrong
Fault ==
  /\ pc' = "fault"
  /\ UNCHANGED << build, fn, args, lv, b, loIdx, hiIdx, bits, last >>

\* the call hands the row over and returns
Return(row, chunks) ==
  /\ pc' = "idle" /\ last' = Target(row, chunks)
  /\ NoLocals /\ UNCHANGED build

-----------------------------------------------------------------------------
(* injectDatFault                                                          *)

\* from the scope selection to the head bits
DatCall ==
  /\ pc = "idle"
  /\ \E set \in Sets, way \in 0..Ways - 1, word \in 0..ClWords - 1 :
       LET c == build
           ramOffset == (way % c.wpr) * DatWordBits(c)
           wordOffset == ramOffset % 32
           nb == DatWordBits(c)
           hi == IF nb >= 32 THEN 32 - wordOffset ELSE nb
           x == ramOffset \div 32
       IN  /\ fn' = "dat" /\ args' = << set, way, word >>
           /\ IF x \in 0..Elems(DatRamBits(c)) - 1 /\ hi - 1 < 72
                THEN /\ lv' = [ZeroChunks(DatRamBits(c)) EXCEPT
                                 ![x] = ShiftLeft(RangeToUint(hi - 1, 0), wordOffset)]
                     /\ b' = x + 1 /\ loIdx' = 0 /\ hiIdx' = hi
                     /\ bits' = nb - hi /\ pc' = "middle"
                ELSE /\ pc' = "fault" /\ lv' = ZeroChunks(DatRamBits(c))
                     /\ UNCHANGED << b, loIdx, hiIdx, bits >>
  /\ UNCHANGED << build, last >>

\* `while (bits >= 32)`: a whole chunk
DatMiddle ==
  /\ pc = "middle" /\ bits >= 32
  /\ IF InRange(b, hiIdx + 31)
       THEN /\ lv' = [lv EXCEPT ![b] = RangeToUint(hiIdx + 31, hiIdx)]
            /\ b' = b + 1 /\ loIdx' = hiIdx /\ hiIdx' = hiIdx + 32
            /\ bits' = bits - 32
            /\ UNCHANGED << build, pc, fn, args, last >>
       ELSE Fault

\* the loop exits; the tail bits, if any; then publicSramBeSetMask with
\* cacheIdx
DatTail ==
  /\ pc = "middle" /\ bits < 32
  /\ LET row == (args[1] * ClWords + args[3]) \div build.access
         hi == hiIdx + bits
     IN  CASE bits = 0 -> Return(row, lv)
           [] InRange(b, hi - 1) ->
                Return(row, [lv EXCEPT ![b] = RangeToUint(hi - 1, hiIdx)])
           [] OTHER -> Fault

-----------------------------------------------------------------------------
(* injectDirFault                                                          *)

DirCall ==
  /\ pc = "idle"
  /\ \E set \in Sets, way \in 0..Ways - 1 :
       /\ fn' = "dir" /\ args' = << set, way, 0 >>
       /\ lv' = ZeroChunks(DirWordBits(build))
       /\ b' = 0 /\ pc' = "dirloop"
  /\ UNCHANGED << build, loIdx, hiIdx, bits, last >>

\* one iteration of `for (b = 0; b < SV_PACKED_DATA_NELEMS(WordBits); b++)`
DirChunk ==
  /\ pc = "dirloop" /\ b < Elems(DirWordBits(build))
  /\ LET wb == DirWordBits(build)
         lo == b * 32
         hi == IF (b + 1) * 32 > wb THEN wb ELSE (b + 1) * 32
     IN  CASE lo >= wb ->
                b' = b + 1 /\ UNCHANGED << build, pc, fn, args, lv, loIdx, hiIdx,
                                           bits, last >>
           [] InRange(b, hi - 1) ->
                /\ lv' = [lv EXCEPT ![b] = RangeToUint(hi - 1, lo)]
                /\ b' = b + 1 /\ loIdx' = lo /\ hiIdx' = hi
                /\ UNCHANGED << build, pc, fn, args, bits, last >>
           [] OTHER -> Fault

\* the loop ends; publicSramSetMask(set, lv)
DirDone ==
  /\ pc = "dirloop" /\ b = Elems(DirWordBits(build))
  /\ Return(args[1], lv)

Next == DatCall \/ DatMiddle \/ DatTail \/ DirCall \/ DirChunk \/ DirDone

Spec == Init /\ [][Next]_vars

-----------------------------------------------------------------------------
(* Properties                                                              *)

\* where the mask belongs: the entry's word starts at bit ramOffset of the
\* packed row (the position of its way in the row times the word's width)
\* and takes the mask's bits 0 .. WordBits-1 in order
Expected(t) ==
  LET off == IF t.fn = "dat" THEN (t.args[2] % build.wpr) * DatWordBits(build)
             ELSE 0
      n == IF t.fn = "dat" THEN DatWordBits(build) ELSE DirWordBits(build)
  IN  {<< off + i, i >> : i \in 0..n - 1}

(* injectDatFault and injectDirFault, cutting the mask into 32-bit chunks  *)
(* (head bits shifted by wordOffset, whole middle chunks, tail bits), set  *)
(* exactly the bits of the target word to the mask, each to its own mask   *)
(* bit, and no bit of a neighbouring way; no slice leaves the sc_bv mask   *)
(* and no chunk index leaves the svLogicVecVal array.                      *)
MaskPlaced ==
  /\ pc /= "fault"
  /\ last /= NoCall => last.cells = Expected(last)

Apart(t, u) ==
  \/ t.ram /= u.ram \/ t.row /= u.row
  \/ {c[1] : c \in t.cells} \cap {c[1] : c \in u.cells} = {}

(* Two calls for different (set, way, word) of the same SRAM kind never     *)
(* flip the same SRAM cell: getScope, the row address (cacheIdx, or set     *)
(* for the directory) and the bit offset of the way together tell the      *)
(* entries apart.  Calls come in any order, so comparing each call with    *)
(* the one before it compares every pair.                                  *)
FaultTargetsDistinct ==
  [][ last /= NoCall /\ last' /= last /\ last'.fn = last.fn
      /\ last'.args /= last.args => Apart(last, last') ]_vars

=============================================================================
