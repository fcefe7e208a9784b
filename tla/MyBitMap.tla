------------------------------- MODULE MyBitMap -------------------------------
(***************************************************************************)
(* filesystem/utils/MyBitMap.h: a tree of words over an array of words,    *)
(* from which FileManager takes its free ids.  A word is the set of its    *)
(* bits that are 1.  A bit of inner says whether a word of the level below *)
(* has any; the levels follow one another in inner, the lowest first.      *)
(*                                                                         *)
(* The program uses 128 and 256 bits, where the root is all of inner.      *)
(***************************************************************************)
EXTENDS Integers, FiniteSetsExt

CONSTANTS LeafBit,   \* LEAF_BIT, the bits of a word
          Bits,      \* cap, the bits of the map
          HashMod    \* the modulus of _hash

\* 2^i % HashMod, as _hash computes it of the word that has bit i only.
HashOf[i \in 0 .. (LeafBit - 1)] == IF i = 0 THEN 1 % HashMod ELSE (2 * HashOf[i - 1]) % HashMod

\* The words below level 0, level 1 and so on, down to the root's.
Size == Bits \div LeafBit
LevelCap[l \in 0 .. Bits] == IF l = 0 THEN Size ELSE LevelCap[l - 1] \div LeafBit
RootLevel == Min({l \in 0 .. Bits : LevelCap[l] <= LeafBit})

ASSUME BitMapAssumption ==
  /\ LeafBit \in Nat /\ LeafBit >= 2 /\ Bits \in Nat \ {0} /\ HashMod \in Nat \ {0}
  /\ Bits % LeafBit = 0 /\ \A l \in 0 .. (RootLevel - 1) : LevelCap[l] % LeafBit = 0
  /\ \A i, j \in 0 .. (LeafBit - 1) : HashOf[i] # 0 /\ (HashOf[i] = HashOf[j] => i = j)

VARIABLES data,    \* word -> its bits
          inner,   \* inner word -> its bits
          h,       \* the table of initConst: hash -> bit
          bits     \* history: the bits set

mapVars == <<data, inner, h, bits>>

Position == 0 .. (Bits - 1)

\* init: where the levels above the lowest begin, and rootIndex.
Offset[l \in 0 .. RootLevel] == IF l = 0 THEN 0 ELSE Offset[l - 1] + (LevelCap[l - 1] \div LeafBit)
RootIndex == Offset[RootLevel]

\* childWord: the i-th word of a level, of count words that begin at start.
Summary(lower, start, count, i) ==
  {j \in 0 .. (LeafBit - 1) : i * LeafBit + j < count /\ lower[start + i * LeafBit + j] # {}}

\* init: the levels are filled from the lowest up.
FilledInner(words) ==
  LET filled[l \in 0 .. RootLevel] ==
        [k \in 0 .. RootIndex |->
          IF l = 0 THEN Summary(words, 0, Size, k)
          ELSE IF k < Offset[l] THEN filled[l - 1][k]
          ELSE Summary(filled[l - 1], Offset[l - 1], LevelCap[l], k - Offset[l])]
  IN  filled[RootLevel]

\* MyBitMap(cap, k).  h is a static array.
MapInit ==
  /\ \E S \in {{}, Position} :
       /\ bits = S
       /\ data = [w \in 0 .. (Size - 1) |-> IF S = {} THEN {} ELSE 0 .. (LeafBit - 1)]
  /\ inner = FilledInner(data)
  /\ h = [x \in 0 .. (HashMod - 1) |-> 0]

InitConst ==
  /\ LET table[i \in 0 .. LeafBit] ==
           IF i = 0 THEN h ELSE [table[i - 1] EXCEPT ![HashOf[i - 1]] = i - 1]
     IN  h' = table[LeafBit]
  /\ UNCHANGED <<data, inner, bits>>
HasTable == h # [x \in DOMAIN h |-> 0]

-----------------------------------------------------------------------------
\* _setBit: bit index of the words from start on.
WithBit(words, start, index, on) ==
  LET w == start + index \div LeafBit
  IN  [words EXCEPT ![w] = IF on THEN @ \cup {index % LeafBit} ELSE @ \ {index % LeafBit}]

\* Mutant of UpdateInner: a word is set when its lower word is, but not cleared.
UpdateInnerSetOnly(words, index, on) == IF on THEN WithBit(words, 0, index, on) ELSE words

\* updateInner: up from level 0, where the word below that changed is index and
\* on says whether it has a bit.
LevelUpdated(s) ==
  LET up == WithBit(s.inner, s.offset, s.index, s.on)
      w  == s.index \div LeafBit
  IN  [inner |-> up, offset |-> s.offset + s.cap, index |-> w, cap |-> s.cap \div LeafBit,
       on |-> up[s.offset + w] # {}]

UpdateInner(words, index, on) ==
  LET up[l \in 0 .. (RootLevel + 1)] ==
        IF l = 0 THEN [inner |-> words, offset |-> 0, index |-> index, cap |-> Size \div LeafBit, on |-> on]
        ELSE LevelUpdated(up[l - 1])
  IN  up[RootLevel + 1].inner

\* setBit.
SetBit(i, on) ==
  /\ data' = WithBit(data, 0, i, on)
  /\ inner' = UpdateInner(inner, i \div LeafBit, data'[i \div LeafBit] # {})
  /\ bits' = IF on THEN bits \cup {i} ELSE bits \ {i}
  /\ UNCHANGED h

\* Where lowbit of a word is, as h has it: that of no bit hashes to 0.
LowBit(word) == IF word = {} THEN h[0] ELSE h[HashOf[Min(word)]]

\* Mutant of WordFound: the words of a level are looked for at its end.
WordFoundAtEnd(t) ==
  [offset |-> t.offset - t.cap, cap |-> t.cap * LeafBit,
   pos |-> t.pos * LeafBit + LowBit(inner[t.offset])]

\* _findLeftOne: the word below the lowest bit of the word at pos of a level.
WordFound(t) ==
  [offset |-> t.offset - t.cap, cap |-> t.cap * LeafBit,
   pos |-> t.pos * LeafBit + LowBit(inner[t.offset + t.pos])]

\* findLeftOne: from the root down.
FindLeftOne ==
  LET down[d \in 0 .. (RootLevel + 1)] ==
        IF d = 0 THEN [offset |-> RootIndex, cap |-> LevelCap[RootLevel], pos |-> 0]
        ELSE WordFound(down[d - 1])
      w == down[RootLevel + 1].pos
  IN  w * LeafBit + LowBit(data[w])

MapNext == InitConst \/ \E i \in Position, on \in BOOLEAN : SetBit(i, on)

MapSpec == MapInit /\ [][MapNext]_mapVars

-----------------------------------------------------------------------------
\* How many bits of the map a bit of level l stands for.
Reach[l \in 0 .. RootLevel] == IF l = 0 THEN LeafBit ELSE Reach[l - 1] * LeafBit

(* Every bit of every level says whether the words it stands for, down to    *)
(* those of the map, have a bit: setBit clears as far up as it must and      *)
(* leaves the summaries of other words alone (MyBitMap.h:108-135).           *)
InnerSummarizes ==
  \A l \in 0 .. RootLevel : \A b \in 0 .. (LevelCap[l] - 1) :
    b % LeafBit \in inner[Offset[l] + b \div LeafBit] <=> \E i \in bits : i \div Reach[l] = b

(* findLeftOne gives the lowest bit set and 0 when there is none, as         *)
(* FileManager.tla says of free ids (NextId), once initConst was called      *)
(* (main.cpp:11): the managers, and their maps, are made before.             *)
LeftOneIsLowest ==
  HasTable => FindLeftOne = IF bits = {} THEN 0 ELSE Min(bits)
=============================================================================
