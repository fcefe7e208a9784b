-------------------------------- MODULE BitMap --------------------------------
(***************************************************************************)
(* utils/bitmap.cc: the bitmaps of record files and indexes.  A word is    *)
(* its value as an unsigned int; where the code reads it as an int, it     *)
(* takes the value that has the same bits.                                 *)
(***************************************************************************)
EXTENDS Integers, FiniteSetsExt, Bitwise

CONSTANTS Width,   \* bits of an unsigned int, 32
          Length   \* length_, the bits of the map

VARIABLES words,   \* the words at addr_
          ones     \* history: the positions set

wordVars == <<words, ones>>

Word     == 0 .. ((Length - 1) \div Width)
AllOne   == 2 ^ Width - 1
Unsigned(x) == x % 2 ^ Width
Signed(w)   == IF w >= 2 ^ (Width - 1) THEN w - 2 ^ Width ELSE w
AndOfInts(x, y) == Signed(Unsigned(x) & Unsigned(y))     \* & of two ints
OutOfBounds(pos) == pos < 0 \/ pos >= Length

\* The memory the map is made on may have ones behind the last position.
WordsInit ==
  \/ words = [w \in Word |-> 0] /\ ones = {}
  \/ words = [w \in Word |-> AllOne] /\ ones = 0 .. (Length - 1)

SetZero(pos) ==
  IF OutOfBounds(pos) THEN UNCHANGED wordVars
  ELSE /\ words' = [words EXCEPT ![pos \div Width] = @ & ((2 ^ (pos % Width)) ^^ AllOne)]
       /\ ones' = ones \ {pos}

SetOne(pos) ==
  IF OutOfBounds(pos) THEN UNCHANGED wordVars
  ELSE /\ words' = [words EXCEPT ![pos \div Width] = @ | (2 ^ (pos % Width))]
       /\ ones' = ones \cup {pos}

Get(pos) == shiftR(words[pos \div Width], pos % Width) & 1

\* The bit of a position, read from an int.
IntBit(k) == AndOfInts(Signed(words[k \div Width]), Signed(2 ^ (k % Width)))

\* Words that are all ones are passed over.
FindFirstZeroPosition ==
  LET zeros == {k \in 0 .. (Length - 1) :
                  Unsigned(Signed(words[k \div Width])) # AllOne /\ IntBit(k) = 0}
  IN  IF zeros = {} THEN Length ELSE Min(zeros)

\* Mutant of FindLastOnePosition: the words above zero are looked at.
FindLastOneAboveZero ==
  LET set == {k \in 0 .. (Length - 1) : Signed(words[k \div Width]) > 0 /\ IntBit(k) # 0}
  IN  IF set = {} THEN 0 ELSE Max(set)

\* Words that are zero are passed over.
FindLastOnePosition ==
  LET set == {k \in 0 .. (Length - 1) : Signed(words[k \div Width]) # 0 /\ IntBit(k) # 0}
  IN  IF set = {} THEN 0 ELSE Max(set)

\* The last word counts as far as the map goes.
Mask(w) == IF Width * (w + 1) > Length THEN 2 ^ (Length - Width * w) - 1 ELSE AllOne
IsFull  == \A w \in Word : words[w] & Mask(w) = Mask(w)
IsEmpty == \A w \in Word : words[w] & Mask(w) = 0

-----------------------------------------------------------------------------
(* The operations on words answer what RecordFile.tla and IndexHandle.tla    *)
(* take them to (bitmap.cc:38-116), also of the word whose top bit makes it  *)
(* negative, of the last one, which the map does not fill, and of what lies  *)
(* behind it.                                                                *)
WordsMeanOnes ==
  LET zeros == (0 .. (Length - 1)) \ ones
  IN  /\ \A k \in 0 .. (Length - 1) : Get(k) = IF k \in ones THEN 1 ELSE 0
      /\ FindFirstZeroPosition = IF zeros = {} THEN Length ELSE Min(zeros)
      /\ FindLastOnePosition = IF ones = {} THEN 0 ELSE Max(ones)
      /\ IsFull <=> zeros = {}
      /\ IsEmpty <=> ones = {}
=============================================================================
