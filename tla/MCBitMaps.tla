------------------------------ MODULE MCBitMaps ------------------------------
(* Both bitmaps take the same bits: sixteen in words of two, a tree of three *)
(* levels; the map of bitmap.cc ends inside a word.  main calls initConst    *)
(* before a bit is looked for or set.                                        *)
EXTENDS MyBitMap, BitMap

\* The table of the program: 32 bits, modulus 61.
Power[i \in 0 .. 31] == IF i = 0 THEN 1 ELSE (2 * Power[i - 1]) % 61
ASSUME TableAssumption == \A i, j \in 0 .. 31 : Power[i] # 0 /\ (Power[i] = Power[j] => i = j)

Init == MapInit /\ WordsInit /\ bits \cap (0 .. (Length - 1)) = ones

Next == \/ InitConst /\ UNCHANGED wordVars
        \/ /\ HasTable
           /\ \E i \in Position : \/ SetBit(i, TRUE) /\ SetOne(i)
                                  \/ SetBit(i, FALSE) /\ SetZero(i)

Spec == Init /\ [][Next]_<<mapVars, wordVars>>
=============================================================================
