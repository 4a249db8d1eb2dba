-------------------------------- MODULE Lists --------------------------------
(***************************************************************************)
(* Python's list comprehension with a condition, [x for x in s if x in T]:  *)
(* SelectSeq for a set in the place of a test.                              *)
(***************************************************************************)
EXTENDS Integers, Sequences

(* The elements of s that are in T, in the order of s.                      *)
Keep(s, T) ==
    LET kept[i \in 0 .. Len(s)] ==
            IF i = 0 THEN <<>>
            ELSE IF s[i] \in T THEN Append(kept[i - 1], s[i]) ELSE kept[i - 1]
    IN  kept[Len(s)]
=============================================================================
