------------------------------- MODULE LbaGen -------------------------------
(***************************************************************************)
(* LBARandGenLFSR (lone/util/lba_gen.py): a linear feedback shift register  *)
(* that walks through the positions of a namespace.  A generator is a       *)
(* record; of its period only whether it is 0 is ever tested (started).     *)
(***************************************************************************)
EXTENDS Integers, Sequences

(* polys, for 5 bits and up.                                                *)
Polys == <<
    <<5, 4, 3, 2>>, <<6, 5, 3, 2>>, <<7, 6, 5, 4>>, <<8, 6, 5, 4>>, <<9, 8, 6, 5>>, <<10, 9, 7, 6>>,
    <<11, 10, 9, 7>>, <<12, 11, 8, 6>>, <<13, 12, 10, 9>>, <<14, 13, 11, 9>>, <<15, 14, 13, 11>>,
    <<16, 14, 13, 11>>, <<17, 16, 15, 14>>, <<18, 17, 16, 13>>, <<19, 18, 17, 14>>,
    <<20, 19, 16, 14>>, <<21, 20, 19, 16>>, <<22, 19, 18, 17>>, <<23, 22, 20, 18>>,
    <<24, 23, 21, 20>>, <<25, 24, 23, 22>>, <<26, 25, 24, 20>>, <<27, 26, 25, 22>>,
    <<28, 27, 24, 22>>, <<29, 28, 27, 25>>, <<30, 29, 26, 24>>, <<31, 30, 29, 28>>,
    <<32, 30, 26, 25>>, <<33, 32, 29, 27>>, <<34, 31, 30, 26>>, <<35, 34, 28, 27>>,
    <<36, 35, 29, 28>>, <<37, 36, 33, 31>>, <<38, 37, 33, 32>>, <<39, 38, 35, 32>>,
    <<40, 37, 36, 35>> >>

MinBits == 5
MaxBits == MinBits + Len(Polys) - 1

(* Fault: the number of values is taken for the largest one.                *)
MaxValueOneMore(maxLba, nb) == (maxLba - nb) \div nb + 1

(* The largest state that is a position; __init__ takes one transfer off    *)
(* the LBA it is given.                                                     *)
MaxValue(maxLba, nb) == (maxLba - nb) \div nb

NumBits(v) == CHOOSE n \in 1 .. v : 2 ^ (n - 1) <= v /\ v < 2 ^ n

(* What __init__ and get_lfsr_func assert.                                  *)
MayGenerate(maxLba, nb, initial) ==
    LET v == MaxValue(maxLba, nb)
    IN  /\ nb > 0 /\ 0 < initial /\ initial < v
        /\ NumBits(v) \in MinBits .. MaxBits

NewGen(maxLba, nb, initial) ==
    [nb |-> nb, initial |-> initial, maxValue |-> MaxValue(maxLba, nb),
     state |-> initial, started |-> FALSE, complete |-> FALSE]

Reset(g) == [g EXCEPT !.state = g.initial, !.started = FALSE, !.complete = FALSE]

Bit(s, i) == (s \div 2 ^ i) % 2

(* One turn of the register: the taps count from the top bit.               *)
Shift(s, n) ==
    LET p == Polys[n - MinBits + 1]
        fed == (Bit(s, n - p[1]) + Bit(s, n - p[2]) + Bit(s, n - p[3]) + Bit(s, n - p[4])) % 2 = 1
    IN  s \div 2 + IF fed THEN 2 ^ (n - 1) ELSE 0

(* f turns the register, and again while its state is above the maximum.    *)
(* There are 2^n states of n bits: after that many turns it would go round  *)
(* the same large states for ever.                                          *)
Turned(s, max, n) ==
    LET after[k \in 0 .. 2 ^ n] ==
            IF k = 0 THEN Shift(s, n)
            ELSE LET t == after[k - 1] IN IF t > max THEN Shift(t, n) ELSE t
    IN  after[2 ^ n]

Draw(g) == [g EXCEPT !.state = Turned(g.state, g.maxValue, NumBits(g.maxValue)), !.started = TRUE]

(* __next__: after a whole round the LBA 0, which the register never        *)
(* reaches, ends the sequence.                                              *)
Round(g) == g.state = g.initial /\ g.started

Advance(g) == IF Round(g) THEN [g EXCEPT !.complete = TRUE] ELSE Draw(g)
Returned(g) == IF g.complete THEN 0 ELSE g.state * g.nb
=============================================================================
