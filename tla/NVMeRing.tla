------------------------------- MODULE NVMeRing -------------------------------
(***************************************************************************)
(* The index arithmetic of a circular NVMe queue, as NVMeHeadTail and      *)
(* NVMeQueue (lone/nvme/spec/queues.py) do it: head and tail are slot      *)
(* numbers in 0..entries-1, one slot is always left empty, so a queue of   *)
(* `entries' slots holds at most entries-1 items.                          *)
(*                                                                         *)
(* The code never uses a modulo: an index that reaches `entries' is reset  *)
(* to 0.  An index fits the 32-bit register it lives in because a queue    *)
(* has at most 65536 slots, so the increment never overflows.              *)
(***************************************************************************)
EXTENDS Integers

(* The slots of a queue of the given size.                                 *)
Slots(entries) == 0 .. entries - 1

(* NVMeHeadTail.peek, and the value NVMeHeadTail.advance stores.           *)
Peek(value, entries) == IF value + 1 = entries THEN 0 ELSE value + 1

(* NVMeQueue.is_full.                                                      *)
IsFull(head, tail, entries) == Peek(tail, entries) = head

(* NVMeQueue.num_entries, with the tests in the order of the code.         *)
NumEntries(head, tail, entries) ==
    IF Peek(tail, entries) = head THEN entries - 1
    ELSE IF tail = head THEN 0
    ELSE IF tail > head THEN tail - head
    ELSE (entries - head) + tail

-----------------------------------------------------------------------------
(* Reference notions the properties are stated with; no code computes them. *)

(* How many times an index at `from' advances to reach `to'.               *)
Dist(from, to, entries) == IF from <= to THEN to - from ELSE to - from + entries

(* Slot i holds an item of the queue whose head and tail are given.        *)
Holds(i, head, tail, entries) == Dist(head, i, entries) < Dist(head, tail, entries)
=============================================================================
