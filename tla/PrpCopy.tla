------------------------------- MODULE PrpCopy -------------------------------
(***************************************************************************)
(* Copying data through the pages of a PRP (get_data_buffer and             *)
(* set_data_buffer of lone/nvme/spec/prp.py).  A buffer is the sequence of  *)
(* its data pages, a page a sequence of PageSize cells; with the simulated  *)
(* memory both sides see the same pages.  Where the pages are is the        *)
(* subject of DeviceMemory.                                                 *)
(***************************************************************************)
EXTENDS Integers, Sequences

CONSTANT PageSize   \* cells in a page

ASSUME PageSizeAssumption == PageSize \in Nat \ {0}

PagesFor(n) == (n + PageSize - 1) \div PageSize

ZeroPage == [i \in 1 .. PageSize |-> 0]

(* PRP.alloc with the simulated memory, which is new and clear.             *)
FreshBuffer(n) == [p \in 1 .. PagesFor(n) |-> ZeroPage]

(* get_data_segments, as the indices of pages.  The second of two pages is  *)
(* taken for a list, and is clear, because only set_data_buffer writes      *)
(* buffers and this is how it finds their pages.                            *)
Found(buffer) == IF Len(buffer) = 2 THEN 1 ELSE Len(buffer)
Segments(buffer) == 1 .. Found(buffer)

(* get_data_buffer: whole pages, one after the other.                       *)
GetData(buffer) ==
    [i \in 1 .. Found(buffer) * PageSize |-> buffer[((i - 1) \div PageSize) + 1][((i - 1) % PageSize) + 1]]

(* Fault: a last segment that is whole is treated as a partial one.         *)
SliceRaisesWhole(data, k) == k > 1 /\ (k - 1) * PageSize < Len(data) /\ Len(data) <= k * PageSize

(* The end of the slice for a segment is computed with the offset twice:    *)
(* in the first segment, and in a whole one, where slices are clipped, it   *)
(* comes out right; in a last, partial one the source is empty and the      *)
(* assignment to the longer target raises.                                  *)
SliceRaises(data, k) == k > 1 /\ (k - 1) * PageSize < Len(data) /\ Len(data) < k * PageSize

SetRaises(buffer, data) == \E k \in Segments(buffer) : SliceRaises(data, k)

PageFrom(page, data, k) ==
    [i \in 1 .. PageSize |->
        IF (k - 1) * PageSize + i <= Len(data) THEN data[(k - 1) * PageSize + i] ELSE page[i]]

(* set_data_buffer, up to the segment that raises.                          *)
SetData(buffer, data) ==
    [k \in 1 .. Len(buffer) |->
        IF k \in Segments(buffer) /\ ~SliceRaises(data, k) THEN PageFrom(buffer[k], data, k) ELSE buffer[k]]
=============================================================================
