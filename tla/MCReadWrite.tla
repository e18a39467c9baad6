---------------------------- MODULE MCReadWrite ----------------------------
(* A file of two sectors of four bytes on three disks, for TLC. *)
EXTENDS ReadWrite, TLC

MCLens == {0, 2, 4, 6, 8}
MCAnyLens == {1, 2}
Interchangeable == Permutations(Descs)

Sub(table, base, size) == [table |-> table, base |-> base, size |-> size]
MCLayouts == {
    \* a chain of three, tables next to their partitions
    <<Plain(1, 4), Extended(5, 15, <<Sub(5, 6, 4), Sub(10, 12, 3), Sub(15, 16, 4)>>)>>,
    \* more than there is place for, before the root partition, and gaps
    <<Extended(2, 20, <<Sub(2, 3, 2), Sub(6, 7, 2), Sub(11, 13, 1), Sub(15, 17, 4)>>),
      Extended(30, 30, <<Sub(30, 33, 12), Sub(50, 51, 9)>>)>>,
    \* at the end of what 28 bits, here seven, can count
    <<NoPart, Extended(62, 66, <<Sub(62, 63, 40), Sub(104, 105, 20)>>)>>}
=============================================================================
