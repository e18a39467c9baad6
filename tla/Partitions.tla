----------------------------- MODULE Partitions -----------------------------
(***************************************************************************)
(* What the disk driver makes of a sector number and of the partition      *)
(* tables on the disk (kernel/hd.c).  Tasks has the driver's steps and     *)
(* interrupts; here are the numbers that go to the drive and the tables    *)
(* that come back.                                                         *)
(*                                                                         *)
(* A layout is what the disk was partitioned into: for each entry of the   *)
(* first sector its sys_id, base and size, and for an extended partition   *)
(* the logical ones in it, each with the sector that holds its table.      *)
(***************************************************************************)
EXTENDS Integers, Sequences

CONSTANTS
    Radix,              \* what a byte of the drive's registers can count: 256
    NR_PART_PER_DRIVE,
    NR_SUB_PER_PART

ASSUME PartitionsAssumption == {Radix, NR_PART_PER_DRIVE, NR_SUB_PER_PART} \subseteq Nat \ {0}

CONSTANTS NO_PART, DOS_PART, EXT_PART       \* sys_id

ASSUME SysIdAssumption == NO_PART # EXT_PART

Parts == 1..NR_PART_PER_DRIVE
Info(base, size) == [base |-> base, size |-> size]
Entry(id, start, size) == [sys_id |-> id, lba_start_sector |-> start, sector_num |-> size]

-----------------------------------------------------------------------------
(* The disk, as fdisk leaves it. *)
NoEntry == Entry(NO_PART, 0, 0)
Plain(base, size) == [sys_id |-> DOS_PART, base |-> base, size |-> size, sub |-> <<>>]
Extended(base, size, sub) == [sys_id |-> EXT_PART, base |-> base, size |-> size, sub |-> sub]
NoPart == [sys_id |-> NO_PART, base |-> 0, size |-> 0, sub |-> <<>>]

\* The table before logical partition k of part: where k starts from this table on,
\* and where the next table is from the extended partition on.
Link(part, k) ==
    <<Entry(DOS_PART, part.sub[k].base - part.sub[k].table, part.sub[k].size),
      IF k < Len(part.sub) THEN Entry(EXT_PART, part.sub[k + 1].table - part.base, part.sub[k + 1].size)
                           ELSE NoEntry>>

\* The table in sector s; any other sector holds zeros.
TableIn(layout, s) ==
    LET links == {l \in UNION {{j} \X DOMAIN layout[j].sub : j \in Parts} :
                     layout[l[1]].sub[l[2]].table = s}
        link == CHOOSE l \in links : TRUE
    IN  IF s = 0 THEN [j \in Parts |-> Entry(layout[j].sys_id, layout[j].base, layout[j].size)]
        ELSE IF links = {} THEN <<NoEntry, NoEntry>>
        ELSE Link(layout[link[1]], link[2])

\* What the registers of a command can address.
Addresses == 0..16 * Radix * Radix * Radix - 1

\* Each extended partition begins with the table of its first logical one, and
\* no two logical ones have their tables in the same sector.
FdiskMade(layout) ==
    /\ DOMAIN layout = Parts
    /\ \A j \in Parts :
         /\ {layout[j].base, layout[j].size} \subseteq Nat
         /\ layout[j].sys_id = NO_PART => layout[j].base = 0 /\ layout[j].size = 0
         /\ layout[j].sub \in Seq([table : Addresses \ {0}, base : Nat, size : Nat])
         /\ IF layout[j].sys_id = EXT_PART
            THEN layout[j].sub # <<>> /\ layout[j].sub[1].table = layout[j].base
            ELSE layout[j].sub = <<>>
    /\ \A i, j \in Parts : \A k \in DOMAIN layout[i].sub, l \in DOMAIN layout[j].sub :
         layout[i].sub[k].table = layout[j].sub[l].table => i = j /\ k = l

\* How many sectors the drive moves for a count: 0 is for the most there are.
Moves(count) == IF count = 0 THEN Radix ELSE count

-----------------------------------------------------------------------------
(* The registers of a command. *)
\* lba_low, lba_mid, lba_high and half of the device register.
Address(sect_nr) == sect_nr % (16 * Radix * Radix * Radix)

\* The number of sectors, as one byte.
Count(bytes, sector) == ((bytes + sector - 1) \div sector) % Radix

-----------------------------------------------------------------------------
(* hd_identify and partition. *)
get_part_table(layout, sect_nr) == TableIn(layout, Address(sect_nr))

\* Mutant: the next table is looked for from this one on.
LogicalFromHere(layout, base) ==
    LET chain[i \in 0..NR_SUB_PER_PART - 1] ==
            IF i = 0 THEN base
            ELSE IF chain[i - 1] = 0 \/ get_part_table(layout, chain[i - 1])[2].sys_id = NO_PART THEN 0
            ELSE chain[i - 1] + get_part_table(layout, chain[i - 1])[2].lba_start_sector
    IN  [i \in DOMAIN chain |->
            IF chain[i] = 0 THEN Info(0, 0)
            ELSE LET first == get_part_table(layout, chain[i])[1]
                 IN  Info(chain[i] + first.lba_start_sector, first.sector_num)]

\* partition of an extended partition: chain is where the tables are, 0 behind
\* the one that names no next.
Logical(layout, base) ==
    LET chain[i \in 0..NR_SUB_PER_PART - 1] ==
            IF i = 0 THEN base
            ELSE IF chain[i - 1] = 0 \/ get_part_table(layout, chain[i - 1])[2].sys_id = NO_PART THEN 0
            ELSE base + get_part_table(layout, chain[i - 1])[2].lba_start_sector
    IN  [i \in DOMAIN chain |->
            IF chain[i] = 0 THEN Info(0, 0)
            ELSE LET first == get_part_table(layout, chain[i])[1]
                 IN  Info(chain[i] + first.lba_start_sector, first.sector_num)]

\* The extended partition that a logical one is in.
PartOf(n) == n \div NR_SUB_PER_PART + 1

\* hd_info after the first hd_open, but for the entry of the whole disk.
Partitioned(layout) ==
    LET table == get_part_table(layout, 0) IN
    [primary |-> [j \in Parts |->
        IF table[j].sys_id = NO_PART THEN Info(0, 0)
        ELSE Info(table[j].lba_start_sector, table[j].sector_num)],
     logical |-> [n \in 0..NR_PART_PER_DRIVE * NR_SUB_PER_PART - 1 |->
        IF table[PartOf(n)].sys_id = EXT_PART
        THEN Logical(layout, table[PartOf(n)].lba_start_sector)[n % NR_SUB_PER_PART]
        ELSE Info(0, 0)]]

\* ROOT_DEV is the first logical partition of the second primary one.
RootOf(hd_info) == hd_info.logical[NR_SUB_PER_PART]
=============================================================================
