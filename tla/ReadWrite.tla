----------------------------- MODULE ReadWrite -----------------------------
(***************************************************************************)
(* do_rdwt (fs/fs.c), hd_open and hd_rdwt (kernel/hd.c) and kmemcpy        *)
(* (lib/memory.asm): the bytes of one regular file in the root partition,  *)
(* which several descriptors are open on, and of what is behind it.        *)
(*                                                                         *)
(* TASK_FS serves a request alone; one pass of its loop over the sectors   *)
(* is one step.  Bytes are counted from the start of the file.  The user's *)
(* buffer of a WRITE holds the bytes 1, 2, and so on.                      *)
(***************************************************************************)
EXTENDS Partitions

CONSTANTS
    Descs,                  \* the descriptors of the file, opened with O_RDWR: the others
                            \* get -1 from do_rdwt, which changes nothing
    SECTOR_SIZE,
    NR_DEFAULT_FILE_SECTS,  \* i_nr_sectors
    FsbufSectors,           \* FSBUF_SIZE >> SECTOR_SIZE_SHIFT
    FirstSector,            \* i_start_sector of the file
    Layouts,                \* the layouts of the disk
    Word,                   \* bytes that kmemcpy moves at once
    Lens,                   \* bound: the lengths of requests
    Reach                   \* bound: where requests end

ASSUME ReadWriteAssumption ==
    /\ {SECTOR_SIZE, NR_DEFAULT_FILE_SECTS, FsbufSectors, Word} \subseteq Nat \ {0}
    /\ SECTOR_SIZE % Word = 0
    /\ FirstSector \in Nat /\ Radix < FsbufSectors
    /\ 2 \in Parts
    /\ \A layout \in Layouts : /\ FdiskMade(layout) /\ layout[2].sys_id = EXT_PART
                              /\ layout[2].sub[1].base + FirstSector + Reach \div SECTOR_SIZE \in Addresses
    /\ Lens \subseteq Nat /\ Reach \in Nat

Capacity == NR_DEFAULT_FILE_SECTS * SECTOR_SIZE

\* The disk from the file on, as far as these requests look.
Bytes == 0..Reach + Radix * SECTOR_SIZE - 1

Unwritten == 0      \* in the file, until it is written
Other == -1         \* in the sectors behind it
Beyond == -2        \* in the memory behind a buffer

VARIABLES
    layout,     \* of the disk
    hd_info,    \* what the driver knows of it
    disk,       \* the bytes on disk
    i_size, fd_pos,
    call,       \* the request: d, its type, len, the variables of the loop,
                \* and how disk, size and position were at its start
    buf,        \* the user's buffer of a READ: the bytes copied to it
    pc          \* "open", "receive", "loop", "reply", "stuck": TASK_HD never
                \* answers, or "wild": kmemcpy never ends

diskVars == <<layout, hd_info>>
readWriteVars == <<diskVars, disk, i_size, fd_pos, call, buf, pc>>

NoCall == [d |-> CHOOSE d \in Descs : TRUE, type |-> "READ", len |-> 0, i |-> 0, last |-> 0, chunk |-> 0, off |-> 0,
           done |-> 0, left |-> 0, disk0 |-> [k \in Bytes |-> Unwritten], size0 |-> 0, pos0 |-> 0]
NoBytes == [k \in {} |-> Unwritten]

ReadWriteTypeOK ==
    /\ disk \in [Bytes -> Int] /\ i_size \in Nat /\ fd_pos \in [Descs -> Nat]
    /\ call.left \in Nat /\ call.done + call.left = call.len
    /\ pc \in {"open", "receive", "loop", "reply", "stuck", "wild"}

ReadWriteInit ==
    /\ layout \in Layouts
    /\ hd_info = [primary |-> [j \in Parts |-> Info(0, 0)],
                  logical |-> [n \in 0..NR_PART_PER_DRIVE * NR_SUB_PER_PART - 1 |-> Info(0, 0)]]
    /\ disk = [k \in Bytes |-> IF k < Capacity THEN Unwritten ELSE Other]
    /\ i_size = 0
    /\ fd_pos = [d \in Descs |-> 0]
    /\ call = NoCall
    /\ buf = NoBytes
    /\ pc = "open"

\* init_fs opens the disk.
hd_open ==
    /\ pc = "open" /\ pc' = "receive"
    /\ hd_info' = Partitioned(layout)
    /\ UNCHANGED <<layout, disk, i_size, fd_pos, call, buf>>

min(a, b) == IF a < b THEN a ELSE b

-----------------------------------------------------------------------------
\* Mutant: a word more than the whole ones, rest or none.
CopiedOneMore(n) == (n \div Word + 1) * Word

\* kmemcpy moves whole words, one more for a rest.
Copied(n) == ((n + Word - 1) \div Word) * Word

\* Mutant: a WRITE does not reach past the size.
EndOfOld(type, pos, len) == min(pos + len, i_size)

\* pos_end.
EndOf(type, pos, len) == min(pos + len, IF type = "READ" THEN i_size ELSE Capacity)

\* Mutant: another sector.
LastSectorAndNext(end) == end \div SECTOR_SIZE + 1

\* rw_sect_max.
LastSector(end) == end \div SECTOR_SIZE

Begin(d, type, len) ==
    LET first == fd_pos[d] \div SECTOR_SIZE
        last == LastSector(EndOf(type, fd_pos[d], len))
    IN  /\ pc = "receive" /\ fd_pos[d] + len <= Reach
        /\ call' = [d |-> d, type |-> type, len |-> len,
                    i |-> first, last |-> last, chunk |-> min(last - first + 1, FsbufSectors),
                    off |-> fd_pos[d] % SECTOR_SIZE, done |-> 0, left |-> len,
                    disk0 |-> disk, size0 |-> i_size, pos0 |-> fd_pos[d]]
        /\ buf' = buf
        /\ pc' = "loop"
        /\ UNCHANGED <<diskVars, disk, i_size, fd_pos>>

\* hd_rdwt: the sector, from the start of the file, that the drive is sent to
\* for the i-th of the file, and whether the drive moves all of a chunk.  The
\* position passed between the two, i * SECTOR_SIZE, is a signed 32-bit product
\* in the code: the file is taken to lie in the first 2 GB of its partition.
Sector(i) == Address(RootOf(hd_info).base + FirstSector + i) - (layout[2].sub[1].base + FirstSector)
DriveMoves(chunk) == chunk <= Moves(Count(chunk * SECTOR_SIZE, SECTOR_SIZE))

\* Mutant: all of the chunk, whatever is left of the request.
PortionAll(left, chunk, off) == chunk * SECTOR_SIZE - off

\* How many bytes of the request are in the chunk.
Portion(left, chunk, off) == min(left, chunk * SECTOR_SIZE - off)

\* The chunk is read; the bytes go from it to the user, or from the user to it
\* and it is written back.  A copy of no byte goes through all of memory.
CopyPass ==
    LET bytes == Portion(call.left, call.chunk, call.off)
        from == Sector(call.i) * SECTOR_SIZE + call.off         \* in the file
        end == (Sector(call.i) + call.chunk) * SECTOR_SIZE      \* of the chunk
        copied == 0..Copied(bytes) - 1
    IN  /\ bytes > 0
        /\ IF call.type = "READ"
           THEN /\ buf' = [k \in DOMAIN buf \cup {call.done + j : j \in copied} |->
                              IF k < call.done THEN buf[k]
                              ELSE IF from + k - call.done < end THEN disk[from + k - call.done]
                              ELSE Beyond]
                /\ disk' = disk
           ELSE /\ disk' = [k \in Bytes |->
                              IF k < end /\ k - from \in copied
                              THEN IF call.done + k - from < call.len THEN call.done + k - from + 1 ELSE Beyond
                              ELSE disk[k]]
                /\ buf' = buf
        /\ fd_pos' = [fd_pos EXCEPT ![call.d] = @ + bytes]
        /\ call' = [call EXCEPT !.i = @ + call.chunk, !.off = 0,
                                !.done = @ + bytes, !.left = @ - bytes]
        /\ UNCHANGED <<diskVars, i_size, pc>>

\* The drive is done with its count and TASK_HD still waits for it.
DriveDone == ~DriveMoves(call.chunk) /\ pc' = "stuck"
CopyNothing == DriveMoves(call.chunk) /\ call.left = 0 /\ pc' = "wild"

Pass ==
    /\ pc = "loop" /\ call.i <= call.last
    /\ \/ DriveMoves(call.chunk) /\ CopyPass
       \/ (DriveDone \/ CopyNothing) /\ UNCHANGED <<diskVars, disk, i_size, fd_pos, call, buf>>

\* Mutant: the size is that of the last position.
LastPosition == fd_pos[call.d]
NewSize == IF fd_pos[call.d] > i_size THEN fd_pos[call.d] ELSE i_size

End ==
    /\ pc = "loop" /\ call.i > call.last
    /\ i_size' = NewSize
    /\ pc' = "reply"
    /\ UNCHANGED <<diskVars, disk, fd_pos, call, buf>>

Reply ==
    /\ pc = "reply"
    /\ pc' = "receive"
    /\ call' = NoCall /\ buf' = NoBytes
    /\ UNCHANGED <<diskVars, disk, i_size, fd_pos>>

\* A user that closes the file and opens it again starts at its beginning.
Reopen(d) ==
    /\ pc = "receive"
    /\ fd_pos' = [fd_pos EXCEPT ![d] = 0]
    /\ UNCHANGED <<diskVars, disk, i_size, call, buf, pc>>

ReadWriteNext ==
    \/ hd_open
    \/ \E d \in Descs : Reopen(d) \/ \E type \in {"READ", "WRITE"}, len \in Lens : Begin(d, type, len)
    \/ Pass \/ End \/ Reply
ReadWriteSpec == ReadWriteInit /\ [][ReadWriteNext]_readWriteVars

-----------------------------------------------------------------------------
Ends == call.pos0 + call.len

\* A WRITE within the capacity changes the bytes that it is for and no other,
\* up to the end of this file or behind its sectors, though whole sectors are read and
\* written back, and one too many at a boundary.  kmemcpy is for this to copy
\* byte by byte: "Copy unit is byte" (memory.asm).
WriteExact ==
    pc = "reply" /\ call.type = "WRITE" /\ Ends <= Capacity =>
        /\ \A k \in Bytes : k < i_size \/ k >= Capacity =>
              disk[k] = IF k \in call.pos0..Ends - 1 THEN k - call.pos0 + 1 ELSE call.disk0[k]
        /\ i_size >= Ends /\ i_size >= call.size0

\* A READ within the file gives its user these bytes and no more, and changes
\* nothing but the position.
ReadExact ==
    pc = "reply" /\ call.type = "READ" /\ Ends <= call.size0 =>
        /\ buf = [j \in 0..call.len - 1 |-> call.disk0[call.pos0 + j]]
        /\ disk = call.disk0 /\ i_size = call.size0

\* All of the request is done, and the descriptor is behind it; the others
\* stay, and none is behind the end of the file.
PositionsKept ==
    /\ pc = "reply" /\ Ends <= (IF call.type = "READ" THEN call.size0 ELSE Capacity) =>
          call.done = call.len /\ fd_pos[call.d] = Ends
    /\ pc = "receive" => \A d \in Descs : fd_pos[d] <= i_size

\* A request is answered unless it is empty, which makes kmemcpy copy without end,
\* or ends as many sectors from its first one as the byte counts that the drive is
\* given, or farther.  It may not even end there: the sector at its end is read too.
HangCause ==
    /\ pc = "wild" => call.len = 0
    /\ pc = "stuck" => (call.pos0 % SECTOR_SIZE) + call.len >= Radix * SECTOR_SIZE

\* The driver finds each partition where the disk has it and takes none for
\* another: a chain of tables in an extended partition counts from two
\* different sectors, and may be longer than there is place for.
PartitionsFound ==
    pc # "open" => \A j \in Parts :
        /\ hd_info.primary[j] = Info(layout[j].base, layout[j].size)
        /\ \A i \in 1..NR_SUB_PER_PART :
              hd_info.logical[(j - 1) * NR_SUB_PER_PART + i - 1] =
                 IF i <= Len(layout[j].sub) THEN Info(layout[j].sub[i].base, layout[j].sub[i].size)
                                            ELSE Info(0, 0)
=============================================================================
