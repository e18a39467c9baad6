------------------------------- MODULE Files -------------------------------
(***************************************************************************)
(* The file system of TASK_FS: fs/fs.c, fs/open.c and fs/link.c, without   *)
(* the contents of files (do_rdwt).                                        *)
(*                                                                         *)
(* TASK_FS serves one request at a time, and nobody else touches its       *)
(* tables or the disk's file system, so a request is one step.  Requests   *)
(* of all users come in every order.  The disk is formatted at every boot. *)
(*                                                                         *)
(* A path is the name in it: strip_path drops a leading slash, and EMPTY   *)
(* is what is left of "/".  A deeper path is refused before it changes     *)
(* anything.  Sizes count directory entries, i_start_sector is the bit of  *)
(* the sector map that stands for the sector.                              *)
(***************************************************************************)
EXTENDS Integers, FiniteSets

CONSTANTS
    Users,
    Names,              \* names that fit in an entry with their terminator
    LongNames,          \* names of MAX_FILENAME_LEN characters
    EMPTY, DOT,         \* the name of no character, the root directory's
    Consoles,           \* the names of the console devices, by inode number
    NR_FILES, NR_FILE_DESC, NR_INODE,
    NrInodes,           \* bits of the inode map
    NrSectors,          \* bits of the sector map
    NR_DEFAULT_FILE_SECTS,
    EntriesPerSector,
    Paths,              \* bound: the names that users pass
    MaxCnt              \* bound: an unlink is refused for an inode with fewer references

NR_CONSOLES == Cardinality(DOMAIN Consoles)
ROOT_INODE == 1
INVALID_INODE == 0

FilesNames == Names \cup LongNames \cup {EMPTY, DOT} \cup {Consoles[n] : n \in DOMAIN Consoles}
Fds == 0..NR_FILES - 1
Descs == 1..NR_FILE_DESC        \* 0 stands for a null pointer, here
Slots == 1..NR_INODE            \* and here
InodeNrs == 0..NrInodes - 1
Entries == 1..NR_DEFAULT_FILE_SECTS * EntriesPerSector

ASSUME FilesAssumption ==
    /\ {NR_FILES, NR_FILE_DESC, NR_INODE, NR_DEFAULT_FILE_SECTS, EntriesPerSector, MaxCnt} \subseteq Nat \ {0}
    /\ Paths \subseteq FilesNames
    /\ NrInodes \in Nat /\ NrSectors \in Nat /\ NR_DEFAULT_FILE_SECTS < NrSectors
    /\ IsFiniteSet(DOMAIN Consoles) /\ DOMAIN Consoles = 2..NR_CONSOLES + 1
    /\ NR_CONSOLES + 2 <= NrInodes
    /\ NR_CONSOLES + 1 <= EntriesPerSector

VARIABLES
    fs,             \* "up"; "tty": waits for the console; "halted"; "wild": undefined
    filp,           \* filp[u][fd]: the descriptor, or 0
    f_desc_table,   \* f_desc_table[d]: fd_inode, a slot of inode_table, or 0
    inode_table,    \* the inodes in memory
    imap, smap,     \* on disk: the bits set in the two maps,
    inodes,         \* the inode array,
    dir             \* and the entries of the root directory

tables == <<filp, f_desc_table, inode_table>>
diskVars == <<imap, smap, inodes, dir>>
filesVars == <<fs, tables, diskVars>>

Mode == {"none", "directory", "char", "regular"}
NoInode == [mode |-> "none", size |-> 0, start |-> 0]
NoEntry == [name |-> EMPTY, inode |-> INVALID_INODE]

FilesTypeOK ==
    /\ fs \in {"up", "tty", "halted", "wild"}
    /\ filp \in [Users -> [Fds -> Descs \cup {0}]]
    /\ f_desc_table \in [Descs -> Slots \cup {0}]
    /\ inode_table \in [Slots -> [num : InodeNrs, cnt : Nat, mode : Mode, size : Entries \cup {0}, start : 0..NrSectors]]
    /\ imap \subseteq InodeNrs /\ smap \subseteq 0..NrSectors - 1
    /\ inodes \in [InodeNrs -> [mode : Mode, size : Entries \cup {0}, start : 0..NrSectors]]
    /\ dir \in [Entries -> [name : FilesNames, inode : InodeNrs]]

-----------------------------------------------------------------------------
\* root_inode.
ROOT == 1

Extent(start) == start..start + NR_DEFAULT_FILE_SECTS - 1

RootOnDisk == [mode |-> "directory", size |-> NR_CONSOLES + 1, start |-> 1]

\* The root directory with the consoles, which have no sectors.
mkfs ==
    /\ imap = 0..NR_CONSOLES + 1
    /\ smap = {0} \cup Extent(1)
    /\ inodes = [n \in InodeNrs |-> CASE n = ROOT_INODE -> RootOnDisk
                                      [] n \in DOMAIN Consoles -> [NoInode EXCEPT !.mode = "char"]
                                      [] OTHER -> NoInode]
    /\ dir = [i \in Entries |-> CASE i = 1 -> [name |-> DOT, inode |-> ROOT_INODE]
                                  [] i \in DOMAIN Consoles -> [name |-> Consoles[i], inode |-> i]
                                  [] OTHER -> NoEntry]

\* init_fs keeps a reference to the root directory, in slot 1.
FilesInit ==
    LET free == [num |-> 0, cnt |-> 0, mode |-> "none", size |-> 0, start |-> 0]
        root == [num |-> ROOT_INODE, cnt |-> 1, mode |-> RootOnDisk.mode,
                 size |-> RootOnDisk.size, start |-> RootOnDisk.start]
    IN  /\ fs = "up"
        /\ filp = [u \in Users |-> [fd \in Fds |-> 0]]
        /\ f_desc_table = [d \in Descs |-> 0]
        /\ inode_table = [s \in Slots |-> IF s = ROOT THEN root ELSE free]
        /\ mkfs

\* The first of a set, where the code takes the first that it comes across.
IsFirst(S, x) == x \in S /\ \A y \in S : x <= y

\* A failed assertion and a panic in TASK_FS stop the system: what is in
\* memory or on disk after that is never looked at.
Halts == fs' = "halted" /\ UNCHANGED <<tables, diskVars>>
Returns == UNCHANGED filesVars

-----------------------------------------------------------------------------
(* The inode table.                                                        *)

Cached(n) == {s \in Slots : inode_table[s].cnt > 0 /\ inode_table[s].num = n}
Unused == {s \in Slots : inode_table[s].cnt = 0}
InodeTableFull(n) == Cached(n) = {} /\ Unused = {}

\* get_inode(dev, n) returns slot s, and leaves the table as Got(n, s).
Gets(n, s) == IF Cached(n) # {} THEN IsFirst(Cached(n), s) ELSE IsFirst(Unused, s)
Loaded(n) == [num |-> n, cnt |-> 1, mode |-> inodes[n].mode, size |-> inodes[n].size, start |-> inodes[n].start]

\* Mutant: an inode that is in memory already is not counted once more.
GotUncounted(n, s) == IF Cached(n) # {} THEN inode_table ELSE [inode_table EXCEPT ![s] = Loaded(n)]

Got(n, s) ==
    IF Cached(n) # {}
    THEN [inode_table EXCEPT ![s].cnt = @ + 1]
    ELSE [inode_table EXCEPT ![s] = Loaded(n)]

\* What sync_inode writes of an inode; a request syncs that of its file n and
\* the root's.
OnDisk(i) == [mode |-> i.mode, size |-> i.size, start |-> i.start]

\* Mutant: the root's inode is not written back.
SyncedFile(n, file, root) == [inodes EXCEPT ![n] = OnDisk(file)]
Synced(n, file, root) == [inodes EXCEPT ![n] = OnDisk(file), ![ROOT_INODE] = OnDisk(root)]

-----------------------------------------------------------------------------
(* The root directory.                                                     *)

RootSize == inode_table[ROOT].size
RootSectors == (RootSize + EntriesPerSector - 1) \div EntriesPerSector

\* search_file looks at one entry more than the directory has, if the last
\* sector has one more.
Searched == 1..IF RootSize < RootSectors * EntriesPerSector THEN RootSize + 1 ELSE RootSize
search_file(name, n) ==
    LET found == {i \in Searched : dir[i].name = name}
    IN  \/ found = {} /\ n = INVALID_INODE
        \/ \E i \in found : IsFirst(found, i) /\ n = dir[i].inode

Holes == {i \in 1..RootSize : dir[i].inode = INVALID_INODE}

\* An entry written at i.  The terminator of a long name falls on the low byte
\* of the next entry's inode_nr, when that is in the same sector.
Filled(i, n, name) ==
    [j \in Entries |->
        IF j = i THEN [name |-> name, inode |-> n]
        ELSE IF j = i + 1 /\ name \in LongNames /\ i % EntriesPerSector # 0
             THEN [dir[j] EXCEPT !.inode = @ - (@ % 256)]
             ELSE dir[j]]

\* The last sector is full: the entry goes past the end of the buffer, and
\* the buffer to the sector after the last.
Overrun ==
    [j \in Entries |-> IF j - RootSize \in 1..EntriesPerSector THEN dir[j - EntriesPerSector]
                                                               ELSE dir[j]]

new_dir_entry(n, name) ==
    \/ \E i \in Holes : IsFirst(Holes, i) /\ dir' = Filled(i, n, name)
    \/ /\ Holes = {}
       /\ dir' = IF RootSize % EntriesPerSector # 0 THEN Filled(RootSize + 1, n, name) ELSE Overrun
NewRootSize == IF Holes = {} THEN RootSize + 1 ELSE RootSize

-----------------------------------------------------------------------------
(* do_open.                                                                *)

FreeFds(u) == {fd \in Fds : filp[u][fd] = 0}
FreeDescs == {d \in Descs : f_desc_table[d] = 0}

\* The descriptor that a successful open takes.
Takes(u, s) ==
    \E fd \in Fds, d \in Descs :
        /\ IsFirst(FreeFds(u), fd) /\ IsFirst(FreeDescs, d)
        /\ filp' = [filp EXCEPT ![u][fd] = d]
        /\ f_desc_table' = [f_desc_table EXCEPT ![d] = s]

NoDescriptor(u) == fs = "up" /\ (FreeFds(u) = {} \/ FreeDescs = {}) /\ Halts

\* An open with neither O_CREAT nor an access mode fails an assertion.
NoAccess(u) == fs = "up" /\ FreeFds(u) # {} /\ FreeDescs # {} /\ Halts

Open(u, name) ==
    /\ fs = "up" /\ FreeFds(u) # {} /\ FreeDescs # {}
    /\ \E n \in InodeNrs :
        /\ search_file(name, n)
        /\ \/ n = INVALID_INODE /\ Returns
           \/ n # INVALID_INODE /\ InodeTableFull(n) /\ Halts
           \/ /\ n # INVALID_INODE
              /\ \E s \in Slots :
                    /\ Gets(n, s)
                    /\ LET mode == Got(n, s)[s].mode IN
                       IF mode = "none" \/ (mode = "directory" /\ n # ROOT_INODE) THEN Halts
                       ELSE /\ Takes(u, s)
                            /\ inode_table' = Got(n, s)
                            /\ fs' = IF mode = "char" THEN "tty" ELSE "up"
                            /\ UNCHANGED diskVars

alloc_imap_bit(n) == IsFirst(InodeNrs \ imap, n)

\* The sectors of a file follow each other from the first free one.
alloc_smap_bit(b) ==
    LET free == (0..NrSectors - 1) \ smap IN IsFirst(free, b) /\ Extent(b) \subseteq free

\* create_file.  Without a free inode number, get_inode(dev, 0) is a null
\* pointer, which new_inode writes to.
Create(u, name) ==
    LET room == {b \in 0..NrSectors - 1 : alloc_smap_bit(b)}
    IN  /\ fs = "up" /\ FreeFds(u) # {} /\ FreeDescs # {}
        /\ search_file(name, INVALID_INODE)
        /\ \/ room = {} /\ Halts
           \/ room # {} /\ imap = InodeNrs /\ fs' = "wild" /\ UNCHANGED <<tables, diskVars>>
           \/ \E b \in room, n \in InodeNrs :
                /\ alloc_imap_bit(n)
                /\ \/ InodeTableFull(n) /\ Halts
                   \/ \E s \in Slots :
                        LET new == [num |-> n, cnt |-> 1, mode |-> "regular", size |-> 0, start |-> b]
                            table == [inode_table EXCEPT ![s] = new, ![ROOT].size = NewRootSize]
                        IN  /\ Gets(n, s)
                            /\ imap' = imap \cup {n}
                            /\ smap' = smap \cup Extent(b)
                            /\ inode_table' = table
                            /\ inodes' = Synced(n, new, table[ROOT])
                            /\ new_dir_entry(n, name)
                            /\ Takes(u, s)
                            /\ fs' = fs

\* With O_CREAT, a name that exists is an error.
CreateExisting(u, name) ==
    fs = "up" /\ FreeFds(u) # {} /\ FreeDescs # {} /\ ~ search_file(name, INVALID_INODE) /\ Returns

do_open(u) ==
    \/ NoDescriptor(u)
    \/ NoAccess(u)
    \/ \E name \in Paths : Open(u, name) \/ Create(u, name) \/ CreateExisting(u, name)

-----------------------------------------------------------------------------
(* do_close and do_unlink.                                                 *)

\* Mutant: the user's table keeps the descriptor.
do_close_half(u) ==
    \E fd \in Fds :
        LET d == filp[u][fd] IN
        /\ fs = "up" /\ d # 0
        /\ inode_table' = [inode_table EXCEPT ![f_desc_table[d]].cnt = @ - 1]
        /\ f_desc_table' = [f_desc_table EXCEPT ![d] = 0]
        /\ UNCHANGED <<fs, filp, diskVars>>

\* Users close descriptors that they have.  put_inode asserts that it has a
\* reference to give back.
do_close(u) ==
    \E fd \in Fds :
        LET d == filp[u][fd]
            s == f_desc_table[d]
        IN  /\ fs = "up" /\ d # 0
            /\ IF inode_table[s].cnt = 0 THEN Halts
               ELSE /\ inode_table' = [inode_table EXCEPT ![s].cnt = @ - 1]
                    /\ f_desc_table' = [f_desc_table EXCEPT ![d] = 0]
                    /\ filp' = [filp EXCEPT ![u][fd] = 0]
                    /\ UNCHANGED <<fs, diskVars>>

\* do_unlink gives up with the reference that get_inode took.
Refused(n, s) == inode_table[s].cnt < MaxCnt /\ inode_table' = Got(n, s) /\ UNCHANGED <<fs, filp, f_desc_table, diskVars>>

\* Mutants: the sector is not written back; the last byte of the sector map
\* is left as it is; the inode map is.
ClearEntryInBuffer(i) == dir' = dir
FreeBitsButLast(n, start) == imap' = imap \ {n} /\ smap' = smap \ (Extent(start) \ {start + NR_DEFAULT_FILE_SECTS - 1})
FreeSectorBits(n, start) == imap' = imap /\ smap' = smap \ Extent(start)

\* The bits of the file are cleared in both maps.
FreeBits(n, start) == imap' = imap \ {n} /\ smap' = smap \ Extent(start)

\* The directory entries from the first to the one of the file, which goes; if
\* it is the last one, the directory ends with as many entries as the others are.
ClearEntry(i) == dir' = [dir EXCEPT ![i] = NoEntry]
ShrunkSize(i) ==
    IF i = RootSize THEN Cardinality({j \in 1..i - 1 : dir[j].inode # INVALID_INODE}) ELSE RootSize

\* Mutant: counted down twice.
ClearedTwice(n) == [num |-> n, cnt |-> -1, mode |-> "none", size |-> 0, start |-> 0]

\* The inode that do_unlink leaves in memory, its one reference given back.
Cleared(n) == [num |-> n, cnt |-> 0, mode |-> "none", size |-> 0, start |-> 0]

Removed(n, s) ==
    LET start == Got(n, s)[s].start
        named == {i \in 1..RootSize : dir[i].inode = n}
    IN  IF ~ (n \in imap /\ Extent(start) \subseteq smap) \/ named = {} THEN Halts
        ELSE \E i \in named :
                LET table == [inode_table EXCEPT ![s] = Cleared(n), ![ROOT].size = ShrunkSize(i)]
                IN  /\ IsFirst(named, i)
                    /\ FreeBits(n, start)
                    /\ inode_table' = table
                    /\ inodes' = Synced(n, table[s], table[ROOT])
                    /\ ClearEntry(i)
                    /\ UNCHANGED <<fs, filp, f_desc_table>>

\* Mutant: an open file is removed too.
RemovableOpen(pin) == pin.mode = "regular"
Removable(pin) == pin.mode = "regular" /\ pin.cnt = 1

do_unlink(name) ==
    /\ fs = "up"
    /\ name # EMPTY
    /\ \E n \in InodeNrs :
        /\ search_file(name, n)
        /\ \/ n = INVALID_INODE /\ Returns
           \/ n # INVALID_INODE /\ InodeTableFull(n) /\ Halts
           \/ /\ n # INVALID_INODE
              /\ \E s \in Slots :
                    /\ Gets(n, s)
                    /\ IF Removable(Got(n, s)[s]) THEN Removed(n, s) ELSE Refused(n, s)

-----------------------------------------------------------------------------
FilesNext == \/ \E u \in Users : do_open(u) \/ do_close(u)
             \/ \E name \in Paths : do_unlink(name)
FilesSpec == FilesInit /\ [][FilesNext]_filesVars

-----------------------------------------------------------------------------
\* A descriptor belongs to one user under one number, or to nobody and is free.
DescriptorsOwned ==
    /\ \A u \in Users, fd \in Fds : filp[u][fd] # 0 => f_desc_table[filp[u][fd]] # 0
    /\ \A u, v \in Users, fd, e \in Fds :
          filp[u][fd] # 0 /\ filp[u][fd] = filp[v][e] => u = v /\ fd = e
    /\ \A d \in Descs : f_desc_table[d] # 0 => \E u \in Users, fd \in Fds : filp[u][fd] = d

\* i_cnt is at least the number of descriptors of the inode, and one more for
\* the root directory, which TASK_FS keeps: no inode in use is ever replaced.
CountsCover ==
    \A s \in Slots :
        inode_table[s].cnt >= Cardinality({d \in Descs : f_desc_table[d] = s}) + (IF s = ROOT THEN 1 ELSE 0)

\* An inode is in memory once, and as it is on disk.
CopiesAgree ==
    fs \in {"up", "tty"} =>
        \A s \in Slots : inode_table[s].cnt > 0 =>
            /\ Cached(inode_table[s].num) = {s}
            /\ OnDisk(inode_table[s]) = inodes[inode_table[s].num]

\* The maps say what the inodes say: the numbers in use, and the sectors, each
\* of one file; none is lost.
MapsAgree ==
    LET files == {n \in InodeNrs : inodes[n].mode \in {"regular", "directory"}}
    IN  /\ imap = {0} \cup {n \in InodeNrs : inodes[n].mode # "none"}
        /\ smap = {0} \cup UNION {Extent(inodes[n].start) : n \in files}
        /\ \A m, n \in files : m # n => Extent(inodes[m].start) \cap Extent(inodes[n].start) = {}

\* As long as the directory has fit in its first sector: an entry names an
\* inode in use, which no other entry names.
EntriesInUse ==
    (\A i \in Entries : i > EntriesPerSector => dir[i] = NoEntry) =>
        \A i \in Entries : dir[i].inode # INVALID_INODE =>
            /\ dir[i].inode \in imap
            /\ \A j \in Entries : dir[j].inode = dir[i].inode => i = j

\* Inode numbers do not give out before sectors do, if there are as many as
\* files fit: new_inode never writes through the null pointer that
\* get_inode(dev, 0) returns.
NumbersSuffice ==
    NrInodes - NR_CONSOLES - 1 >= (NrSectors - 1) \div NR_DEFAULT_FILE_SECTS => fs # "wild"

\* The file that a descriptor leads to, by its inode number.
FileOf(u, fd) == IF filp[u][fd] = 0 THEN 0 ELSE inode_table[f_desc_table[filp[u][fd]]].num

Abstract == INSTANCE Handles WITH
    User <- Users,
    Handle <- Fds,
    File <- InodeNrs \ {0},
    Kept <- 1..NR_CONSOLES + 1,
    None <- 0,
    files <- imap \ {0},
    opened <- [u \in Users |-> [fd \in Fds |-> FileOf(u, fd)]]

\* Every request is a step of Handles or changes nothing there: a descriptor
\* leads to the same file until its user closes it, though its inode is shared
\* and counted (get_inode, put_inode), and do_unlink removes no open file.
ImplementsHandles == Abstract!Spec
=============================================================================
