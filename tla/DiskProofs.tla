----------------------------- MODULE DiskProofs -----------------------------
(***************************************************************************)
(* What Files keeps on disk, for any number of users, inodes and sectors:  *)
(* the maps say what the inodes say, no two files share a sector, and the  *)
(* inodes in memory are those on disk; inode numbers last as long as       *)
(* sectors do; and an entry of the directory names an inode in use.        *)
(***************************************************************************)
EXTENDS FilesProofs

HasSectors(i) == i.mode \in {"regular", "directory"}

\* CopiesAgree, but for what InMemoryOnce says, and whether TASK_FS runs or not.
Copies ==
    \A s \in Slots : inode_table[s].cnt > 0 => OnDisk(inode_table[s]) = inodes[inode_table[s].num]

\* MapsAgree, bit by bit; and bit 0 of the sector map is no file's.
Maps ==
    /\ \A n \in InodeNrs : n \in imap <=> (n = 0 \/ inodes[n].mode # "none")
    /\ \A x : x \in smap <=> (x = 0 \/ \E m \in InodeNrs : HasSectors(inodes[m]) /\ x \in Extent(inodes[m].start))
    /\ \A m \in InodeNrs : HasSectors(inodes[m]) => 0 \notin Extent(inodes[m].start)
    /\ \A m, n \in InodeNrs : m # n /\ HasSectors(inodes[m]) /\ HasSectors(inodes[n]) =>
          \A x : ~ (x \in Extent(inodes[m].start) /\ x \in Extent(inodes[n].start))

DiskInv == FilesInv /\ Copies /\ Maps

-----------------------------------------------------------------------------
\* The invariant says what the run's properties ask.
LEMMA DiskInvSuffices ==
    ASSUME DiskInv
    PROVE  CopiesAgree /\ MapsAgree
<1>1. ASSUME NEW s \in Slots, inode_table[s].cnt > 0
      PROVE  Cached(inode_table[s].num) = {s}
  BY <1>1 DEF DiskInv, FilesInv, InMemoryOnce, Cached
<1>2. CopiesAgree
  BY <1>1 DEF DiskInv, Copies, CopiesAgree
<1> DEFINE files == {n \in InodeNrs : inodes[n].mode \in {"regular", "directory"}}
<1>3. imap = {0} \cup {n \in InodeNrs : inodes[n].mode # "none"}
  BY Constants DEF DiskInv, Maps, FilesInv, Shapes
<1>4. smap = {0} \cup UNION {Extent(inodes[n].start) : n \in files}
  <2>1. \A x : x \in UNION {Extent(inodes[n].start) : n \in files}
                 <=> \E m \in InodeNrs : HasSectors(inodes[m]) /\ x \in Extent(inodes[m].start)
    BY DEF HasSectors
  <2> HIDE DEF files
  <2>2. \A x : x \in smap <=> x \in {0} \/ x \in UNION {Extent(inodes[n].start) : n \in files}
    BY <2>1 DEF DiskInv, Maps
  <2> QED
    BY <2>2
<1>5. \A m, n \in files : m # n => Extent(inodes[m].start) \cap Extent(inodes[n].start) = {}
  BY DEF DiskInv, Maps, HasSectors
<1>6. MapsAgree
  BY <1>3, <1>4, <1>5 DEF MapsAgree
<1> QED
  BY <1>2, <1>6

\* What is in memory after get_inode is as it is on disk.
LEMMA GotAsOnDisk ==
    ASSUME FilesInv, Copies, NEW n \in InodeNrs \ {0}, NEW s \in Slots, Gets(n, s)
    PROVE  /\ OnDisk(Got(n, s)[s]) = inodes[n]
           /\ \A t \in Slots : Got(n, s)[t].cnt > 0 => OnDisk(Got(n, s)[t]) = inodes[Got(n, s)[t].num]
<1>1. /\ Got(n, s)[s].num = n
      /\ \A t \in Slots \ {s} : Got(n, s)[t] = inode_table[t]
      /\ \/ /\ inode_table[s].num = n /\ inode_table[s].cnt > 0
            /\ Got(n, s)[s] = [inode_table[s] EXCEPT !.cnt = @ + 1]
         \/ Got(n, s)[s] = Loaded(n)
  BY GetInode
<1>2. OnDisk(Got(n, s)[s]) = inodes[n]
  <2>1. CASE inode_table[s].num = n /\ inode_table[s].cnt > 0 /\ Got(n, s)[s] = [inode_table[s] EXCEPT !.cnt = @ + 1]
    <3>1. inode_table[s] \in InMemory
      BY DEF FilesInv, Shapes
    <3>2. OnDisk(Got(n, s)[s]) = OnDisk(inode_table[s])
      BY <2>1, <3>1 DEF OnDisk, InMemory
    <3> QED
      BY <2>1, <3>2 DEF Copies
  <2>2. CASE Got(n, s)[s] = Loaded(n)
    <3>1. inodes[n] \in InodeOnDisk
      BY DEF FilesInv, Shapes
    <3> QED
      BY <2>2, <3>1 DEF OnDisk, Loaded, InodeOnDisk
  <2> QED
    BY <1>1, <2>1, <2>2
<1> QED
  BY <1>1, <1>2 DEF Copies

\* A request that halts TASK_FS, or comes back with an error.
LEMMA NothingChanged ==
    ASSUME DiskInv, UNCHANGED <<tables, diskVars>>
    PROVE  Copies' /\ Maps'
<1>1. inode_table' = inode_table /\ inodes' = inodes /\ imap' = imap /\ smap' = smap
  BY DEF tables, diskVars
<1> QED
  BY <1>1 DEF DiskInv, Copies, Maps, HasSectors, OnDisk, Extent

\* An open or a refused unlink: get_inode and nothing on disk.
LEMMA OnlyGot ==
    ASSUME DiskInv, NEW n \in InodeNrs \ {0}, NEW s \in Slots, Gets(n, s), inode_table' = Got(n, s), UNCHANGED diskVars
    PROVE  Copies' /\ Maps'
<1>1. inodes' = inodes /\ imap' = imap /\ smap' = smap
  BY DEF diskVars
<1>2. Maps'
  BY <1>1 DEF DiskInv, Maps, HasSectors, Extent
<1>3. \A t \in Slots : inode_table'[t].cnt > 0 => OnDisk(inode_table'[t]) = inodes[inode_table'[t].num]
  BY GotAsOnDisk DEF DiskInv
<1>4. Copies'
  BY <1>1, <1>3 DEF Copies, OnDisk
<1> QED
  BY <1>2, <1>4

\* A close, which gives one reference back.
LEMMA CountedDown ==
    ASSUME DiskInv, NEW s \in Slots, inode_table[s].cnt # 0,
           inode_table' = [inode_table EXCEPT ![s].cnt = @ - 1], UNCHANGED diskVars
    PROVE  Copies' /\ Maps'
<1>1. inodes' = inodes /\ imap' = imap /\ smap' = smap
  BY DEF diskVars
<1>2. Maps'
  BY <1>1 DEF DiskInv, Maps, HasSectors, Extent
<1>3. inode_table \in [Slots -> InMemory] /\ inode_table[s].cnt \in Nat
  BY DEF DiskInv, FilesInv, Shapes, InMemory
<1>4. /\ \A t \in Slots \ {s} : inode_table'[t] = inode_table[t]
      /\ inode_table'[s] = [inode_table[s] EXCEPT !.cnt = @ - 1]
  BY <1>3
<1>5. OnDisk(inode_table'[s]) = OnDisk(inode_table[s]) /\ inode_table'[s].num = inode_table[s].num
  BY <1>3, <1>4 DEF OnDisk, InMemory
<1>6. inode_table[s].cnt > 0
  BY <1>3
<1>7. \A t \in Slots : inode_table'[t].cnt > 0 => OnDisk(inode_table'[t]) = inodes[inode_table'[t].num]
  BY <1>4, <1>5, <1>6 DEF DiskInv, Copies
<1>8. Copies'
  BY <1>1, <1>7 DEF Copies, OnDisk
<1> QED
  BY <1>2, <1>8

-----------------------------------------------------------------------------
\* Two inodes are written: file n's, which is m now, and the root's, of which
\* memory and disk differ in the size.
SyncsTo(n, file) ==
    /\ inodes' \in [InodeNrs -> InodeOnDisk] /\ n \in InodeNrs \ {0, ROOT_INODE}
    /\ inodes'[n] = file
    /\ inodes'[ROOT_INODE] = OnDisk(inode_table'[ROOT])
    /\ inodes'[ROOT_INODE].mode = inodes[ROOT_INODE].mode
    /\ inodes'[ROOT_INODE].start = inodes[ROOT_INODE].start
    /\ \A k \in InodeNrs \ {n, ROOT_INODE} : inodes'[k] = inodes[k]

\* In memory, slot s and the root's size change.
Puts(s, new, size) ==
    /\ inode_table'[s] = new
    /\ inode_table'[ROOT] = [inode_table[ROOT] EXCEPT !.size = size]
    /\ \A t \in Slots \ {s, ROOT} : inode_table'[t] = inode_table[t]

\* Slot s is file n's, the others keep theirs, but for the root's size.
Holds(s, n, file) ==
    /\ s \in Slots \ {ROOT} /\ inode_table'[ROOT].num = ROOT_INODE
    /\ inode_table'[s].cnt > 0 => inode_table'[s].num = n /\ OnDisk(inode_table'[s]) = file
    /\ \A t \in Slots \ {s, ROOT} : inode_table'[t] = inode_table[t]
    /\ \A t \in Slots \ {s, ROOT} : inode_table[t].cnt > 0 => inode_table[t].num \notin {n, ROOT_INODE}

LEMMA SyncedAgree ==
    ASSUME DiskInv, NEW n, NEW s, NEW file, SyncsTo(n, file), Holds(s, n, file)
    PROVE  Copies'
<1>1. ROOT \in Slots
  BY Constants
<1>2. ASSUME NEW t \in Slots, inode_table'[t].cnt > 0
      PROVE  OnDisk(inode_table'[t]) = inodes'[inode_table'[t].num]
  <2>1. CASE t = ROOT
    BY <2>1 DEF SyncsTo, Holds
  <2>2. CASE t = s
    BY <1>2, <2>2 DEF SyncsTo, Holds
  <2>3. CASE t # s /\ t # ROOT
    <3>1. inode_table'[t] = inode_table[t] /\ inode_table[t].num \notin {n, ROOT_INODE}
      BY <1>2, <2>3 DEF Holds
    <3>2. inode_table[t].num \in InodeNrs
      BY DEF DiskInv, FilesInv, Shapes, InMemory
    <3>3. OnDisk(inode_table[t]) = inodes[inode_table[t].num]
      BY <1>2, <3>1 DEF DiskInv, Copies
    <3> QED
      BY <3>1, <3>2, <3>3 DEF SyncsTo
  <2> QED
    BY <2>1, <2>2, <2>3
<1> QED
  BY <1>2 DEF Copies, OnDisk

\* The other files keep their sectors.
LEMMA OthersKept ==
    ASSUME DiskInv, NEW n, NEW file, SyncsTo(n, file)
    PROVE  \A m \in InodeNrs \ {n} : inodes'[m].mode = inodes[m].mode /\ inodes'[m].start = inodes[m].start
BY DEF SyncsTo

LEMMA FileAdded ==
    ASSUME DiskInv, NEW n, NEW file, NEW b, SyncsTo(n, file),
           inodes[n].mode = "none", HasSectors(file), file.start = b,
           imap' = imap \cup {n}, smap' = smap \cup Extent(b),
           \A x \in Extent(b) : x \notin smap
    PROVE  Maps'
<1>1. /\ n \in InodeNrs \ {0} /\ inodes'[n] = file
      /\ \A m \in InodeNrs \ {n} : inodes'[m].mode = inodes[m].mode /\ inodes'[m].start = inodes[m].start
  BY OthersKept DEF SyncsTo
<1>2. \A m \in InodeNrs \ {n} : HasSectors(inodes'[m]) <=> HasSectors(inodes[m])
  BY <1>1 DEF HasSectors
<1>3. ~ HasSectors(inodes[n]) /\ file.mode # "none"
  BY DEF HasSectors
<1>4. \A m \in InodeNrs : m \in imap' <=> (m = 0 \/ inodes'[m].mode # "none")
  BY <1>1, <1>3 DEF DiskInv, Maps
<1>5. 0 \in smap
  BY DEF DiskInv, Maps
<1>6. ASSUME NEW x
      PROVE  x \in smap' <=> (x = 0 \/ \E m \in InodeNrs : HasSectors(inodes'[m]) /\ x \in Extent(inodes'[m].start))
  <2>1. x \in smap <=> (x = 0 \/ \E m \in InodeNrs \ {n} : HasSectors(inodes[m]) /\ x \in Extent(inodes[m].start))
    BY <1>3 DEF DiskInv, Maps
  <2>2. (\E m \in InodeNrs \ {n} : HasSectors(inodes[m]) /\ x \in Extent(inodes[m].start))
           <=> \E m \in InodeNrs \ {n} : HasSectors(inodes'[m]) /\ x \in Extent(inodes'[m].start)
    BY <1>1, <1>2
  <2> QED
    BY <1>1, <2>1, <2>2
<1>7. \A m \in InodeNrs : HasSectors(inodes'[m]) => 0 \notin Extent(inodes'[m].start)
  BY <1>1, <1>2, <1>5 DEF DiskInv, Maps
<1>8. ASSUME NEW m \in InodeNrs, NEW k \in InodeNrs, m # k, HasSectors(inodes'[m]), HasSectors(inodes'[k]), NEW x
      PROVE  ~ (x \in Extent(inodes'[m].start) /\ x \in Extent(inodes'[k].start))
  <2>1. \A j \in InodeNrs \ {n} : HasSectors(inodes[j]) /\ x \in Extent(inodes[j].start) => x \in smap
    BY DEF DiskInv, Maps
  <2>2. CASE m = n
    BY <1>1, <1>2, <1>8, <2>1, <2>2
  <2>3. CASE k = n
    BY <1>1, <1>2, <1>8, <2>1, <2>3
  <2>4. CASE m # n /\ k # n
    BY <1>1, <1>2, <1>8, <2>4 DEF DiskInv, Maps
  <2> QED
    BY <2>2, <2>3, <2>4
<1> QED
  BY <1>4, <1>6, <1>7, <1>8 DEF Maps, HasSectors, Extent

LEMMA FileRemoved ==
    ASSUME DiskInv, NEW n, NEW file, SyncsTo(n, file),
           HasSectors(inodes[n]), file.mode = "none",
           imap' = imap \ {n}, smap' = smap \ Extent(inodes[n].start)
    PROVE  Maps'
<1>1. /\ n \in InodeNrs \ {0} /\ inodes'[n] = file
      /\ \A m \in InodeNrs \ {n} : inodes'[m].mode = inodes[m].mode /\ inodes'[m].start = inodes[m].start
  BY OthersKept DEF SyncsTo
<1>2. \A m \in InodeNrs \ {n} : HasSectors(inodes'[m]) <=> HasSectors(inodes[m])
  BY <1>1 DEF HasSectors
<1>3. ~ HasSectors(inodes'[n])
  BY <1>1 DEF HasSectors
<1>4. \A m \in InodeNrs : m \in imap' <=> (m = 0 \/ inodes'[m].mode # "none")
  BY <1>1 DEF DiskInv, Maps
<1>5. ASSUME NEW x
      PROVE  x \in smap' <=> (x = 0 \/ \E m \in InodeNrs : HasSectors(inodes'[m]) /\ x \in Extent(inodes'[m].start))
  <2>1. x \in smap <=> (x = 0 \/ \E m \in InodeNrs : HasSectors(inodes[m]) /\ x \in Extent(inodes[m].start))
    BY DEF DiskInv, Maps
  <2>2. \A m \in InodeNrs \ {n} : HasSectors(inodes[m]) /\ x \in Extent(inodes[m].start)
            => x \notin Extent(inodes[n].start)
    BY <1>1 DEF DiskInv, Maps
  <2>3. 0 \notin Extent(inodes[n].start)
    BY <1>1 DEF DiskInv, Maps
  <2>4. x \in smap' <=> (x = 0 \/ \E m \in InodeNrs \ {n} : HasSectors(inodes[m]) /\ x \in Extent(inodes[m].start))
    BY <1>1, <2>1, <2>2, <2>3
  <2>5. (\E m \in InodeNrs \ {n} : HasSectors(inodes[m]) /\ x \in Extent(inodes[m].start))
           <=> \E m \in InodeNrs : HasSectors(inodes'[m]) /\ x \in Extent(inodes'[m].start)
    BY <1>1, <1>2, <1>3
  <2> QED
    BY <2>4, <2>5
<1>6. \A m \in InodeNrs : HasSectors(inodes'[m]) => 0 \notin Extent(inodes'[m].start)
  BY <1>1, <1>2, <1>3 DEF DiskInv, Maps
<1>7. ASSUME NEW m \in InodeNrs, NEW k \in InodeNrs, m # k, HasSectors(inodes'[m]), HasSectors(inodes'[k]), NEW x
      PROVE  ~ (x \in Extent(inodes'[m].start) /\ x \in Extent(inodes'[k].start))
  <2>1. m # n /\ k # n
    BY <1>3, <1>7
  <2> QED
    BY <1>1, <1>2, <1>7, <2>1 DEF DiskInv, Maps
<1> QED
  BY <1>4, <1>5, <1>6, <1>7 DEF Maps, HasSectors, Extent

-----------------------------------------------------------------------------
\* What both requests write of the root.
LEMMA RootSynced ==
    ASSUME DiskInv, NEW n \in InodeNrs \ {0, ROOT_INODE}, NEW s \in Slots \ {ROOT}, NEW size \in Nat,
           NEW new \in InMemory, NEW table,
           table = [inode_table EXCEPT ![s] = new, ![ROOT].size = size], inode_table' = table,
           inodes' = [inodes EXCEPT ![n] = OnDisk(new), ![ROOT_INODE] = OnDisk(table[ROOT])],
           \A t \in Slots \ {s} : inode_table[t].cnt > 0 => inode_table[t].num # n,
           new.cnt > 0 => new.num = n
    PROVE  SyncsTo(n, OnDisk(new)) /\ Holds(s, n, OnDisk(new)) /\ Puts(s, new, size)
<1>1. /\ inode_table \in [Slots -> InMemory] /\ ROOT \in Slots /\ inode_table[ROOT] \in InMemory
      /\ inodes \in [InodeNrs -> InodeOnDisk] /\ ROOT_INODE \in InodeNrs
  BY Constants DEF DiskInv, FilesInv, Shapes
<1>2. [inode_table[ROOT] EXCEPT !.size = size] \in InMemory
  BY <1>1 DEF InMemory
<1>3. /\ inode_table' \in [Slots -> InMemory]
      /\ inode_table'[s] = new
      /\ inode_table'[ROOT] = [inode_table[ROOT] EXCEPT !.size = size]
      /\ \A t \in Slots \ {s, ROOT} : inode_table'[t] = inode_table[t]
  BY <1>1, <1>2
<1>4. OnDisk(new) \in InodeOnDisk /\ OnDisk(table[ROOT]) \in InodeOnDisk
  BY <1>1, <1>2, <1>3 DEF OnDisk, InMemory, InodeOnDisk
<1>5. /\ inodes' \in [InodeNrs -> InodeOnDisk] /\ inodes'[n] = OnDisk(new)
      /\ inodes'[ROOT_INODE] = OnDisk(inode_table'[ROOT])
      /\ \A k \in InodeNrs \ {n, ROOT_INODE} : inodes'[k] = inodes[k]
  BY <1>1, <1>4
<1>6. inode_table[ROOT].num = ROOT_INODE /\ inode_table[ROOT].cnt > 0
  BY HeldCounted DEF DiskInv, FilesInv, InMemoryOnce
<1>7. OnDisk(inode_table[ROOT]) = inodes[ROOT_INODE]
  BY <1>1, <1>6 DEF DiskInv, Copies
<1>8. /\ inodes'[ROOT_INODE].mode = inodes[ROOT_INODE].mode
      /\ inodes'[ROOT_INODE].start = inodes[ROOT_INODE].start
  BY <1>1, <1>3, <1>5, <1>7 DEF OnDisk, InMemory
<1>9. inode_table'[ROOT].num = ROOT_INODE
  BY <1>1, <1>3, <1>6 DEF InMemory
<1>10. \A t \in Slots \ {ROOT} : inode_table[t].cnt > 0 => inode_table[t].num # ROOT_INODE
  BY <1>1, <1>6 DEF DiskInv, FilesInv, InMemoryOnce
<1> QED
  BY <1>3, <1>5, <1>8, <1>9, <1>10 DEF SyncsTo, Holds, Puts

\* A file that is created, and one that is removed.
NewFile(n, b) == [num |-> n, cnt |-> 1, mode |-> "regular", size |-> 0, start |-> b]
Creates(n, b, s, name) ==
    /\ alloc_imap_bit(n) /\ imap' = imap \cup {n}
    /\ alloc_smap_bit(b) /\ smap' = smap \cup Extent(b)
    /\ new_dir_entry(n, name)
    /\ SyncsTo(n, OnDisk(NewFile(n, b))) /\ Holds(s, n, OnDisk(NewFile(n, b)))
    /\ Puts(s, NewFile(n, b), NewRootSize)
    /\ fs' = fs
Unlinks(n, s, i) ==
    /\ HasSectors(inodes[n]) /\ n \in imap
    /\ imap' = imap \ {n} /\ smap' = smap \ Extent(inodes[n].start)
    /\ IsFirst({j \in 1..RootSize : dir[j].inode = n}, i) /\ ClearEntry(i)
    /\ SyncsTo(n, OnDisk(Cleared(n))) /\ Holds(s, n, OnDisk(Cleared(n)))
    /\ Puts(s, Cleared(n), ShrunkSize(i)) /\ ShrunkSize(i) \in Nat
    /\ fs' = fs

LEMMA CreateDoes ==
    ASSUME DiskInv, NEW u \in Users, NEW name \in Paths, Create(u, name)
    PROVE  \/ UNCHANGED <<tables, diskVars>> /\ fs' = "halted"
           \/ /\ UNCHANGED <<tables, diskVars>> /\ fs' = "wild" /\ imap = InodeNrs
              /\ \E b \in 0..NrSectors - 1 : alloc_smap_bit(b)
           \/ \E n \in InodeNrs, b \in 0..NrSectors - 1, s \in Slots : Creates(n, b, s, name)
<1>1. CASE Halts
  BY <1>1 DEF Halts
<1>2. ASSUME NEW b \in 0..NrSectors - 1, NEW n \in InodeNrs, NEW s \in Slots, NEW new, NEW table,
             alloc_smap_bit(b), alloc_imap_bit(n), Gets(n, s), new = NewFile(n, b),
             table = [inode_table EXCEPT ![s] = new, ![ROOT].size = NewRootSize],
             imap' = imap \cup {n}, smap' = smap \cup Extent(b), inode_table' = table,
             inodes' = Synced(n, new, table[ROOT]), new_dir_entry(n, name), fs' = fs
      PROVE  Creates(n, b, s, name)
  <2>1. n \in InodeNrs \ {0, ROOT_INODE} /\ n \notin imap
    BY <1>2, Constants DEF DiskInv, FilesInv, KeptOnDisk, ROOT_INODE, alloc_imap_bit, IsFirst
  <2>2. s \in Slots \ {ROOT} /\ \A t \in Slots \ {s} : inode_table[t].cnt > 0 => inode_table[t].num # n
    <3>1. FilesInv /\ n \in InodeNrs \ {0} /\ Gets(n, s)
      BY <1>2, <2>1 DEF DiskInv
    <3>2. /\ \A t \in Slots \ {s} : /\ Got(n, s)[t] = inode_table[t]
                                    /\ inode_table[t].cnt > 0 => inode_table[t].num # n
          /\ n = ROOT_INODE <=> s = ROOT
      BY <3>1, GetInode
    <3> QED
      BY ONLY <2>1, <3>2, s \in Slots
  <2>3. NewRootSize \in Nat
    BY Constants DEF DiskInv, FilesInv, Shapes, InMemory, NewRootSize, RootSize
  <2>4. new \in InMemory /\ new.num = n
    BY <1>2, FilesAssumption DEF InMemory, Mode, NewFile
  <2>5. inodes' = [inodes EXCEPT ![n] = OnDisk(new), ![ROOT_INODE] = OnDisk(table[ROOT])]
    BY <1>2 DEF Synced
  <2>6. /\ n \in InodeNrs \ {0, ROOT_INODE} /\ s \in Slots \ {ROOT} /\ NewRootSize \in Nat
        /\ new \in InMemory /\ (new.cnt > 0 => new.num = n)
        /\ table = [inode_table EXCEPT ![s] = new, ![ROOT].size = NewRootSize] /\ inode_table' = table
        /\ \A t \in Slots \ {s} : inode_table[t].cnt > 0 => inode_table[t].num # n
    BY <1>2, <2>1, <2>2, <2>3, <2>4
  <2>7. SyncsTo(n, OnDisk(new)) /\ Holds(s, n, OnDisk(new)) /\ Puts(s, new, NewRootSize)
    BY ONLY DiskInv, <2>5, <2>6, RootSynced
  <2>8. new = NewFile(n, b)
    BY <1>2
  <2> QED
    BY <1>2, <2>7, <2>8 DEF Creates
<1>3. ASSUME NEW b \in 0..NrSectors - 1, NEW n \in InodeNrs, alloc_smap_bit(b), alloc_imap_bit(n),
             \E s \in Slots :
                LET new == [num |-> n, cnt |-> 1, mode |-> "regular", size |-> 0, start |-> b]
                    table == [inode_table EXCEPT ![s] = new, ![ROOT].size = NewRootSize]
                IN  /\ Gets(n, s)
                    /\ imap' = imap \cup {n}
                    /\ smap' = smap \cup Extent(b)
                    /\ inode_table' = table
                    /\ inodes' = Synced(n, new, table[ROOT])
                    /\ new_dir_entry(n, name)
                    /\ Takes(u, s)
                    /\ fs' = fs
      PROVE  \E s \in Slots : Creates(n, b, s, name)
  <2>1. PICK s \in Slots :
            LET new == NewFile(n, b)
                table == [inode_table EXCEPT ![s] = new, ![ROOT].size = NewRootSize]
            IN  /\ Gets(n, s)
                /\ imap' = imap \cup {n}
                /\ smap' = smap \cup Extent(b)
                /\ inode_table' = table
                /\ inodes' = Synced(n, new, table[ROOT])
                /\ new_dir_entry(n, name)
                /\ fs' = fs
    BY <1>3 DEF NewFile
  <2> QED
    BY <1>2, <1>3, <2>1
<1> QED
  BY <1>1, <1>3 DEF Create

LEMMA UnlinkDoes ==
    ASSUME DiskInv, NEW n \in InodeNrs \ {0}, NEW s \in Slots, Gets(n, s), Removable(Got(n, s)[s]),
           Removed(n, s), ~ Halts
    PROVE  \E i \in 1..RootSize : Unlinks(n, s, i)
<1> DEFINE named == {j \in 1..RootSize : dir[j].inode = n}
<1>1. PICK i \in named :
         LET table == [inode_table EXCEPT ![s] = Cleared(n), ![ROOT].size = ShrunkSize(i)]
         IN  /\ IsFirst(named, i)
             /\ FreeBits(n, Got(n, s)[s].start)
             /\ inode_table' = table
             /\ inodes' = Synced(n, table[s], table[ROOT])
             /\ ClearEntry(i)
             /\ fs' = fs /\ n \in imap
  BY DEF Removed
<1>2. PICK table : table = [inode_table EXCEPT ![s] = Cleared(n), ![ROOT].size = ShrunkSize(i)]
  OBVIOUS
<1>3. /\ FreeBits(n, Got(n, s)[s].start) /\ inode_table' = table
      /\ inodes' = Synced(n, table[s], table[ROOT])
  BY <1>1, <1>2
<1>4. /\ \A t \in Slots \ {s} : inode_table[t].cnt > 0 => inode_table[t].num # n
      /\ n = ROOT_INODE <=> s = ROOT
      /\ OnDisk(Got(n, s)[s]) = inodes[n]
  <2>1. FilesInv /\ Copies /\ Gets(n, s)
    BY DEF DiskInv
  <2>2. /\ \A t \in Slots \ {s} : /\ Got(n, s)[t] = inode_table[t]
                                  /\ inode_table[t].cnt > 0 => inode_table[t].num # n
        /\ n = ROOT_INODE <=> s = ROOT
    BY <2>1, GetInode
  <2>3. OnDisk(Got(n, s)[s]) = inodes[n]
    BY ONLY <2>1, n \in InodeNrs \ {0}, s \in Slots, GotAsOnDisk
  <2> QED
    BY ONLY <2>2, <2>3
<1>5. inodes[n].mode = "regular" /\ inodes[n].start = Got(n, s)[s].start
  BY <1>4 DEF OnDisk, Removable
<1>6. s # ROOT
  <2>1. ASSUME s = ROOT
        PROVE  FALSE
    <3>1. inode_table[s].cnt > 0 /\ inode_table[s] \in InMemory
      BY <2>1, HeldCounted DEF DiskInv, FilesInv, Shapes
    <3>2. Got(n, s)[s] = [inode_table[s] EXCEPT !.cnt = @ + 1]
      BY <3>1, GetInode DEF DiskInv
    <3>3. Got(n, s)[s].cnt = inode_table[s].cnt + 1
      BY <3>1, <3>2 DEF InMemory
    <3> QED
      BY <3>1, <3>3 DEF Removable, InMemory
  <2> QED
    BY <2>1
<1>7. ShrunkSize(i) \in Nat
  <2>1. PICK live : live = {j \in 1..i - 1 : dir[j].inode # INVALID_INODE}
    OBVIOUS
  <2>2. RootSize \in Nat
    BY Constants DEF DiskInv, FilesInv, Shapes, InMemory, RootSize
  <2>3. IsFiniteSet(1..i - 1)
    BY <2>2, FS_Interval
  <2>4. Cardinality(live) \in Nat
    BY <2>1, <2>3, FS_Subset, FS_CardinalityType
  <2> QED
    BY <2>1, <2>2, <2>4 DEF ShrunkSize
<1>8. Cleared(n) \in InMemory /\ Cleared(n).cnt = 0
  BY DEF InMemory, Mode, Cleared
<1>9. table[s] = Cleared(n)
  <2>1. inode_table \in [Slots -> InMemory]
    BY DEF DiskInv, FilesInv, Shapes
  <2> QED
    BY <1>2, <1>6, <2>1
<1>10. inodes' = [inodes EXCEPT ![n] = OnDisk(Cleared(n)), ![ROOT_INODE] = OnDisk(table[ROOT])]
  BY <1>3, <1>9 DEF Synced
<1>11. /\ n \in InodeNrs \ {0, ROOT_INODE} /\ s \in Slots \ {ROOT} /\ ShrunkSize(i) \in Nat
       /\ Cleared(n) \in InMemory /\ (Cleared(n).cnt > 0 => Cleared(n).num = n)
       /\ table = [inode_table EXCEPT ![s] = Cleared(n), ![ROOT].size = ShrunkSize(i)] /\ inode_table' = table
       /\ \A t \in Slots \ {s} : inode_table[t].cnt > 0 => inode_table[t].num # n
  BY <1>2, <1>3, <1>4, <1>6, <1>7, <1>8
<1>12. SyncsTo(n, OnDisk(Cleared(n))) /\ Holds(s, n, OnDisk(Cleared(n))) /\ Puts(s, Cleared(n), ShrunkSize(i))
  BY ONLY DiskInv, <1>10, <1>11, RootSynced
<1>13. HasSectors(inodes[n])
  BY <1>5 DEF HasSectors
<1>14. imap' = imap \ {n} /\ smap' = smap \ Extent(inodes[n].start)
  BY <1>3, <1>5 DEF FreeBits
<1>15. Unlinks(n, s, i)
  BY <1>1, <1>7, <1>12, <1>13, <1>14 DEF Unlinks
<1> QED
  BY <1>15

\* What a step does: nothing but to TASK_FS itself; an inode counted once more,
\* or once less; or a file created or removed.
Requests ==
    \/ UNCHANGED <<tables, diskVars>> /\ fs' \in {fs, "halted"}
    \/ /\ UNCHANGED <<tables, diskVars>> /\ fs' = "wild" /\ imap = InodeNrs
       /\ \E b \in 0..NrSectors - 1 : alloc_smap_bit(b)
    \/ /\ UNCHANGED diskVars /\ fs' \in {fs, "up", "tty"}
       /\ \E n \in InodeNrs \ {0}, s \in Slots : Gets(n, s) /\ inode_table' = Got(n, s)
    \/ /\ UNCHANGED <<fs, diskVars>>
       /\ \E s \in Slots : inode_table[s].cnt # 0 /\ inode_table' = [inode_table EXCEPT ![s].cnt = @ - 1]
    \/ \E n \in InodeNrs, b \in 0..NrSectors - 1, s \in Slots, name \in Paths : Creates(n, b, s, name)
    \/ \E n \in InodeNrs \ {0}, s \in Slots : \E i \in 1..RootSize : Unlinks(n, s, i)

LEMMA StepsAreRequests ==
    ASSUME DiskInv, [FilesNext]_filesVars
    PROVE  Requests
<1>1. CASE UNCHANGED filesVars
  BY <1>1 DEF Requests, filesVars
<1>2. CASE Halts
  BY <1>2 DEF Requests, Halts
<1>3. ASSUME NEW u \in Users, NoDescriptor(u) \/ NoAccess(u)
      PROVE  Requests
  BY <1>2, <1>3 DEF NoDescriptor, NoAccess
<1>4. ASSUME NEW u \in Users, NEW name \in Paths, Open(u, name)
      PROVE  Requests
  <2>1. \/ Halts \/ Returns
        \/ /\ UNCHANGED diskVars /\ fs' \in {fs, "up", "tty"}
           /\ \E n \in InodeNrs \ {0}, s \in Slots : Gets(n, s) /\ inode_table' = Got(n, s)
    BY <1>4 DEF Open, INVALID_INODE
  <2> QED
    BY <1>1, <1>2, <2>1 DEF Returns, Requests
<1>5. ASSUME NEW u \in Users, NEW name \in Paths, Create(u, name)
      PROVE  Requests
  BY <1>5, CreateDoes DEF Requests
<1>6. ASSUME NEW u \in Users, NEW name \in Paths, CreateExisting(u, name)
      PROVE  Requests
  BY <1>1, <1>6 DEF CreateExisting, Returns
<1>7. ASSUME NEW u \in Users, do_close(u), ~ Halts
      PROVE  Requests
  <2>1. PICK fd \in Fds :
          LET s == f_desc_table[filp[u][fd]] IN
          /\ filp[u][fd] # 0 /\ inode_table[s].cnt # 0
          /\ inode_table' = [inode_table EXCEPT ![s].cnt = @ - 1]
          /\ UNCHANGED <<fs, diskVars>>
    BY <1>7 DEF do_close
  <2>2. filp[u][fd] \in Descs /\ f_desc_table[filp[u][fd]] # 0
    BY <2>1 DEF DiskInv, FilesInv, Shapes, DescriptorsOwned
  <2>3. f_desc_table[filp[u][fd]] \in Slots
    BY <2>2, HeldCounted DEF DiskInv
  <2> QED
    BY <2>1, <2>3 DEF Requests
<1>8. ASSUME NEW name \in Paths, do_unlink(name), ~ Halts, ~ Returns
      PROVE  Requests
  <2>1. PICK n \in InodeNrs \ {0}, s \in Slots :
           /\ Gets(n, s)
           /\ IF Removable(Got(n, s)[s]) THEN Removed(n, s) ELSE Refused(n, s)
    BY <1>8 DEF do_unlink, INVALID_INODE
  <2>2. CASE Removable(Got(n, s)[s])
    BY <1>8, <2>1, <2>2, UnlinkDoes DEF Requests
  <2>3. CASE ~ Removable(Got(n, s)[s])
    BY <2>1, <2>3 DEF Requests, Refused
  <2> QED
    BY <2>2, <2>3
<1> QED
  BY <1>1, <1>2, <1>3, <1>4, <1>5, <1>6, <1>7, <1>8 DEF FilesNext, do_open, Returns

LEMMA DiskStep ==
    ASSUME DiskInv, [FilesNext]_filesVars
    PROVE  DiskInv'
<1>1. FilesInv'
  BY NextStep DEF DiskInv
<1>2. Requests
  BY StepsAreRequests
<1>3. ASSUME UNCHANGED <<tables, diskVars>>
      PROVE  Copies' /\ Maps'
  BY <1>3, NothingChanged
<1>4. ASSUME NEW n \in InodeNrs \ {0}, NEW s \in Slots, Gets(n, s), inode_table' = Got(n, s), UNCHANGED diskVars
      PROVE  Copies' /\ Maps'
  BY <1>4, OnlyGot
<1>5. ASSUME NEW s \in Slots, inode_table[s].cnt # 0, UNCHANGED diskVars,
             inode_table' = [inode_table EXCEPT ![s].cnt = @ - 1]
      PROVE  Copies' /\ Maps'
  BY <1>5, CountedDown
<1>6. ASSUME NEW n \in InodeNrs, NEW b \in 0..NrSectors - 1, NEW s \in Slots, NEW name, Creates(n, b, s, name)
      PROVE  Copies' /\ Maps'
  <2>1. SyncsTo(n, OnDisk(NewFile(n, b))) /\ Holds(s, n, OnDisk(NewFile(n, b)))
    BY <1>6 DEF Creates
  <2>2. inodes[n].mode = "none"
    BY <1>6 DEF Creates, alloc_imap_bit, IsFirst, DiskInv, Maps
  <2>3. HasSectors(OnDisk(NewFile(n, b))) /\ OnDisk(NewFile(n, b)).start = b
    BY DEF HasSectors, OnDisk, NewFile
  <2>4. imap' = imap \cup {n} /\ smap' = smap \cup Extent(b) /\ \A x \in Extent(b) : x \notin smap
    BY <1>6 DEF Creates, alloc_smap_bit
  <2>5. Copies'
    BY <2>1, SyncedAgree
  <2>6. Maps'
    BY <2>1, <2>2, <2>3, <2>4, FileAdded
  <2> QED
    BY <2>5, <2>6
<1>7. ASSUME NEW n \in InodeNrs \ {0}, NEW s \in Slots, NEW i \in 1..RootSize, Unlinks(n, s, i)
      PROVE  Copies' /\ Maps'
  <2>1. SyncsTo(n, OnDisk(Cleared(n))) /\ Holds(s, n, OnDisk(Cleared(n)))
    BY <1>7 DEF Unlinks
  <2>2. HasSectors(inodes[n]) /\ OnDisk(Cleared(n)).mode = "none"
    BY <1>7 DEF Unlinks, OnDisk, Cleared
  <2>3. imap' = imap \ {n} /\ smap' = smap \ Extent(inodes[n].start)
    BY <1>7 DEF Unlinks
  <2>4. Copies'
    BY <2>1, SyncedAgree
  <2>5. Maps'
    BY <2>1, <2>2, <2>3, FileRemoved
  <2> QED
    BY <2>4, <2>5
<1> QED
  BY <1>1, <1>2, <1>3, <1>4, <1>5, <1>6, <1>7 DEF Requests, DiskInv

LEMMA DiskInit == FilesInit => DiskInv
<1> SUFFICES ASSUME FilesInit PROVE DiskInv
  OBVIOUS
<1>1. FilesInv
  BY InitStep
<1>2. /\ imap = 0..NR_CONSOLES + 1 /\ smap = {0} \cup Extent(1)
      /\ inodes = [n \in InodeNrs |-> CASE n = ROOT_INODE -> RootOnDisk
                                        [] n \in DOMAIN Consoles -> [NoInode EXCEPT !.mode = "char"]
                                        [] OTHER -> NoInode]
  BY DEF FilesInit, mkfs
<1>3. ROOT_INODE \notin DOMAIN Consoles /\ ROOT_INODE \in InodeNrs
  BY Constants DEF ROOT_INODE
<1>4. \A n \in InodeNrs :
         /\ n = ROOT_INODE => inodes[n] = RootOnDisk
         /\ n \in DOMAIN Consoles => inodes[n] = [NoInode EXCEPT !.mode = "char"]
         /\ n # ROOT_INODE /\ n \notin DOMAIN Consoles => inodes[n] = NoInode
  BY <1>2, <1>3
<1>5. \A n \in InodeNrs :
         /\ HasSectors(inodes[n]) <=> n = ROOT_INODE
         /\ inodes[n].mode # "none" <=> n \in 1..NR_CONSOLES + 1
  <2>1. RootOnDisk.mode = "directory" /\ NoInode.mode = "none" /\ [NoInode EXCEPT !.mode = "char"].mode = "char"
    BY DEF RootOnDisk, NoInode
  <2>2. ASSUME NEW n \in InodeNrs
        PROVE  /\ HasSectors(inodes[n]) <=> n = ROOT_INODE
               /\ inodes[n].mode # "none" <=> n = ROOT_INODE \/ n \in DOMAIN Consoles
    BY <1>3, <1>4, <2>1 DEF HasSectors
  <2>3. \A n \in InodeNrs : n = ROOT_INODE \/ n \in DOMAIN Consoles <=> n \in 1..NR_CONSOLES + 1
    BY Constants DEF ROOT_INODE
  <2> QED
    BY <2>2, <2>3
<1>6. inodes[ROOT_INODE].start = 1 /\ 0 \notin Extent(1)
  BY <1>3, <1>4, FilesAssumption DEF RootOnDisk, Extent
<1>7. \A n \in InodeNrs : n \in imap <=> (n = 0 \/ inodes[n].mode # "none")
  BY <1>2, <1>5, Constants
<1>8. Maps
  BY <1>2, <1>3, <1>5, <1>6, <1>7 DEF Maps
<1>9. ASSUME NEW s \in Slots, inode_table[s].cnt > 0
      PROVE  OnDisk(inode_table[s]) = inodes[inode_table[s].num]
  <2>1. s = ROOT /\ inode_table[s] = [num |-> ROOT_INODE, cnt |-> 1, mode |-> RootOnDisk.mode,
                                      size |-> RootOnDisk.size, start |-> RootOnDisk.start]
    BY <1>9 DEF FilesInit
  <2>2. OnDisk(inode_table[s]) = RootOnDisk
    BY <2>1 DEF OnDisk, RootOnDisk
  <2> QED
    BY <1>3, <1>4, <2>1, <2>2
<1> QED
  BY <1>1, <1>8, <1>9 DEF DiskInv, Copies

LEMMA DiskInvariant == FilesSpec => []DiskInv
<1>1. FilesInit => DiskInv
  BY DiskInit
<1>2. DiskInv /\ [FilesNext]_filesVars => DiskInv'
  BY DiskStep
<1> QED
  BY <1>1, <1>2, PTL DEF FilesSpec

\* An inode is in memory once, and as it is on disk, whatever the users do.
THEOREM CopiesAlwaysAgree == FilesSpec => []CopiesAgree
<1>1. DiskInv => CopiesAgree
  BY DiskInvSuffices
<1> QED
  BY <1>1, DiskInvariant, PTL

\* The maps say what the inodes say, and no two files share a sector, for a
\* disk of any size and whatever the users create and remove.
THEOREM MapsAlwaysAgree == FilesSpec => []MapsAgree
<1>1. DiskInv => MapsAgree
  BY DiskInvSuffices
<1> QED
  BY <1>1, DiskInvariant, PTL

-----------------------------------------------------------------------------
(* Inode numbers and sectors.                                              *)

\* As many files fit in the sectors; no inode number is above MaxNumber.
MostFiles == (NrSectors - 1) \div NR_DEFAULT_FILE_SECTS
MaxNumber == IF NrInodes - 1 < MostFiles + NR_CONSOLES THEN NrInodes - 1 ELSE MostFiles + NR_CONSOLES

\* Sectors are of the partition, only the consoles are devices, numbers are
\* given out from the smallest, and there have been enough of them.
Placed ==
    /\ smap \subseteq 0..NrSectors - 1
    /\ \A n \in InodeNrs \ DOMAIN Consoles : inodes[n].mode # "char"
    /\ \A n \in imap : n <= MaxNumber
    /\ NumbersSuffice

PlaceInv == DiskInv /\ Placed

LEMMA DivRounds ==
    ASSUME NEW a \in Nat, NEW d \in Nat \ {0}
    PROVE  a \div d \in Nat /\ d * (a \div d) <= a /\ a < d * ((a \div d) + 1)
OBVIOUS

LEMMA TimesMonotonic ==
    ASSUME NEW p \in Nat, NEW q \in Nat, NEW d \in Nat, p <= q
    PROVE  d * p <= d * q
OBVIOUS

\* Numbers that are d apart have different quotients.
LEMMA Apart ==
    ASSUME NEW a \in Nat, NEW c \in Nat, NEW d \in Nat \ {0}, a + d <= c
    PROVE  a \div d < c \div d
<1>1. PICK p \in Nat : p = c \div d /\ c < d * (p + 1)
  BY DivRounds
<1>2. PICK q \in Nat : q = a \div d /\ d * q <= a
  BY DivRounds
<1>3. ASSUME p <= q PROVE FALSE
  <2>1. d * (p + 1) <= d * (q + 1)
    BY <1>3, TimesMonotonic
  <2>2. d * (q + 1) = d * q + d
    OBVIOUS
  <2> QED
    BY <1>1, <1>2, <2>1, <2>2
<1> QED
  BY <1>1, <1>2, <1>3

LEMMA Counts ==
    /\ NR_DEFAULT_FILE_SECTS \in Nat \ {0} /\ EntriesPerSector \in Nat \ {0}
    /\ NrSectors \in Nat /\ NrInodes \in Nat /\ NR_CONSOLES \in Nat
    /\ MostFiles \in Nat \ {0} /\ NR_CONSOLES + 2 <= NrInodes /\ NR_DEFAULT_FILE_SECTS < NrSectors
    /\ NR_CONSOLES + 1 <= EntriesPerSector
<1>1. /\ NR_DEFAULT_FILE_SECTS \in Nat \ {0} /\ EntriesPerSector \in Nat \ {0}
      /\ NrSectors \in Nat /\ NrInodes \in Nat /\ NR_CONSOLES \in Nat
      /\ NR_CONSOLES + 2 <= NrInodes /\ NR_DEFAULT_FILE_SECTS < NrSectors
      /\ NR_CONSOLES + 1 <= EntriesPerSector
  BY FilesAssumption, Constants
<1>2. 0 \div NR_DEFAULT_FILE_SECTS < MostFiles
  BY <1>1, Apart DEF MostFiles
<1>3. MostFiles \in Nat /\ 0 \div NR_DEFAULT_FILE_SECTS \in Nat
  BY <1>1, DivRounds DEF MostFiles
<1> QED
  BY <1>1, <1>2, <1>3

\* Where a file lies.
LEMMA Extents ==
    ASSUME PlaceInv, NEW n \in InodeNrs, HasSectors(inodes[n])
    PROVE  /\ inodes[n].start \in 1..NrSectors - 1 /\ Extent(inodes[n].start) \subseteq smap
           /\ inodes[n].start + NR_DEFAULT_FILE_SECTS <= NrSectors
<1>1. inodes[n].start \in Nat
  BY DEF PlaceInv, DiskInv, FilesInv, Shapes, InodeOnDisk
<1>2. /\ inodes[n].start \in Extent(inodes[n].start)
      /\ inodes[n].start + NR_DEFAULT_FILE_SECTS - 1 \in Extent(inodes[n].start)
  BY <1>1, Counts DEF Extent
<1>3. Extent(inodes[n].start) \subseteq smap /\ 0 \notin Extent(inodes[n].start)
  BY DEF PlaceInv, DiskInv, Maps
<1>4. smap \subseteq 0..NrSectors - 1
  BY DEF PlaceInv, Placed
<1> QED
  BY <1>1, <1>2, <1>3, <1>4, Counts

\* If all numbers below n are in use and there is still room for a file at b,
\* the files and the new one, by the sectors that they take, are n - NR_CONSOLES
\* different ones of the MostFiles that fit.
LEMMA Room ==
    ASSUME PlaceInv, NEW n \in Nat, NEW b \in 0..NrSectors - 1, alloc_smap_bit(b),
           0..n - 1 \subseteq imap, NR_CONSOLES + 1 < n, n <= NrInodes
    PROVE  n <= MostFiles + NR_CONSOLES
<1> DEFINE files == 0..n - NR_CONSOLES - 1
           file(i) == IF i = 1 THEN 1 ELSE i + NR_CONSOLES
           start(i) == IF i = 0 THEN b ELSE inodes[file(i)].start
           f == [i \in files |-> (start(i) - 1) \div NR_DEFAULT_FILE_SECTS]
<1>1. \A i \in files \ {0} :
         /\ file(i) \in InodeNrs \ DOMAIN Consoles /\ file(i) # 0 /\ file(i) \in imap
         /\ \A j \in files \ {0} : i # j => file(i) # file(j)
  BY Counts, Constants DEF InodeNrs
<1>2. \A i \in files \ {0} : HasSectors(inodes[file(i)])
  <2>1. SUFFICES ASSUME NEW i \in files \ {0}
                 PROVE  HasSectors(inodes[file(i)])
    OBVIOUS
  <2> HIDE DEF file
  <2>2. inodes[file(i)].mode \in Mode /\ inodes[file(i)].mode # "none" /\ inodes[file(i)].mode # "char"
    BY <1>1 DEF PlaceInv, Placed, DiskInv, FilesInv, Shapes, InodeOnDisk, Maps
  <2> QED
    BY <2>2 DEF HasSectors, Mode
<1>3. /\ b \in 1..NrSectors - 1 /\ b + NR_DEFAULT_FILE_SECTS <= NrSectors
      /\ \A x \in Extent(b) : x \notin smap
  <2>1. b \in Extent(b) /\ b + NR_DEFAULT_FILE_SECTS - 1 \in Extent(b)
    BY Counts DEF Extent
  <2>2. Extent(b) \subseteq (0..NrSectors - 1) \ smap
    BY DEF alloc_smap_bit
  <2>3. 0 \in smap
    BY DEF PlaceInv, DiskInv, Maps
  <2> QED
    BY <2>1, <2>2, <2>3, Counts
<1>4. \A i \in files : start(i) \in 1..NrSectors - 1 /\ start(i) + NR_DEFAULT_FILE_SECTS <= NrSectors
  <2> HIDE DEF file
  <2> QED
    BY <1>1, <1>2, <1>3, Extents
<1>5. \A i, j \in files : i # j => \A x : ~ (x \in Extent(start(i)) /\ x \in Extent(start(j)))
  <2> SUFFICES ASSUME NEW i \in files, NEW j \in files, i # j, NEW x, x \in Extent(start(i)), x \in Extent(start(j))
               PROVE  FALSE
    OBVIOUS
  <2> HIDE DEF file, files
  <2>1. CASE i = 0
    BY <1>1, <1>2, <1>3, <2>1, Extents
  <2>2. CASE j = 0
    BY <1>1, <1>2, <1>3, <2>2, Extents
  <2>3. CASE i # 0 /\ j # 0
    BY <1>1, <1>2, <2>3 DEF PlaceInv, DiskInv, Maps
  <2> QED
    BY <2>1, <2>2, <2>3
<1>6. \A i, j \in files : i # j => start(i) + NR_DEFAULT_FILE_SECTS <= start(j) \/ start(j) + NR_DEFAULT_FILE_SECTS <= start(i)
  <2> HIDE DEF start, files
  <2> SUFFICES ASSUME NEW i \in files, NEW j \in files, i # j
               PROVE  start(i) + NR_DEFAULT_FILE_SECTS <= start(j) \/ start(j) + NR_DEFAULT_FILE_SECTS <= start(i)
    OBVIOUS
  <2>1. ~ (start(i) \in Extent(start(i)) /\ start(i) \in Extent(start(j)))
    BY <1>5
  <2>2. ~ (start(j) \in Extent(start(i)) /\ start(j) \in Extent(start(j)))
    BY <1>5
  <2>3. start(i) \in Nat /\ start(j) \in Nat
    BY <1>4, Counts
  <2> QED
    BY <2>1, <2>2, <2>3, Counts DEF Extent
<1>7. \A i \in files : f[i] \in 0..MostFiles - 1
  <2> SUFFICES ASSUME NEW i \in files
               PROVE  (start(i) - 1) \div NR_DEFAULT_FILE_SECTS \in 0..MostFiles - 1
    OBVIOUS
  <2>1. PICK a : a = start(i) - 1
    OBVIOUS
  <2>2. a \in Nat /\ a + NR_DEFAULT_FILE_SECTS <= NrSectors - 1 /\ NrSectors - 1 \in Nat
    <3> HIDE DEF start, files
    <3> QED
      BY <1>4, <2>1, Counts
  <2>3. a \div NR_DEFAULT_FILE_SECTS \in Nat /\ a \div NR_DEFAULT_FILE_SECTS < MostFiles
    BY <2>2, Apart, DivRounds, Counts DEF MostFiles
  <2>4. a \div NR_DEFAULT_FILE_SECTS \in 0..MostFiles - 1
    BY <2>3, Counts
  <2> QED
    BY <2>1, <2>4
<1>8. \A i, j \in files : i # j => f[i] # f[j]
  <2> HIDE DEF start, files
  <2> SUFFICES ASSUME NEW i \in files, NEW j \in files, i # j,
                      NEW a, a = start(i) - 1, NEW c, c = start(j) - 1
               PROVE  a \div NR_DEFAULT_FILE_SECTS # c \div NR_DEFAULT_FILE_SECTS
    OBVIOUS
  <2>1. a \in Nat /\ c \in Nat
    BY <1>4, Counts
  <2>2. a + NR_DEFAULT_FILE_SECTS <= c \/ c + NR_DEFAULT_FILE_SECTS <= a
    BY <1>4, <1>6, Counts
  <2>3. a \div NR_DEFAULT_FILE_SECTS \in Nat /\ c \div NR_DEFAULT_FILE_SECTS \in Nat
    BY <2>1, DivRounds, Counts
  <2>4. a \div NR_DEFAULT_FILE_SECTS < c \div NR_DEFAULT_FILE_SECTS
        \/ c \div NR_DEFAULT_FILE_SECTS < a \div NR_DEFAULT_FILE_SECTS
    BY <2>1, <2>2, Apart, Counts
  <2> QED
    BY <2>3, <2>4
<1>9. /\ IsFiniteSet(files) /\ Cardinality(files) = n - NR_CONSOLES
      /\ IsFiniteSet(0..MostFiles - 1) /\ Cardinality(0..MostFiles - 1) = MostFiles
  <2>1. 0 \in Int /\ n - NR_CONSOLES - 1 \in Int /\ MostFiles - 1 \in Int /\ 0 <= n - NR_CONSOLES - 1 /\ 0 <= MostFiles - 1
    BY Counts
  <2>2. n - NR_CONSOLES - 1 - 0 + 1 = n - NR_CONSOLES /\ MostFiles - 1 - 0 + 1 = MostFiles
    BY Counts
  <2> QED
    BY <2>1, <2>2, FS_Interval
<1>10. f \in [files -> 0..MostFiles - 1]
  BY <1>7
<1>11. ~ (Cardinality(0..MostFiles - 1) < Cardinality(files))
  <2> HIDE DEF f, files
  <2> QED
    BY <1>8, <1>9, <1>10, FS_PigeonHole
<1> QED
  BY <1>9, <1>11, Counts

LEMMA PlaceInit == FilesInit => PlaceInv
<1> SUFFICES ASSUME FilesInit PROVE PlaceInv
  OBVIOUS
<1>1. DiskInv
  BY DiskInit
<1>2. /\ imap = 0..NR_CONSOLES + 1 /\ smap = {0} \cup Extent(1)
      /\ inodes = [n \in InodeNrs |-> CASE n = ROOT_INODE -> RootOnDisk
                                        [] n \in DOMAIN Consoles -> [NoInode EXCEPT !.mode = "char"]
                                        [] OTHER -> NoInode]
  BY DEF FilesInit, mkfs
<1>3. smap \subseteq 0..NrSectors - 1
  BY <1>2, Counts DEF Extent
<1>4. ASSUME NEW n \in InodeNrs \ DOMAIN Consoles
      PROVE  inodes[n].mode # "char"
  BY <1>2 DEF RootOnDisk, NoInode
<1>5. \A n \in imap : n <= MaxNumber
  BY <1>2, Counts DEF MaxNumber
<1>6. NumbersSuffice
  BY DEF FilesInit, NumbersSuffice
<1> QED
  BY <1>1, <1>3, <1>4, <1>5, <1>6 DEF PlaceInv, Placed

LEMMA PlaceStep ==
    ASSUME PlaceInv, [FilesNext]_filesVars
    PROVE  PlaceInv'
<1>1. DiskInv'
  BY DiskStep DEF PlaceInv
<1>2. Requests
  BY StepsAreRequests DEF PlaceInv
<1>3. ASSUME UNCHANGED diskVars, fs' = "wild" => fs = "wild"
      PROVE  Placed'
  BY <1>3 DEF PlaceInv, Placed, NumbersSuffice, diskVars, MaxNumber, MostFiles
<1>4. ASSUME UNCHANGED <<tables, diskVars>>, fs' = "wild", imap = InodeNrs,
             NEW b \in 0..NrSectors - 1, alloc_smap_bit(b)
      PROVE  Placed'
  <2>1. 0..NrInodes - 1 \subseteq imap /\ NrInodes \in Nat /\ NR_CONSOLES + 1 < NrInodes /\ NrInodes <= NrInodes
    BY <1>4, Counts DEF InodeNrs
  <2>2. NrInodes <= MostFiles + NR_CONSOLES
    BY <1>4, <2>1, Room
  <2>3. NumbersSuffice'
    BY <2>2, Counts DEF NumbersSuffice, MostFiles
  <2> QED
    BY <1>4, <2>3 DEF PlaceInv, Placed, diskVars, MaxNumber, MostFiles
<1>5. ASSUME NEW n \in InodeNrs, NEW b \in 0..NrSectors - 1, NEW s \in Slots, NEW name, Creates(n, b, s, name)
      PROVE  Placed'
  <2>1. smap' \subseteq 0..NrSectors - 1
    BY <1>5 DEF Creates, alloc_smap_bit, PlaceInv, Placed
  <2>2. \A k \in InodeNrs \ DOMAIN Consoles : inodes'[k].mode # "char"
    BY <1>5 DEF Creates, SyncsTo, OnDisk, NewFile, PlaceInv, Placed
  <2>3. n \in Nat /\ n <= NrInodes - 1 /\ 0..n - 1 \subseteq imap /\ n \notin imap
    BY <1>5, Counts DEF Creates, alloc_imap_bit, IsFirst, InodeNrs
  <2>4. 0..NR_CONSOLES + 1 \subseteq imap
    BY DEF PlaceInv, DiskInv, FilesInv, KeptOnDisk
  <2>5. NR_CONSOLES + 1 < n
    BY <2>3, <2>4, Counts
  <2>6. n <= NrInodes /\ alloc_smap_bit(b)
    BY <1>5, <2>3, Counts DEF Creates
  <2>7. n <= MostFiles + NR_CONSOLES
    BY <2>3, <2>5, <2>6, Room
  <2>8. n <= MaxNumber
    BY <2>3, <2>7 DEF MaxNumber
  <2>9. \A k \in imap' : k <= MaxNumber
    BY <1>5, <2>8 DEF Creates, PlaceInv, Placed
  <2>10. NumbersSuffice'
    BY <1>5 DEF Creates, PlaceInv, Placed, NumbersSuffice
  <2> QED
    BY <2>1, <2>2, <2>9, <2>10 DEF Placed, MaxNumber, MostFiles
<1>6. ASSUME NEW n \in InodeNrs \ {0}, NEW s \in Slots, NEW i \in 1..RootSize, Unlinks(n, s, i)
      PROVE  Placed'
  <2>1. smap' \subseteq 0..NrSectors - 1 /\ \A k \in imap' : k <= MaxNumber
    BY <1>6 DEF Unlinks, PlaceInv, Placed
  <2>2. \A k \in InodeNrs \ DOMAIN Consoles : inodes'[k].mode # "char"
    BY <1>6 DEF Unlinks, SyncsTo, OnDisk, Cleared, PlaceInv, Placed
  <2>3. NumbersSuffice'
    BY <1>6 DEF Unlinks, PlaceInv, Placed, NumbersSuffice
  <2> QED
    BY <2>1, <2>2, <2>3 DEF Placed, MaxNumber, MostFiles
<1>7. Placed'
  BY <1>2, <1>3, <1>4, <1>5, <1>6 DEF Requests
<1> QED
  BY <1>1, <1>7 DEF PlaceInv

LEMMA PlaceInvariant == FilesSpec => []PlaceInv
<1>1. FilesInit => PlaceInv
  BY PlaceInit
<1>2. PlaceInv /\ [FilesNext]_filesVars => PlaceInv'
  BY PlaceStep
<1> QED
  BY <1>1, <1>2, PTL DEF FilesSpec

\* If there are as many inode numbers as files fit, a file that is created
\* always gets one: new_inode never writes through a null pointer.
THEOREM NumbersAlwaysSuffice == FilesSpec => []NumbersSuffice
<1>1. PlaceInv => NumbersSuffice
  BY DEF PlaceInv, Placed
<1> QED
  BY <1>1, PlaceInvariant, PTL

-----------------------------------------------------------------------------
(* The root directory, if a number of an inode fits in a byte: a long name  *)
(* clears the low byte of the number in the next entry, and the entry with  *)
(* it.                                                                      *)

NumbersAreBytes == MaxNumber <= 255

\* The entries in the first sector that name an inode name different ones, in
\* use.  Nobody removes the root's own entry, the first.
DirInv ==
    /\ dir \in [Entries -> [name : FilesNames, inode : InodeNrs]]
    /\ dir[1].inode = ROOT_INODE /\ RootSize >= 1
    /\ \A i \in 1..EntriesPerSector : dir[i].inode # INVALID_INODE =>
          /\ dir[i].inode \in imap
          /\ \A j \in 1..EntriesPerSector : dir[j].inode = dir[i].inode => i = j

EntriesInv == PlaceInv /\ DirInv

LEMMA FirstSector ==
    /\ 1..EntriesPerSector \subseteq Entries /\ 1 \in 1..EntriesPerSector
    /\ Entries \subseteq Nat \ {0} /\ EntriesPerSector \in Entries
<1>1. EntriesPerSector <= NR_DEFAULT_FILE_SECTS * EntriesPerSector
      /\ NR_DEFAULT_FILE_SECTS * EntriesPerSector \in Nat
  <2>1. EntriesPerSector * 1 <= EntriesPerSector * NR_DEFAULT_FILE_SECTS
    BY Counts, TimesMonotonic
  <2> QED
    BY <2>1, Counts
<1> QED
  BY <1>1, Counts DEF Entries

LEMMA LastSectorFull ==
    ASSUME NEW a \in Nat \ {0}, NEW d \in Nat \ {0}, a % d = 0
    PROVE  d <= a
OBVIOUS

LEMMA LowByte ==
    ASSUME NEW x \in Nat
    PROVE  x - (x % 256) \in 0..x /\ (x <= 255 => x - (x % 256) = 0)
OBVIOUS

\* What writing the entry of a new file does to the first sector.
LEMMA EntryWritten ==
    ASSUME NumbersAreBytes, EntriesInv, NEW n \in InodeNrs \ imap, n # 0, NEW name \in Paths, new_dir_entry(n, name)
    PROVE  /\ dir' \in [Entries -> [name : FilesNames, inode : InodeNrs]]
           /\ dir'[1] = dir[1]
           /\ \/ \A j \in 1..EntriesPerSector : dir'[j] = dir[j]
              \/ \E i \in 1..EntriesPerSector :
                    /\ dir'[i].inode = n
                    /\ \A j \in (1..EntriesPerSector) \ {i} :
                          dir'[j].inode = dir[j].inode \/ dir'[j].inode = INVALID_INODE
<1>1. /\ dir \in [Entries -> [name : FilesNames, inode : InodeNrs]]
      /\ dir[1].inode = ROOT_INODE /\ RootSize >= 1 /\ RootSize \in Nat
      /\ InodeNrs = 0..NrInodes - 1 /\ NrInodes \in Nat
      /\ \A j \in 1..EntriesPerSector : dir[j].inode # 0 => dir[j].inode <= 255
  <2>1. RootSize \in Nat
    BY Constants DEF EntriesInv, PlaceInv, DiskInv, FilesInv, Shapes, InMemory, RootSize
  <2>2. \A j \in 1..EntriesPerSector : dir[j].inode # 0 => dir[j].inode <= MaxNumber
    BY DEF EntriesInv, PlaceInv, Placed, DirInv, INVALID_INODE
  <2>3. MaxNumber \in Int
    BY Counts DEF MaxNumber
  <2>4. \A j \in 1..EntriesPerSector : dir[j].inode \in Int
    <3>1. \A j \in 1..EntriesPerSector : dir[j] \in [name : FilesNames, inode : InodeNrs]
      BY FirstSector DEF EntriesInv, DirInv
    <3>2. InodeNrs \subseteq Int
      BY DEF InodeNrs
    <3> QED
      BY <3>1, <3>2
  <2>5. \A j \in 1..EntriesPerSector : dir[j].inode # 0 => dir[j].inode <= 255
    BY <2>2, <2>3, <2>4 DEF NumbersAreBytes
  <2> QED
    BY <2>1, <2>5, Counts DEF EntriesInv, DirInv, InodeNrs
<1>2. ASSUME NEW i \in Nat, i > 1, dir' = Filled(i, n, name)
      PROVE  /\ dir' \in [Entries -> [name : FilesNames, inode : InodeNrs]]
             /\ dir'[1] = dir[1]
             /\ \/ \A j \in 1..EntriesPerSector : dir'[j] = dir[j]
                \/ \E k \in 1..EntriesPerSector :
                      /\ dir'[k].inode = n
                      /\ \A j \in (1..EntriesPerSector) \ {k} :
                            dir'[j].inode = dir[j].inode \/ dir'[j].inode = INVALID_INODE
  <2>1. /\ \A j \in Entries :
             \/ j = i /\ dir'[j] = [name |-> name, inode |-> n]
             \/ j # i /\ dir'[j] = dir[j]
             \/ /\ j = i + 1
                /\ dir'[j] = [dir[j] EXCEPT !.inode = dir[j].inode - (dir[j].inode % 256)]
        /\ dir' = [j \in Entries |-> dir'[j]]
    BY <1>2, FirstSector DEF Filled
  <2>2. ASSUME NEW j \in Entries, dir'[j] = [dir[j] EXCEPT !.inode = dir[j].inode - (dir[j].inode % 256)]
        PROVE  /\ dir'[j] \in [name : FilesNames, inode : InodeNrs]
               /\ j \in 1..EntriesPerSector => dir'[j].inode = 0
    <3>1. PICK x : x = dir[j].inode
      OBVIOUS
    <3>2. x \in 0..NrInodes - 1 /\ x \in Nat /\ dir[j] \in [name : FilesNames, inode : InodeNrs]
      BY <1>1, <3>1
    <3>3. PICK y : y = x - (x % 256)
      OBVIOUS
    <3>4. y \in 0..x /\ (x <= 255 => y = 0)
      BY <3>2, <3>3, LowByte
    <3>5. dir'[j] = [dir[j] EXCEPT !.inode = y]
      BY <2>2, <3>1, <3>3
    <3>6. y \in InodeNrs
      BY <1>1, <3>2, <3>4
    <3>7. j \in 1..EntriesPerSector => x <= 255
      BY <1>1, <3>1
    <3> QED
      BY <3>2, <3>4, <3>5, <3>6, <3>7
  <2>3. name \in FilesNames
    BY FilesAssumption
  <2>4. \A j \in Entries : dir'[j] \in [name : FilesNames, inode : InodeNrs]
    BY <1>1, <2>1, <2>2, <2>3
  <2>5. dir' \in [Entries -> [name : FilesNames, inode : InodeNrs]]
    BY <2>1, <2>4
  <2>6. dir'[1] = dir[1]
    <3>1. 1 \in Entries /\ 1 # i /\ 1 # i + 1
      BY <1>2, FirstSector
    <3> QED
      BY <2>1, <3>1
  <2>7. \A j \in (1..EntriesPerSector) \ {i} : dir'[j].inode = dir[j].inode \/ dir'[j].inode = INVALID_INODE
    BY <2>1, <2>2, FirstSector DEF INVALID_INODE
  <2>8. CASE i \in 1..EntriesPerSector
    <3>1. dir'[i].inode = n
      BY <1>2, <2>8, FirstSector DEF Filled
    <3> QED
      BY <2>5, <2>6, <2>7, <2>8, <3>1
  <2>9. CASE i \notin 1..EntriesPerSector
    <3>1. \A j \in 1..EntriesPerSector : j # i /\ j # i + 1
      BY <1>2, <2>9, Counts
    <3>2. \A j \in 1..EntriesPerSector : dir'[j] = dir[j]
      BY <2>1, <3>1, FirstSector
    <3> QED
      BY <2>5, <2>6, <3>2
  <2> QED
    BY <2>8, <2>9
<1>3. ASSUME NEW i \in Holes
      PROVE  i \in Nat /\ i > 1
  BY <1>1 DEF Holes, INVALID_INODE, ROOT_INODE
<1>4. ASSUME RootSize % EntriesPerSector = 0, dir' = Overrun
      PROVE  /\ dir' \in [Entries -> [name : FilesNames, inode : InodeNrs]]
             /\ \A j \in 1..EntriesPerSector : dir'[j] = dir[j]
  <2>1. EntriesPerSector <= RootSize
    <3>1. RootSize \in Nat \ {0} /\ EntriesPerSector \in Nat \ {0}
      BY <1>1, Counts
    <3> QED
      BY ONLY <1>4, <3>1, LastSectorFull
  <2>2. \A j \in Entries : j - RootSize \in 1..EntriesPerSector => j > EntriesPerSector /\ j - EntriesPerSector \in Entries
    BY <1>1, <2>1, Counts, FirstSector DEF Entries
  <2>3. \A j \in Entries : dir'[j] = IF j - RootSize \in 1..EntriesPerSector THEN dir[j - EntriesPerSector] ELSE dir[j]
    BY <1>4 DEF Overrun
  <2>4. dir' \in [Entries -> [name : FilesNames, inode : InodeNrs]]
    BY <1>1, <1>4, <2>2 DEF Overrun
  <2>5. ASSUME NEW j \in 1..EntriesPerSector
        PROVE  dir'[j] = dir[j]
    <3>1. ~ (j > EntriesPerSector) /\ j \in Entries
      BY FirstSector, Counts
    <3> QED
      BY <2>2, <2>3, <3>1
  <2> QED
    BY <2>4, <2>5
<1>5. RootSize + 1 \in Nat /\ RootSize + 1 > 1
  BY <1>1
<1> QED
  BY <1>2, <1>3, <1>4, <1>5, FirstSector DEF new_dir_entry

LEMMA EntriesCreate ==
    ASSUME NumbersAreBytes, EntriesInv, NEW n \in InodeNrs, NEW b \in 0..NrSectors - 1, NEW s \in Slots,
           NEW name \in Paths, Creates(n, b, s, name)
    PROVE  DirInv'
<1>1. n \in InodeNrs \ imap /\ n # 0 /\ new_dir_entry(n, name) /\ imap' = imap \cup {n}
  BY DEF Creates, alloc_imap_bit, IsFirst, SyncsTo
<1>2. /\ dir' \in [Entries -> [name : FilesNames, inode : InodeNrs]]
      /\ dir'[1] = dir[1]
      /\ \/ \A j \in 1..EntriesPerSector : dir'[j] = dir[j]
         \/ \E i \in 1..EntriesPerSector :
               /\ dir'[i].inode = n
               /\ \A j \in (1..EntriesPerSector) \ {i} :
                     dir'[j].inode = dir[j].inode \/ dir'[j].inode = INVALID_INODE
  BY <1>1, EntryWritten
<1>3. inode_table'[ROOT] = [inode_table[ROOT] EXCEPT !.size = NewRootSize] /\ inode_table[ROOT] \in InMemory
  BY Constants DEF Creates, Puts, EntriesInv, PlaceInv, DiskInv, FilesInv, Shapes
<1>4. RootSize \in Nat /\ RootSize >= 1
  BY <1>3 DEF InMemory, RootSize, EntriesInv, DirInv
<1>5. inode_table'[ROOT].size >= 1
  BY <1>3, <1>4 DEF InMemory, NewRootSize
<1>6. \A i \in 1..EntriesPerSector : dir'[i].inode # INVALID_INODE =>
          /\ dir'[i].inode \in imap'
          /\ \A j \in 1..EntriesPerSector : dir'[j].inode = dir'[i].inode => i = j
  <2>1. CASE \A j \in 1..EntriesPerSector : dir'[j] = dir[j]
    BY <1>1, <2>1 DEF EntriesInv, DirInv
  <2>2. ASSUME NEW i \in 1..EntriesPerSector, dir'[i].inode = n,
               \A j \in (1..EntriesPerSector) \ {i} : dir'[j].inode = dir[j].inode \/ dir'[j].inode = INVALID_INODE
        PROVE  \A k \in 1..EntriesPerSector : dir'[k].inode # INVALID_INODE =>
                  /\ dir'[k].inode \in imap'
                  /\ \A j \in 1..EntriesPerSector : dir'[j].inode = dir'[k].inode => k = j
    <3>1. \A k \in (1..EntriesPerSector) \ {i} : dir'[k].inode # INVALID_INODE =>
             dir'[k].inode = dir[k].inode /\ dir[k].inode \in imap
      BY <2>2 DEF EntriesInv, DirInv
    <3>2. \A k \in (1..EntriesPerSector) \ {i} : dir'[k].inode # INVALID_INODE => dir'[k].inode # n
      BY <1>1, <3>1
    <3>3. \A k, j \in 1..EntriesPerSector : dir[k].inode # INVALID_INODE /\ dir[j].inode = dir[k].inode => k = j
      BY DEF EntriesInv, DirInv
    <3>4. ASSUME NEW k \in 1..EntriesPerSector, dir'[k].inode # INVALID_INODE,
                 NEW j \in 1..EntriesPerSector, dir'[j].inode = dir'[k].inode
          PROVE  k = j
      <4>1. CASE k = i \/ j = i
        BY <2>2, <3>2, <3>4, <4>1
      <4>2. CASE k # i /\ j # i
        BY <3>1, <3>3, <3>4, <4>2
      <4> QED
        BY <4>1, <4>2
    <3>5. \A k \in 1..EntriesPerSector : dir'[k].inode # INVALID_INODE => dir'[k].inode \in imap'
      BY <1>1, <2>2, <3>1
    <3> QED
      BY <3>4, <3>5
  <2> QED
    BY <1>2, <2>1, <2>2
<1> QED
  BY <1>2, <1>5, <1>6 DEF EntriesInv, DirInv, RootSize

LEMMA EntriesUnlink ==
    ASSUME EntriesInv, NEW n \in InodeNrs \ {0}, NEW s \in Slots, NEW i \in 1..RootSize, Unlinks(n, s, i)
    PROVE  DirInv'
<1>1. /\ n # ROOT_INODE /\ imap' = imap \ {n} /\ dir' = [dir EXCEPT ![i] = NoEntry]
      /\ dir[i].inode = n /\ \A j \in 1..RootSize : dir[j].inode = n => i <= j
  BY DEF Unlinks, SyncsTo, ClearEntry, IsFirst
<1>2. /\ dir \in [Entries -> [name : FilesNames, inode : InodeNrs]]
      /\ dir[1].inode = ROOT_INODE /\ i # 1
  BY <1>1 DEF EntriesInv, DirInv
<1>3. NoEntry \in [name : FilesNames, inode : InodeNrs] /\ NoEntry.inode = INVALID_INODE
  BY Constants DEF NoEntry, FilesNames, INVALID_INODE
<1>4. /\ dir' \in [Entries -> [name : FilesNames, inode : InodeNrs]]
      /\ \A j \in Entries : dir'[j] = IF j = i THEN NoEntry ELSE dir[j]
  BY <1>1, <1>2, <1>3
<1>5. dir'[1].inode = ROOT_INODE
  BY <1>2, <1>4, FirstSector
<1>6. inode_table'[ROOT] = [inode_table[ROOT] EXCEPT !.size = ShrunkSize(i)] /\ inode_table[ROOT] \in InMemory
  BY Constants DEF Unlinks, Puts, EntriesInv, PlaceInv, DiskInv, FilesInv, Shapes
<1>7. RootSize \in Nat /\ RootSize >= 1
  BY <1>6 DEF InMemory, RootSize, EntriesInv, DirInv
<1>8. ShrunkSize(i) >= 1
  <2>1. PICK live : live = {j \in 1..i - 1 : dir[j].inode # INVALID_INODE}
    OBVIOUS
  <2>2. 1 \in live
    BY <1>2, <1>7, <2>1 DEF INVALID_INODE, ROOT_INODE
  <2>3. IsFiniteSet(1..i - 1) /\ live \in SUBSET (1..i - 1)
    BY <1>7, <2>1, FS_Interval
  <2>4. IsFiniteSet(live)
    BY <2>3, FS_Subset
  <2>5. Cardinality(live) \in Nat /\ Cardinality(live) # 0
    BY <2>2, <2>4, FS_CardinalityType, FS_EmptySet
  <2> QED
    BY <1>7, <2>1, <2>5 DEF ShrunkSize
<1>9. inode_table'[ROOT].size >= 1
  BY <1>6, <1>8 DEF InMemory
<1>10. ASSUME NEW j \in 1..EntriesPerSector, j # i, dir[j].inode = n
       PROVE  FALSE
  <2>1. i \in 1..EntriesPerSector
    BY <1>1, <1>7, <1>10, Counts
  <2> QED
    BY <1>1, <1>10, <2>1 DEF EntriesInv, DirInv, INVALID_INODE
<1>11. \A j \in 1..EntriesPerSector : dir'[j].inode # INVALID_INODE => j # i /\ dir'[j] = dir[j]
  BY <1>3, <1>4, FirstSector
<1>12. \A j \in 1..EntriesPerSector : dir'[j].inode # INVALID_INODE =>
          /\ dir'[j].inode \in imap'
          /\ \A k \in 1..EntriesPerSector : dir'[k].inode = dir'[j].inode => j = k
  <2>1. SUFFICES ASSUME NEW j \in 1..EntriesPerSector, dir'[j].inode # INVALID_INODE
                 PROVE  /\ dir'[j].inode \in imap'
                        /\ \A k \in 1..EntriesPerSector : dir'[k].inode = dir'[j].inode => j = k
    OBVIOUS
  <2>2. dir'[j] = dir[j] /\ dir[j].inode # n /\ dir[j].inode \in imap
    BY <1>10, <1>11, <2>1 DEF EntriesInv, DirInv
  <2>3. ASSUME NEW k \in 1..EntriesPerSector, dir'[k].inode = dir'[j].inode
        PROVE  j = k
    BY <1>11, <2>1, <2>2, <2>3 DEF EntriesInv, DirInv
  <2> QED
    BY <1>1, <2>2, <2>3
<1> QED
  BY <1>4, <1>5, <1>9, <1>12 DEF EntriesInv, DirInv, RootSize

LEMMA EntriesInit == FilesInit => EntriesInv
<1> SUFFICES ASSUME FilesInit PROVE EntriesInv
  OBVIOUS
<1>1. PlaceInv
  BY PlaceInit
<1>2. /\ imap = 0..NR_CONSOLES + 1
      /\ dir = [i \in Entries |-> CASE i = 1 -> [name |-> DOT, inode |-> ROOT_INODE]
                                    [] i \in DOMAIN Consoles -> [name |-> Consoles[i], inode |-> i]
                                    [] OTHER -> NoEntry]
  BY DEF FilesInit, mkfs
<1>3. \A i \in Entries :
         /\ i = 1 => dir[i] = [name |-> DOT, inode |-> 1]
         /\ i \in 2..NR_CONSOLES + 1 => dir[i] = [name |-> Consoles[i], inode |-> i]
         /\ i # 1 /\ i \notin 2..NR_CONSOLES + 1 => dir[i] = [name |-> EMPTY, inode |-> 0]
  BY <1>2, Constants DEF ROOT_INODE, NoEntry, INVALID_INODE
<1>4. ASSUME NEW i \in Entries
      PROVE  /\ dir[i] \in [name : FilesNames, inode : InodeNrs]
             /\ dir[i].inode = IF i \in 1..NR_CONSOLES + 1 THEN i ELSE 0
  <2>1. i \in Nat \ {0} /\ NR_CONSOLES \in Nat
    BY FirstSector, Counts
  <2>2. DOT \in FilesNames /\ EMPTY \in FilesNames /\ \A c \in DOMAIN Consoles : Consoles[c] \in FilesNames
    BY DEF FilesNames
  <2>3. 0 \in InodeNrs /\ 1 \in InodeNrs /\ 2..NR_CONSOLES + 1 \subseteq InodeNrs
    BY Counts DEF InodeNrs
  <2>4. CASE i = 1
    <3>1. dir[i] = [name |-> DOT, inode |-> 1]
      BY <1>3, <2>4
    <3> QED
      BY <2>1, <2>2, <2>3, <2>4, <3>1
  <2>5. CASE i \in 2..NR_CONSOLES + 1
    <3>1. dir[i] = [name |-> Consoles[i], inode |-> i]
      BY <1>3, <2>5
    <3>2. Consoles[i] \in FilesNames /\ i \in InodeNrs
      BY <2>2, <2>3, <2>5, Constants
    <3> QED
      BY <2>1, <2>5, <3>1, <3>2
  <2>6. CASE i # 1 /\ i \notin 2..NR_CONSOLES + 1
    <3>1. dir[i] = [name |-> EMPTY, inode |-> 0]
      BY <1>3, <2>6
    <3> QED
      BY <2>1, <2>2, <2>3, <2>6, <3>1
  <2> QED
    BY <2>4, <2>5, <2>6
<1>5. dir \in [Entries -> [name : FilesNames, inode : InodeNrs]]
  BY <1>2, <1>4
<1>6. dir[1].inode = ROOT_INODE
  <2>1. 1 \in Entries /\ 1 \in 1..NR_CONSOLES + 1
    BY FirstSector, Counts
  <2> QED
    BY <1>4, <2>1 DEF ROOT_INODE
<1>7. RootSize >= 1
  BY Constants, Counts DEF FilesInit, RootSize, RootOnDisk
<1>8. \A i \in 1..EntriesPerSector : dir[i].inode # 0 =>
          /\ dir[i].inode \in imap
          /\ \A j \in 1..EntriesPerSector : dir[j].inode = dir[i].inode => i = j
  BY <1>2, <1>4, FirstSector, Counts
<1> QED
  BY <1>1, <1>5, <1>6, <1>7, <1>8 DEF EntriesInv, DirInv, INVALID_INODE

\* get_inode leaves the size of the root.
LEMMA GotRootSize ==
    ASSUME FilesInv, NEW n \in InodeNrs \ {0}, NEW s \in Slots, Gets(n, s)
    PROVE  Got(n, s)[ROOT].size = inode_table[ROOT].size
<1>1. inode_table \in [Slots -> InMemory] /\ ROOT \in Slots
  BY Constants DEF FilesInv, Shapes
<1>2. CASE Cached(n) # {}
  BY <1>1, <1>2 DEF Got, InMemory
<1>3. CASE Cached(n) = {}
  <2>1. inode_table[s].cnt = 0
    BY <1>3 DEF Gets, IsFirst, Unused
  <2>2. inode_table[ROOT].cnt > 0
    BY HeldCounted
  <2>3. s # ROOT
    BY <2>1, <2>2
  <2> QED
    BY <1>1, <1>3, <2>3 DEF Got
<1> QED
  BY <1>2, <1>3

LEMMA EntriesStep ==
    ASSUME NumbersAreBytes, EntriesInv, [FilesNext]_filesVars
    PROVE  EntriesInv'
<1>1. PlaceInv'
  BY PlaceStep DEF EntriesInv
<1>2. Requests
  BY StepsAreRequests DEF EntriesInv, PlaceInv
<1>3. ASSUME UNCHANGED diskVars, inode_table'[ROOT].size = inode_table[ROOT].size
      PROVE  DirInv'
  BY <1>3 DEF EntriesInv, DirInv, diskVars, RootSize
<1>4. inode_table \in [Slots -> InMemory] /\ ROOT \in Slots
  BY Constants DEF EntriesInv, PlaceInv, DiskInv, FilesInv, Shapes
<1>5. ASSUME UNCHANGED diskVars, NEW n \in InodeNrs \ {0}, NEW s \in Slots, Gets(n, s), inode_table' = Got(n, s)
      PROVE  DirInv'
  <2>1. Got(n, s)[ROOT].size = inode_table[ROOT].size
    BY <1>5, GotRootSize DEF EntriesInv, PlaceInv, DiskInv
  <2> QED
    BY <1>3, <1>5, <2>1
<1>6. ASSUME UNCHANGED diskVars, NEW s \in Slots, inode_table' = [inode_table EXCEPT ![s].cnt = @ - 1]
      PROVE  DirInv'
  <2>1. inode_table'[ROOT].size = inode_table[ROOT].size
    BY <1>4, <1>6 DEF InMemory
  <2> QED
    BY <1>3, <1>6, <2>1
<1>7. ASSUME UNCHANGED <<tables, diskVars>>
      PROVE  DirInv'
  BY <1>3, <1>7 DEF tables
<1>8. DirInv'
  BY <1>2, <1>5, <1>6, <1>7, EntriesCreate, EntriesUnlink DEF Requests
<1> QED
  BY <1>1, <1>8 DEF EntriesInv

\* While the directory fits in its first sector, an entry names an inode in use
\* that no other entry names, whatever create_file and do_unlink do to it.  The
\* inode numbers fit in a byte: of a larger one, the terminator that
\* new_dir_entry writes behind a long name leaves another number.
THEOREM EntriesAlwaysInUse == NumbersAreBytes => (FilesSpec => []EntriesInUse)
<1> SUFFICES ASSUME NumbersAreBytes PROVE FilesSpec => []EntriesInUse
  OBVIOUS
<1>1. FilesInit => EntriesInv
  BY EntriesInit
<1>2. EntriesInv /\ [FilesNext]_filesVars => EntriesInv'
  BY EntriesStep
<1>3. EntriesInv => EntriesInUse
  <2> SUFFICES ASSUME EntriesInv, \A i \in Entries : i > EntriesPerSector => dir[i] = NoEntry,
                      NEW i \in Entries, dir[i].inode # INVALID_INODE
               PROVE  /\ dir[i].inode \in imap
                      /\ \A j \in Entries : dir[j].inode = dir[i].inode => i = j
    BY DEF EntriesInUse
  <2>1. \A j \in Entries : dir[j].inode # INVALID_INODE => j \in 1..EntriesPerSector
    <3>1. \A j \in Entries : j > EntriesPerSector \/ j \in 1..EntriesPerSector
      BY FirstSector, Counts
    <3> QED
      BY <3>1 DEF NoEntry
  <2> QED
    BY <2>1 DEF EntriesInv, DirInv
<1> QED
  BY <1>1, <1>2, <1>3, PTL DEF FilesSpec

-----------------------------------------------------------------------------
(* The types.  An entry behind a full sector goes past the end of the buffer *)
(* (Overrun), and entries are lost, but the directory never holds more of    *)
(* them than there are inode numbers in use: it grows only when it has no    *)
(* hole, and with every number given back an entry goes.                     *)

Capacity == NR_DEFAULT_FILE_SECTS * EntriesPerSector

\* There are as many entries as inode numbers: the code has 2048 sectors of
\* 32 entries, and at most 4096 numbers.
DirectoryHolds == MaxNumber <= Capacity

\* The size and the first sector of an inode.
Fits(i) == i.size <= Capacity /\ i.start <= NrSectors

\* The entries of the directory that name an inode.
Named == {i \in 1..RootSize : dir[i].inode # INVALID_INODE}

Sized ==
    /\ fs \in {"up", "tty", "halted", "wild"}
    /\ \A s \in Slots : Fits(inode_table[s])
    /\ \A n \in InodeNrs : Fits(inodes[n])

Rooted ==
    /\ dir \in [Entries -> [name : FilesNames, inode : InodeNrs]]
    /\ dir[1].inode = ROOT_INODE /\ RootSize >= 1
    /\ Cardinality(Named) < Cardinality(imap)

SizeInv == PlaceInv /\ Rooted /\ Sized

LEMMA CapacityCounts ==
    /\ Capacity \in Nat /\ Entries = 1..Capacity /\ EntriesPerSector <= Capacity
    /\ MaxNumber \in Nat
<1>1. EntriesPerSector <= Capacity /\ Capacity \in Nat
  <2>1. EntriesPerSector * 1 <= EntriesPerSector * NR_DEFAULT_FILE_SECTS
    BY Counts, TimesMonotonic
  <2> QED
    BY <2>1, Counts DEF Capacity
<1> QED
  BY <1>1, Counts DEF Capacity, Entries, MaxNumber

\* The root's size, and the finite sets whose sizes are compared.
LEMMA Sizes ==
    ASSUME SizeInv
    PROVE  /\ inode_table \in [Slots -> InMemory] /\ ROOT \in Slots
           /\ RootSize \in Nat /\ RootSize >= 1 /\ RootSize <= Capacity /\ 1..RootSize \subseteq Entries
           /\ imap \subseteq InodeNrs /\ IsFiniteSet(imap) /\ Cardinality(imap) \in Nat
           /\ IsFiniteSet(Named) /\ Cardinality(Named) \in Nat
<1>1. /\ inode_table \in [Slots -> InMemory] /\ ROOT \in Slots /\ imap \subseteq InodeNrs
  BY Constants DEF SizeInv, PlaceInv, DiskInv, FilesInv, Shapes
<1>2. RootSize \in Nat /\ RootSize >= 1 /\ RootSize <= Capacity
  BY <1>1 DEF InMemory, RootSize, SizeInv, Rooted, Sized, Fits
<1>3. 1..RootSize \subseteq Entries
  BY <1>2, CapacityCounts
<1>4. IsFiniteSet(imap) /\ Cardinality(imap) \in Nat
  <2>1. IsFiniteSet(InodeNrs)
    BY Counts, FS_Interval DEF InodeNrs
  <2> QED
    BY <1>1, <2>1, FS_Subset, FS_CardinalityType
<1>5. IsFiniteSet(Named) /\ Cardinality(Named) \in Nat
  <2>1. IsFiniteSet(1..RootSize) /\ Named \in SUBSET (1..RootSize)
    BY <1>2, FS_Interval DEF Named
  <2> QED
    BY <2>1, FS_Subset, FS_CardinalityType
<1> QED
  BY <1>1, <1>2, <1>3, <1>4, <1>5

\* A directory without a hole that fills its sectors has taken all numbers.
LEMMA EntryLeft ==
    ASSUME DirectoryHolds, SizeInv, NEW n \in InodeNrs \ imap, n <= MaxNumber, Holes = {}
    PROVE  RootSize + 1 <= Capacity
<1>1. Named = 1..RootSize
  BY DEF Named, Holes
<1>2. Cardinality(1..RootSize) = RootSize
  <2>1. 1 \in Int /\ RootSize \in Int /\ 1 <= RootSize
    BY Sizes
  <2> QED
    BY <2>1, FS_Interval
<1>3. imap \in SUBSET ((0..MaxNumber) \ {n}) /\ n \in 0..MaxNumber
  <2>1. \A m \in imap : m \in Nat /\ m <= MaxNumber /\ m # n
    BY Sizes DEF SizeInv, PlaceInv, Placed, InodeNrs
  <2> QED
    BY <2>1, CapacityCounts DEF InodeNrs
<1>4. IsFiniteSet((0..MaxNumber) \ {n}) /\ Cardinality((0..MaxNumber) \ {n}) = MaxNumber
  <2>1. 0 \in Int /\ MaxNumber \in Int /\ ~ (0 > MaxNumber) /\ MaxNumber - 0 + 1 = MaxNumber + 1
    BY CapacityCounts
  <2>2. IsFiniteSet(0..MaxNumber) /\ Cardinality(0..MaxNumber) = MaxNumber + 1
    BY <2>1, FS_Interval
  <2>3. IsFiniteSet((0..MaxNumber) \ {n}) /\ Cardinality((0..MaxNumber) \ {n}) = Cardinality(0..MaxNumber) - 1
    BY <1>3, <2>2, FS_RemoveElement
  <2> QED
    BY <2>2, <2>3, CapacityCounts
<1>5. Cardinality(imap) <= MaxNumber
  <2>1. PICK T : T = (0..MaxNumber) \ {n}
    OBVIOUS
  <2>2. imap \in SUBSET T /\ IsFiniteSet(T) /\ Cardinality(T) = MaxNumber
    BY ONLY <1>3, <1>4, <2>1
  <2>3. Cardinality(imap) <= Cardinality(T)
    BY ONLY <2>2, FS_Subset
  <2> QED
    BY <2>2, <2>3
<1>6. RootSize < Cardinality(imap)
  BY <1>1, <1>2 DEF SizeInv, Rooted
<1> QED
  BY <1>5, <1>6, Sizes, CapacityCounts DEF DirectoryHolds

\* One more number in use pays for one more entry, one entry less for a number.
LEMMA OneMore ==
    ASSUME NEW A, IsFiniteSet(A), NEW B, IsFiniteSet(B), NEW i, NEW n, n \notin B,
           NEW A2, A2 \subseteq A \cup {i}, Cardinality(A) < Cardinality(B)
    PROVE  Cardinality(A2) < Cardinality(B \cup {n})
<1>1. /\ IsFiniteSet(A \cup {i}) /\ Cardinality(A \cup {i}) = IF i \in A THEN Cardinality(A) ELSE Cardinality(A) + 1
      /\ IsFiniteSet(B \cup {n}) /\ Cardinality(B \cup {n}) = Cardinality(B) + 1
  BY FS_AddElement
<1>2. Cardinality(A2) <= Cardinality(A \cup {i}) /\ Cardinality(A2) \in Nat
  BY <1>1, FS_Subset, FS_CardinalityType
<1>3. Cardinality(A) \in Nat /\ Cardinality(B) \in Nat
  BY FS_CardinalityType
<1> QED
  BY <1>1, <1>2, <1>3

LEMMA OneLess ==
    ASSUME NEW A, IsFiniteSet(A), NEW B, IsFiniteSet(B), NEW i \in A, NEW n \in B,
           NEW A2, A2 \subseteq A \ {i}, Cardinality(A) < Cardinality(B)
    PROVE  Cardinality(A2) < Cardinality(B \ {n})
<1>1. /\ IsFiniteSet(A \ {i}) /\ Cardinality(A \ {i}) = Cardinality(A) - 1
      /\ IsFiniteSet(B \ {n}) /\ Cardinality(B \ {n}) = Cardinality(B) - 1
  BY FS_RemoveElement
<1>2. Cardinality(A2) <= Cardinality(A \ {i}) /\ Cardinality(A2) \in Nat
  BY <1>1, FS_Subset, FS_CardinalityType
<1>3. Cardinality(A) \in Nat /\ Cardinality(B) \in Nat
  BY FS_CardinalityType
<1> QED
  BY <1>1, <1>2, <1>3

\* What writing an entry does to the directory, overrun or not: of the entries
\* it has then, one is new, and no other names an inode that did not.
LEMMA EntryPlaced ==
    ASSUME SizeInv, NEW n \in InodeNrs, NEW name \in Paths, new_dir_entry(n, name)
    PROVE  /\ dir' \in [Entries -> [name : FilesNames, inode : InodeNrs]]
           /\ dir'[1] = dir[1]
           /\ \E i \in 1..NewRootSize : \A j \in Entries :
                 j <= NewRootSize /\ j # i /\ dir'[j].inode # INVALID_INODE =>
                    j <= RootSize /\ dir[j].inode # INVALID_INODE
<1>1. /\ dir \in [Entries -> [name : FilesNames, inode : InodeNrs]]
      /\ dir[1].inode = 1 /\ RootSize >= 1 /\ RootSize \in Nat
      /\ InodeNrs = 0..NrInodes - 1 /\ NrInodes \in Nat /\ 1 \in Entries /\ Entries \subseteq Nat
  BY Sizes, Counts, FirstSector DEF SizeInv, Rooted, InodeNrs, ROOT_INODE
<1>2. ASSUME NEW i \in Nat, i > 1, dir' = Filled(i, n, name)
      PROVE  /\ dir' \in [Entries -> [name : FilesNames, inode : InodeNrs]]
             /\ dir'[1] = dir[1]
             /\ \A j \in Entries : j # i /\ dir'[j].inode # 0 => dir[j].inode # 0
  <2>1. /\ \A j \in Entries :
             \/ j = i /\ dir'[j] = [name |-> name, inode |-> n]
             \/ j # i /\ dir'[j] = dir[j]
             \/ /\ j = i + 1
                /\ dir'[j] = [dir[j] EXCEPT !.inode = dir[j].inode - (dir[j].inode % 256)]
        /\ dir' = [j \in Entries |-> dir'[j]]
    BY <1>2, FirstSector DEF Filled
  <2>2. ASSUME NEW j \in Entries, dir'[j] = [dir[j] EXCEPT !.inode = dir[j].inode - (dir[j].inode % 256)]
        PROVE  /\ dir'[j] \in [name : FilesNames, inode : InodeNrs]
               /\ dir'[j].inode # 0 => dir[j].inode # 0
    <3>1. PICK x : x = dir[j].inode
      OBVIOUS
    <3>2. x \in 0..NrInodes - 1 /\ x \in Nat /\ dir[j] \in [name : FilesNames, inode : InodeNrs]
      BY <1>1, <3>1
    <3>3. PICK y : y = x - (x % 256)
      OBVIOUS
    <3>4. y \in 0..x
      BY <3>2, <3>3, LowByte
    <3>5. dir'[j] = [dir[j] EXCEPT !.inode = y]
      BY <2>2, <3>1, <3>3
    <3>6. y \in InodeNrs
      BY <1>1, <3>2, <3>4
    <3>7. x = 0 => y = 0
      BY <3>2, <3>4
    <3> QED
      BY <3>1, <3>2, <3>5, <3>6, <3>7
  <2>3. name \in FilesNames
    BY FilesAssumption
  <2>4. \A j \in Entries : dir'[j] \in [name : FilesNames, inode : InodeNrs]
    BY <1>1, <2>1, <2>2, <2>3
  <2>5. dir' \in [Entries -> [name : FilesNames, inode : InodeNrs]]
    BY <2>1, <2>4
  <2>6. dir'[1] = dir[1]
    <3>1. 1 \in Entries /\ 1 # i /\ 1 # i + 1
      BY <1>1, <1>2
    <3> QED
      BY <2>1, <3>1
  <2> QED
    BY <2>1, <2>2, <2>5, <2>6
<1>3. CASE \E i \in Holes : dir' = Filled(i, n, name)
  <2>1. PICK i \in Holes : dir' = Filled(i, n, name)
    BY <1>3
  <2>2. i \in 1..RootSize /\ i \in Nat /\ i > 1 /\ NewRootSize = RootSize
    BY <1>1, <2>1 DEF Holes, INVALID_INODE, NewRootSize
  <2> QED
    BY <1>2, <2>1, <2>2 DEF INVALID_INODE
<1>4. CASE Holes = {} /\ dir' = Filled(RootSize + 1, n, name)
  <2>1. NewRootSize = RootSize + 1 /\ RootSize + 1 \in Nat /\ RootSize + 1 > 1
    BY <1>1, <1>4 DEF NewRootSize
  <2>2. RootSize + 1 \in 1..NewRootSize /\ \A j \in Entries : j <= NewRootSize /\ j # RootSize + 1 => j <= RootSize
    BY <1>1, <2>1
  <2> QED
    BY <1>2, <1>4, <2>1, <2>2 DEF INVALID_INODE
<1>5. CASE Holes = {} /\ RootSize % EntriesPerSector = 0 /\ dir' = Overrun
  <2>1. EntriesPerSector <= RootSize /\ EntriesPerSector \in Nat \ {0}
    <3>1. RootSize \in Nat \ {0} /\ EntriesPerSector \in Nat \ {0}
      BY <1>1, Counts
    <3> QED
      BY ONLY <1>5, <3>1, LastSectorFull
  <2>2. \A j \in Entries : j - RootSize \in 1..EntriesPerSector => j > RootSize /\ j - EntriesPerSector \in Entries
    BY <1>1, <2>1, CapacityCounts
  <2>3. \A j \in Entries : dir'[j] = IF j - RootSize \in 1..EntriesPerSector THEN dir[j - EntriesPerSector] ELSE dir[j]
    BY <1>5 DEF Overrun
  <2>4. dir' \in [Entries -> [name : FilesNames, inode : InodeNrs]]
    BY <1>1, <1>5, <2>2 DEF Overrun
  <2>5. NewRootSize = RootSize + 1
    BY <1>5 DEF NewRootSize
  <2>6. \A j \in Entries : j <= RootSize => dir'[j] = dir[j]
    BY <1>1, <2>2, <2>3
  <2>7. RootSize + 1 \in 1..NewRootSize /\ \A j \in Entries : j <= NewRootSize /\ j # RootSize + 1 => j <= RootSize
    BY <1>1, <2>5
  <2> QED
    BY <1>1, <2>4, <2>6, <2>7
<1> QED
  BY <1>3, <1>4, <1>5 DEF new_dir_entry

LEMMA RootedCreate ==
    ASSUME SizeInv, NEW n \in InodeNrs, NEW b \in 0..NrSectors - 1, NEW s \in Slots,
           NEW name \in Paths, Creates(n, b, s, name), NewRootSize <= Capacity
    PROVE  Rooted'
<1>1. n \in InodeNrs \ imap /\ new_dir_entry(n, name) /\ imap' = imap \cup {n}
  BY DEF Creates, alloc_imap_bit, IsFirst
<1>2. /\ dir' \in [Entries -> [name : FilesNames, inode : InodeNrs]]
      /\ dir'[1] = dir[1]
      /\ \E i \in 1..NewRootSize : \A j \in Entries :
            j <= NewRootSize /\ j # i /\ dir'[j].inode # INVALID_INODE =>
               j <= RootSize /\ dir[j].inode # INVALID_INODE
  BY <1>1, EntryPlaced
<1>3. PICK i \in 1..NewRootSize : \A j \in Entries :
            j <= NewRootSize /\ j # i /\ dir'[j].inode # INVALID_INODE =>
               j <= RootSize /\ dir[j].inode # INVALID_INODE
  BY <1>2
<1>4. inode_table'[ROOT] = [inode_table[ROOT] EXCEPT !.size = NewRootSize] /\ inode_table[ROOT] \in InMemory
  BY Sizes DEF Creates, Puts
<1>5. RootSize' = NewRootSize /\ NewRootSize \in Nat /\ NewRootSize >= 1
  BY <1>4, Sizes DEF InMemory, NewRootSize, RootSize
<1>6. 1..NewRootSize \subseteq Entries
  BY <1>5, CapacityCounts
<1>7. Named' \subseteq Named \cup {i}
  <2>1. ASSUME NEW j \in 1..NewRootSize, dir'[j].inode # INVALID_INODE, j # i
        PROVE  j \in Named
    BY <1>3, <1>5, <1>6, <2>1, Sizes DEF Named
  <2> QED
    BY <1>5, <2>1 DEF Named
<1>8. Cardinality(Named') < Cardinality(imap \cup {n})
  BY <1>1, <1>7, Sizes, OneMore DEF SizeInv, Rooted
<1> QED
  BY <1>1, <1>2, <1>5, <1>8 DEF SizeInv, Rooted

LEMMA RootedUnlink ==
    ASSUME SizeInv, NEW n \in InodeNrs \ {0}, NEW s \in Slots, NEW i \in 1..RootSize, Unlinks(n, s, i)
    PROVE  Rooted' /\ ShrunkSize(i) \in Nat /\ ShrunkSize(i) <= RootSize
<1>1. /\ n # ROOT_INODE /\ n \in imap /\ imap' = imap \ {n} /\ dir' = [dir EXCEPT ![i] = NoEntry]
      /\ dir[i].inode = n
  BY DEF Unlinks, SyncsTo, ClearEntry, IsFirst
<1>2. /\ dir \in [Entries -> [name : FilesNames, inode : InodeNrs]] /\ i \in Entries
      /\ dir[1].inode = ROOT_INODE /\ i # 1 /\ RootSize \in Nat /\ RootSize >= 1
  BY <1>1, Sizes DEF SizeInv, Rooted
<1>3. NoEntry \in [name : FilesNames, inode : InodeNrs] /\ NoEntry.inode = INVALID_INODE
  BY Constants DEF NoEntry, FilesNames, INVALID_INODE
<1>4. /\ dir' \in [Entries -> [name : FilesNames, inode : InodeNrs]]
      /\ \A j \in Entries : dir'[j] = IF j = i THEN NoEntry ELSE dir[j]
  BY <1>1, <1>2, <1>3
<1>5. dir'[1].inode = ROOT_INODE
  BY <1>2, <1>4, FirstSector
<1>6. ShrunkSize(i) >= 1 /\ ShrunkSize(i) <= RootSize /\ ShrunkSize(i) \in Nat
  <2>1. PICK live : live = {j \in 1..i - 1 : dir[j].inode # INVALID_INODE}
    OBVIOUS
  <2>2. 1 \in live
    BY <1>2, <2>1 DEF INVALID_INODE, ROOT_INODE
  <2>3. IsFiniteSet(1..i - 1) /\ Cardinality(1..i - 1) = i - 1 /\ live \in SUBSET (1..i - 1)
    <3>1. 1 \in Int /\ i - 1 \in Nat /\ i - 1 - 1 + 1 = i - 1
      BY <1>2
    <3>2. IsFiniteSet(1..i - 1) /\ Cardinality(1..i - 1) = IF 1 > i - 1 THEN 0 ELSE i - 1 - 1 + 1
      BY <3>1, FS_Interval
    <3> QED
      BY <2>1, <3>1, <3>2
  <2>4. IsFiniteSet(live) /\ Cardinality(live) <= i - 1
    BY <2>3, FS_Subset
  <2>5. Cardinality(live) \in Nat /\ Cardinality(live) # 0
    BY <2>2, <2>4, FS_CardinalityType, FS_EmptySet
  <2> QED
    BY <1>2, <2>1, <2>4, <2>5 DEF ShrunkSize
<1>7. inode_table'[ROOT] = [inode_table[ROOT] EXCEPT !.size = ShrunkSize(i)] /\ inode_table[ROOT] \in InMemory
  BY Sizes DEF Unlinks, Puts
<1>8. RootSize' = ShrunkSize(i)
  BY <1>7 DEF InMemory, RootSize
<1>9. i \in Named /\ Named' \subseteq Named \ {i}
  <2>1. i \in Named
    BY <1>1 DEF Named, INVALID_INODE
  <2>2. ASSUME NEW j \in 1..ShrunkSize(i), dir'[j].inode # INVALID_INODE
        PROVE  j \in Named \ {i}
    <3>1. j \in 1..RootSize /\ j \in Entries
      BY <1>2, <1>6, Sizes
    <3> QED
      BY <1>3, <1>4, <2>2, <3>1 DEF Named
  <2> QED
    BY <1>8, <2>1, <2>2 DEF Named
<1>10. Cardinality(Named') < Cardinality(imap \ {n})
  BY <1>1, <1>9, Sizes, OneLess DEF SizeInv, Rooted
<1> QED
  BY <1>1, <1>4, <1>5, <1>6, <1>8, <1>10 DEF Rooted

\* Two inodes are written, and put in memory.
LEMMA SyncedFits ==
    ASSUME SizeInv, NEW n \in InodeNrs, NEW s \in Slots, NEW new \in InMemory, NEW size \in Nat,
           SyncsTo(n, OnDisk(new)), s # ROOT, Puts(s, new, size), Fits(new), size <= Capacity, fs' = fs
    PROVE  Sized'
<1>1. ROOT \in Slots /\ inode_table[ROOT] \in InMemory
  BY Sizes
<1>2. Fits(inode_table'[ROOT])
  BY <1>1 DEF Puts, Fits, InMemory, SizeInv, Sized
<1>3. \A t \in Slots : Fits(inode_table'[t])
  BY <1>2 DEF Puts, SizeInv, Sized
<1>4. Fits(OnDisk(new)) /\ Fits(OnDisk(inode_table'[ROOT]))
  BY <1>2 DEF Fits, OnDisk
<1>5. \A k \in InodeNrs : Fits(inodes'[k])
  BY <1>4 DEF SyncsTo, SizeInv, Sized
<1> QED
  BY <1>3, <1>5 DEF Fits, SizeInv, Sized

LEMMA SizeStep ==
    ASSUME DirectoryHolds, SizeInv, [FilesNext]_filesVars
    PROVE  SizeInv'
<1>1. PlaceInv'
  BY PlaceStep DEF SizeInv
<1>2. Requests
  BY StepsAreRequests DEF SizeInv, PlaceInv
<1>3. /\ inode_table \in [Slots -> InMemory] /\ inodes \in [InodeNrs -> InodeOnDisk] /\ ROOT \in Slots
      /\ RootSize \in Nat /\ RootSize <= Capacity
  BY Sizes DEF SizeInv, PlaceInv, DiskInv, FilesInv, Shapes
<1>4. ASSUME UNCHANGED <<tables, diskVars>>, fs' \in {fs, "halted", "wild"}
      PROVE  Sized'
  BY <1>4 DEF SizeInv, Sized, Fits, tables, diskVars
<1>5. ASSUME UNCHANGED diskVars, fs' \in {fs, "up", "tty"}, \A s \in Slots : Fits(inode_table'[s])
      PROVE  Sized'
  BY <1>5 DEF SizeInv, Sized, Fits, diskVars
<1>6. ASSUME UNCHANGED diskVars, inode_table'[ROOT].size = inode_table[ROOT].size
      PROVE  Rooted'
  BY <1>6 DEF SizeInv, Rooted, Named, diskVars, RootSize
<1>7. ASSUME UNCHANGED diskVars, fs' \in {fs, "up", "tty"},
             NEW n \in InodeNrs \ {0}, NEW s \in Slots, Gets(n, s), inode_table' = Got(n, s)
      PROVE  Rooted' /\ Sized'
  <2>1. \A t \in Slots : Fits(inode_table'[t])
    <3>1. CASE Cached(n) # {}
      BY <1>3, <1>7, <3>1 DEF Got, InMemory, SizeInv, Sized, Fits
    <3>2. CASE Cached(n) = {}
      <4>1. Fits(Loaded(n))
        BY DEF Loaded, Fits, SizeInv, Sized
      <4>2. \A t \in Slots : inode_table'[t] = IF t = s THEN Loaded(n) ELSE inode_table[t]
        BY <1>3, <1>7, <3>2 DEF Got
      <4> QED
        BY <4>1, <4>2 DEF SizeInv, Sized
    <3> QED
      BY <3>1, <3>2
  <2>2. Got(n, s)[ROOT].size = inode_table[ROOT].size
    BY <1>7, GotRootSize DEF SizeInv, PlaceInv, DiskInv
  <2> QED
    BY <1>5, <1>6, <1>7, <2>1, <2>2
<1>8. ASSUME UNCHANGED <<fs, diskVars>>, NEW s \in Slots, inode_table' = [inode_table EXCEPT ![s].cnt = @ - 1]
      PROVE  Rooted' /\ Sized'
  <2>1. inode_table'[ROOT].size = inode_table[ROOT].size /\ \A t \in Slots : Fits(inode_table'[t])
    BY <1>3, <1>8 DEF InMemory, SizeInv, Sized, Fits
  <2> QED
    BY <1>5, <1>6, <1>8, <2>1
<1>9. ASSUME UNCHANGED <<tables, diskVars>>
      PROVE  Rooted'
  BY <1>6, <1>9 DEF tables
<1>10. ASSUME NEW n \in InodeNrs, NEW b \in 0..NrSectors - 1, NEW s \in Slots, NEW name \in Paths, Creates(n, b, s, name)
       PROVE  Rooted' /\ Sized'
  <2>1. /\ SyncsTo(n, OnDisk(NewFile(n, b))) /\ s # ROOT /\ Puts(s, NewFile(n, b), NewRootSize) /\ fs' = fs
    BY <1>10 DEF Creates, Holds
  <2>2. NewFile(n, b) \in InMemory /\ Fits(NewFile(n, b))
    BY Counts, CapacityCounts DEF NewFile, InMemory, Mode, Fits
  <2>3. n \in InodeNrs \ imap /\ n \in imap'
    BY <1>10 DEF Creates, alloc_imap_bit, IsFirst
  <2>4. n <= MaxNumber
    BY <1>1, <2>3 DEF PlaceInv, Placed, MaxNumber, MostFiles
  <2>5. NewRootSize \in Nat /\ NewRootSize <= Capacity
    BY <1>3, <2>3, <2>4, EntryLeft DEF NewRootSize
  <2> QED
    BY <1>10, <2>1, <2>2, <2>5, SyncedFits, RootedCreate
<1>11. ASSUME NEW n \in InodeNrs \ {0}, NEW s \in Slots, NEW i \in 1..RootSize, Unlinks(n, s, i)
       PROVE  Rooted' /\ Sized'
  <2>1. /\ SyncsTo(n, OnDisk(Cleared(n))) /\ s # ROOT /\ Puts(s, Cleared(n), ShrunkSize(i)) /\ fs' = fs
    BY <1>11 DEF Unlinks, Holds
  <2>2. Cleared(n) \in InMemory /\ Fits(Cleared(n))
    BY Counts, CapacityCounts DEF Cleared, InMemory, Mode, Fits
  <2>3. Rooted' /\ ShrunkSize(i) \in Nat /\ ShrunkSize(i) <= RootSize
    BY <1>11, RootedUnlink
  <2>4. ShrunkSize(i) <= Capacity
    BY <1>3, <2>3, CapacityCounts
  <2> QED
    BY <2>1, <2>2, <2>3, <2>4, SyncedFits
<1>12. Rooted' /\ Sized'
  BY <1>2, <1>4, <1>7, <1>8, <1>9, <1>10, <1>11 DEF Requests
<1> QED
  BY <1>1, <1>12 DEF SizeInv

LEMMA SizeInit == FilesInit => SizeInv
<1> SUFFICES ASSUME FilesInit PROVE SizeInv
  OBVIOUS
<1>1. EntriesInv
  BY EntriesInit
<1>2. \A n \in InodeNrs : inodes[n] \in {RootOnDisk, NoInode, [NoInode EXCEPT !.mode = "char"]}
  BY DEF FilesInit, mkfs
<1>3. Fits(RootOnDisk) /\ Fits(NoInode) /\ Fits([NoInode EXCEPT !.mode = "char"])
  BY Counts, CapacityCounts DEF RootOnDisk, NoInode, Fits
<1>4. \A s \in Slots : inode_table[s].size \in {RootOnDisk.size, 0} /\ inode_table[s].start \in {RootOnDisk.start, 0}
  BY DEF FilesInit
<1>5. \A s \in Slots : Fits(inode_table[s])
  BY <1>3, <1>4, Counts, CapacityCounts DEF Fits, RootOnDisk
<1>6. \A n \in InodeNrs : Fits(inodes[n])
  BY <1>2, <1>3
<1>7. Cardinality(Named) < Cardinality(imap)
  <2>1. RootSize = NR_CONSOLES + 1 /\ imap = 0..NR_CONSOLES + 1 /\ NR_CONSOLES \in Nat
    BY Constants, Counts DEF FilesInit, mkfs, RootSize, RootOnDisk
  <2>2. /\ IsFiniteSet(1..NR_CONSOLES + 1) /\ Cardinality(1..NR_CONSOLES + 1) = NR_CONSOLES + 1
        /\ Cardinality(0..NR_CONSOLES + 1) = NR_CONSOLES + 2
    <3>1. /\ 0 \in Int /\ 1 \in Int /\ NR_CONSOLES + 1 \in Int /\ ~ (1 > NR_CONSOLES + 1) /\ ~ (0 > NR_CONSOLES + 1)
          /\ NR_CONSOLES + 1 - 1 + 1 = NR_CONSOLES + 1 /\ NR_CONSOLES + 1 - 0 + 1 = NR_CONSOLES + 2
      BY <2>1
    <3>2. /\ IsFiniteSet(1..NR_CONSOLES + 1) /\ Cardinality(1..NR_CONSOLES + 1) = NR_CONSOLES + 1 - 1 + 1
          /\ Cardinality(0..NR_CONSOLES + 1) = NR_CONSOLES + 1 - 0 + 1
      BY <3>1, FS_Interval
    <3> QED
      BY <3>1, <3>2
  <2>3. Named \in SUBSET (1..NR_CONSOLES + 1)
    BY <2>1 DEF Named
  <2>4. Cardinality(Named) <= NR_CONSOLES + 1 /\ Cardinality(Named) \in Nat
    <3>1. PICK T : T = 1..NR_CONSOLES + 1
      OBVIOUS
    <3>2. Named \in SUBSET T /\ IsFiniteSet(T) /\ Cardinality(T) = NR_CONSOLES + 1
      BY ONLY <2>2, <2>3, <3>1
    <3>3. IsFiniteSet(Named) /\ Cardinality(Named) <= Cardinality(T)
      BY ONLY <3>2, FS_Subset
    <3>4. Cardinality(Named) \in Nat
      BY ONLY <3>3, FS_CardinalityType
    <3> QED
      BY <3>2, <3>3, <3>4
  <2> QED
    BY <2>1, <2>2, <2>4
<1> QED
  BY <1>1, <1>5, <1>6, <1>7 DEF SizeInv, Rooted, Sized, EntriesInv, DirInv, FilesInit

\* The tables and the disk have the types that Files gives them, though entries
\* be lost: an inode's size stays within its sectors.  For the root directory
\* this is not for the code to check, which has no test that the directory is
\* full: it holds as long as there are as many entries as inode numbers.
THEOREM FilesTypeCorrect == DirectoryHolds => (FilesSpec => []FilesTypeOK)
<1> SUFFICES ASSUME DirectoryHolds PROVE FilesSpec => []FilesTypeOK
  OBVIOUS
<1>1. FilesInit => SizeInv
  BY SizeInit
<1>2. SizeInv /\ [FilesNext]_filesVars => SizeInv'
  BY SizeStep
<1>3. SizeInv => FilesTypeOK
  <2> SUFFICES ASSUME SizeInv PROVE FilesTypeOK
    OBVIOUS
  <2>1. Shapes
    BY DEF SizeInv, PlaceInv, DiskInv, FilesInv
  <2>2. \A x \in Nat : x <= Capacity => x \in Entries \cup {0}
    BY CapacityCounts
  <2>3. \A s \in Slots : inode_table[s] \in [num : InodeNrs, cnt : Nat, mode : Mode, size : Entries \cup {0}, start : 0..NrSectors]
    <3> SUFFICES ASSUME NEW s \in Slots
                 PROVE  inode_table[s] \in [num : InodeNrs, cnt : Nat, mode : Mode, size : Entries \cup {0}, start : 0..NrSectors]
      OBVIOUS
    <3>1. inode_table[s] \in InMemory /\ Fits(inode_table[s])
      BY <2>1 DEF Shapes, SizeInv, Sized
    <3>2. inode_table[s].size \in Entries \cup {0} /\ inode_table[s].start \in 0..NrSectors
      BY <2>2, <3>1, Counts DEF InMemory, Fits
    <3> QED
      BY <3>1, <3>2 DEF InMemory
  <2>4. \A n \in InodeNrs : inodes[n] \in [mode : Mode, size : Entries \cup {0}, start : 0..NrSectors]
    <3> SUFFICES ASSUME NEW n \in InodeNrs
                 PROVE  inodes[n] \in [mode : Mode, size : Entries \cup {0}, start : 0..NrSectors]
      OBVIOUS
    <3>1. inodes[n] \in InodeOnDisk /\ Fits(inodes[n])
      BY <2>1 DEF Shapes, SizeInv, Sized
    <3>2. inodes[n].size \in Entries \cup {0} /\ inodes[n].start \in 0..NrSectors
      BY <2>2, <3>1, Counts DEF InodeOnDisk, Fits
    <3> QED
      BY <3>1, <3>2 DEF InodeOnDisk
  <2>5. fs \in {"up", "tty", "halted", "wild"} /\ smap \subseteq 0..NrSectors - 1
        /\ dir \in [Entries -> [name : FilesNames, inode : InodeNrs]]
    BY DEF SizeInv, Rooted, Sized, PlaceInv, Placed
  <2>6. /\ inode_table \in [Slots -> [num : InodeNrs, cnt : Nat, mode : Mode, size : Entries \cup {0}, start : 0..NrSectors]]
        /\ inodes \in [InodeNrs -> [mode : Mode, size : Entries \cup {0}, start : 0..NrSectors]]
    BY <2>1, <2>3, <2>4 DEF Shapes
  <2> QED
    BY <2>1, <2>5, <2>6 DEF FilesTypeOK, Shapes
<1> QED
  BY <1>1, <1>2, <1>3, PTL DEF FilesSpec
=============================================================================
