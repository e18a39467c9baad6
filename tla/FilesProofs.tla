---------------------------- MODULE FilesProofs ----------------------------
(***************************************************************************)
(* Theorems about Files, for any number of users, descriptors, inodes and  *)
(* sectors: descriptors belong to one user, references cover them, and     *)
(* open files are what Handles promises.                                   *)
(***************************************************************************)
EXTENDS Files, FiniteSetTheorems, TLAPS

InMemory == [num : InodeNrs, cnt : Nat, mode : Mode, size : Nat, start : Nat]
InodeOnDisk == [mode : Mode, size : Nat, start : Nat]

\* The types that the results need.  The size of the directory has no bound
\* here, and what its entries say does not matter.
Shapes ==
    /\ filp \in [Users -> [Fds -> Descs \cup {0}]]
    /\ f_desc_table \in [Descs -> Slots \cup {0}]
    /\ inode_table \in [Slots -> InMemory]
    /\ inodes \in [InodeNrs -> InodeOnDisk]
    /\ imap \subseteq InodeNrs

\* The inodes in memory that have a reference are different ones, the root's
\* stays where it is, and those that are something have their number.
InMemoryOnce ==
    /\ inode_table[ROOT].num = ROOT_INODE
    /\ \A s, t \in Slots :
          inode_table[s].cnt > 0 /\ inode_table[t].cnt > 0 /\ inode_table[s].num = inode_table[t].num => s = t
    /\ \A s \in Slots : inode_table[s].cnt > 0 =>
          /\ inode_table[s].mode # "none" => inode_table[s].num \in imap
          /\ inode_table[s].num \in DOMAIN Consoles => inode_table[s].mode = "char"

\* What is on disk has its number too, and the consoles are never removed.
KeptOnDisk ==
    /\ 0..NR_CONSOLES + 1 \subseteq imap
    /\ \A n \in InodeNrs : inodes[n].mode # "none" => n \in imap
    /\ \A n \in DOMAIN Consoles : inodes[n].mode = "char"

\* An unlink that is refused may leave an inode in memory that has no number,
\* but no descriptor of it.
OpenOnDisk == \A d \in Descs : f_desc_table[d] # 0 => inode_table[f_desc_table[d]].num \in imap \ {0}

FilesInv == Shapes /\ DescriptorsOwned /\ CountsCover /\ InMemoryOnce /\ KeptOnDisk /\ OpenOnDisk
-----------------------------------------------------------------------------
\* The descriptors of an inode in memory.
HeldBy(s) == {d \in Descs : f_desc_table[d] = s}

\* The mapping to Handles.
OpenFiles == [u \in Users |-> [fd \in Fds |-> FileOf(u, fd)]]

LEMMA Constants ==
    /\ ROOT \in Slots /\ ROOT_INODE \in InodeNrs /\ 0 \in InodeNrs
    /\ NR_CONSOLES \in Nat
    /\ DOMAIN Consoles = 2..NR_CONSOLES + 1
    /\ 0..NR_CONSOLES + 1 \subseteq InodeNrs
    /\ InodeNrs \subseteq Nat
    /\ 0 \notin Slots /\ 0 \notin Descs
<1>1. NR_CONSOLES \in Nat
  BY FilesAssumption, FS_CardinalityType DEF NR_CONSOLES
<1>2. NR_INODE \in Nat \ {0} /\ NR_FILE_DESC \in Nat \ {0} /\ NrInodes \in Nat /\ NR_CONSOLES + 2 <= NrInodes
  BY FilesAssumption
<1> QED
  BY <1>1, <1>2, FilesAssumption DEF ROOT, ROOT_INODE, Slots, Descs, InodeNrs

LEMMA HeldFinite ==
    ASSUME NEW s
    PROVE  /\ IsFiniteSet(HeldBy(s)) /\ Cardinality(HeldBy(s)) \in Nat
           /\ Cardinality(HeldBy(s)) = 0 <=> HeldBy(s) = {}
<1>1. NR_FILE_DESC \in Nat
  BY FilesAssumption
<1>2. IsFiniteSet(Descs)
  BY <1>1, FS_Interval DEF Descs
<1>3. IsFiniteSet(HeldBy(s))
  BY <1>2, FS_Subset DEF HeldBy
<1> QED
  BY <1>3, FS_CardinalityType, FS_EmptySet

\* CountsCover, with the set named.
LEMMA Covered ==
    CountsCover <=> \A s \in Slots : inode_table[s].cnt >= Cardinality(HeldBy(s)) + (IF s = ROOT THEN 1 ELSE 0)
BY DEF CountsCover, HeldBy

\* An inode that a descriptor leads to has a reference, and so has the root's.
LEMMA HeldCounted ==
    ASSUME FilesInv
    PROVE  /\ \A d \in Descs : f_desc_table[d] # 0 =>
                 f_desc_table[d] \in Slots /\ inode_table[f_desc_table[d]].cnt > 0
           /\ inode_table[ROOT].cnt > 0
<1>1. ASSUME NEW s \in Slots PROVE inode_table[s].cnt \in Nat
  BY DEF FilesInv, Shapes, InMemory
<1>2. ASSUME NEW d \in Descs, f_desc_table[d] # 0
      PROVE  f_desc_table[d] \in Slots /\ inode_table[f_desc_table[d]].cnt > 0
  <2>1. f_desc_table[d] \in Slots
    BY <1>2 DEF FilesInv, Shapes
  <2>2. d \in HeldBy(f_desc_table[d])
    BY DEF HeldBy
  <2>3. Cardinality(HeldBy(f_desc_table[d])) \in Nat \ {0}
    BY <2>2, HeldFinite
  <2> QED
    BY <1>1, <2>1, <2>3, Covered DEF FilesInv
<1>3. inode_table[ROOT].cnt > 0
  BY <1>1, Constants, HeldFinite, Covered DEF FilesInv
<1> QED
  BY <1>2, <1>3

\* get_inode gives a slot to one inode, and leaves the others alone.
LEMMA GetInode ==
    ASSUME FilesInv, NEW n \in InodeNrs \ {0}, NEW s \in Slots, Gets(n, s)
    PROVE  /\ Got(n, s) \in [Slots -> InMemory]
           /\ Got(n, s)[s].num = n
           /\ \A t \in Slots \ {s} :
                 /\ Got(n, s)[t] = inode_table[t]
                 /\ inode_table[t].cnt > 0 => inode_table[t].num # n
           /\ n = ROOT_INODE <=> s = ROOT
           /\ \/ /\ inode_table[s].num = n /\ inode_table[s].cnt > 0
                 /\ Got(n, s)[s] = [inode_table[s] EXCEPT !.cnt = @ + 1]
              \/ inode_table[s].cnt = 0 /\ s # ROOT /\ Got(n, s)[s] = Loaded(n)
<1>1. inode_table[s] \in InMemory /\ inodes[n] \in InodeOnDisk
  BY DEF FilesInv, Shapes
<1>2. Loaded(n) \in InMemory /\ Loaded(n).num = n
  BY <1>1 DEF Loaded, InMemory, InodeOnDisk
<1>3. [inode_table[s] EXCEPT !.cnt = @ + 1] \in InMemory
  BY <1>1 DEF InMemory
<1>4. inode_table[ROOT].num = ROOT_INODE /\ inode_table[ROOT].cnt > 0 /\ ROOT \in Slots
  BY HeldCounted, Constants DEF FilesInv, InMemoryOnce
<1>5. CASE Cached(n) # {}
  <2>1. s \in Slots /\ inode_table[s].cnt > 0 /\ inode_table[s].num = n
    BY <1>5 DEF Gets, IsFirst, Cached
  <2>2. Got(n, s) = [inode_table EXCEPT ![s].cnt = @ + 1]
    BY <1>5 DEF Got
  <2>3. inode_table \in [Slots -> InMemory]
    BY DEF FilesInv, Shapes
  <2>4. Got(n, s)[s] = [inode_table[s] EXCEPT !.cnt = @ + 1]
    BY <2>2, <2>3
  <2>5. Got(n, s) \in [Slots -> InMemory] /\ \A t \in Slots \ {s} : Got(n, s)[t] = inode_table[t]
    BY <1>3, <2>2, <2>3
  <2>6. Got(n, s)[s].num = n
    BY <1>1, <2>1, <2>4 DEF InMemory
  <2>7. \A t \in Slots \ {s} : inode_table[t].cnt > 0 => inode_table[t].num # n
    BY <2>1 DEF FilesInv, InMemoryOnce
  <2> QED
    BY <1>4, <2>1, <2>4, <2>5, <2>6, <2>7
<1>6. CASE Cached(n) = {}
  <2>1. inode_table[s].cnt = 0
    BY <1>6 DEF Gets, IsFirst, Unused
  <2>2. Got(n, s) = [inode_table EXCEPT ![s] = Loaded(n)]
    BY <1>6 DEF Got
  <2>3. inode_table \in [Slots -> InMemory]
    BY DEF FilesInv, Shapes
  <2>4. Got(n, s)[s] = Loaded(n) /\ Got(n, s) \in [Slots -> InMemory]
          /\ \A t \in Slots \ {s} : Got(n, s)[t] = inode_table[t]
    BY <1>2, <2>2, <2>3
  <2>5. \A t \in Slots : inode_table[t].cnt > 0 => inode_table[t].num # n
    BY <1>6 DEF Cached
  <2>6. s # ROOT
    BY <1>4, <2>1
  <2> QED
    BY <1>2, <1>4, <2>1, <2>4, <2>5, <2>6
<1> QED
  BY <1>5, <1>6

-----------------------------------------------------------------------------
\* What an open does once it has its inode n in slot s, the file found or
\* created: it takes descriptor d for user u under the number e.
OpensAs(u, e, d, s, n) ==
    /\ filp[u][e] = 0 /\ filp' = [filp EXCEPT ![u][e] = d]
    /\ f_desc_table[d] = 0 /\ f_desc_table' = [f_desc_table EXCEPT ![d] = s]
    /\ inode_table' \in [Slots -> InMemory]
    /\ inode_table'[s].num = n
    /\ \A t \in Slots \ {s} : inode_table'[t].num = inode_table[t].num /\ inode_table'[t].cnt = inode_table[t].cnt
    /\ \/ inode_table[s].num = n /\ inode_table'[s].cnt = inode_table[s].cnt + 1
       \/ HeldBy(s) = {} /\ s # ROOT /\ inode_table'[s].cnt > 0
    /\ imap \subseteq imap' /\ n \in imap'

LEMMA Opened ==
    ASSUME FilesInv,
           NEW u \in Users, NEW e \in Fds, NEW d \in Descs, NEW s \in Slots, NEW n \in InodeNrs \ {0},
           OpensAs(u, e, d, s, n)
    PROVE  /\ filp' \in [Users -> [Fds -> Descs \cup {0}]]
           /\ f_desc_table' \in [Descs -> Slots \cup {0}]
           /\ DescriptorsOwned' /\ CountsCover' /\ OpenOnDisk'
           /\ OpenFiles[u][e] = 0 /\ OpenFiles' = [OpenFiles EXCEPT ![u][e] = n]
<1> USE DEF OpensAs
<1>1. /\ filp \in [Users -> [Fds -> Descs \cup {0}]]
      /\ f_desc_table \in [Descs -> Slots \cup {0}]
      /\ inode_table \in [Slots -> InMemory]
      /\ 0 \notin Slots /\ 0 \notin Descs
  BY Constants DEF FilesInv, Shapes
<1>2. /\ filp' \in [Users -> [Fds -> Descs \cup {0}]]
      /\ f_desc_table' \in [Descs -> Slots \cup {0}]
      /\ filp'[u][e] = d /\ f_desc_table'[d] = s /\ s # 0 /\ d # 0
      /\ \A v \in Users, f \in Fds : v # u \/ f # e => filp'[v][f] = filp[v][f]
      /\ \A c \in Descs \ {d} : f_desc_table'[c] = f_desc_table[c]
  BY <1>1
<1>3. \A v \in Users, f \in Fds : filp[v][f] # 0 => f_desc_table[filp[v][f]] # 0 /\ filp[v][f] # d
  BY DEF FilesInv, DescriptorsOwned
<1>4. DescriptorsOwned'
  <2>1. \A v \in Users, f \in Fds : filp'[v][f] # 0 => f_desc_table'[filp'[v][f]] # 0
    <3> SUFFICES ASSUME NEW v \in Users, NEW f \in Fds, filp'[v][f] # 0
                 PROVE  f_desc_table'[filp'[v][f]] # 0
      OBVIOUS
    <3>1. CASE v = u /\ f = e
      BY <1>2, <3>1
    <3>2. CASE v # u \/ f # e
      BY <1>1, <1>2, <1>3, <3>2
    <3> QED
      BY <3>1, <3>2
  <2>2. ASSUME NEW v \in Users, NEW w \in Users, NEW f \in Fds, NEW g \in Fds,
               filp'[v][f] # 0, filp'[v][f] = filp'[w][g]
        PROVE  v = w /\ f = g
    <3>1. CASE v = u /\ f = e
      BY <1>2, <1>3, <2>2, <3>1
    <3>2. CASE w = u /\ g = e
      BY <1>2, <1>3, <2>2, <3>2
    <3>3. CASE (v # u \/ f # e) /\ (w # u \/ g # e)
      BY <1>2, <2>2, <3>3 DEF FilesInv, DescriptorsOwned
    <3> QED
      BY <3>1, <3>2, <3>3
  <2>3. ASSUME NEW c \in Descs, f_desc_table'[c] # 0
        PROVE  \E v \in Users, f \in Fds : filp'[v][f] = c
    <3>1. CASE c = d
      BY <1>2, <3>1
    <3>2. CASE c # d
      <4>1. PICK v \in Users, f \in Fds : filp[v][f] = c
        BY <1>2, <2>3, <3>2 DEF FilesInv, DescriptorsOwned
      <4>2. v # u \/ f # e
        BY <1>1, <4>1
      <4> QED
        BY <1>2, <4>1, <4>2
    <3> QED
      BY <3>1, <3>2
  <2> QED
    BY <2>1, <2>2, <2>3 DEF DescriptorsOwned
<1>5. CountsCover'
  <2> SUFFICES ASSUME NEW t \in Slots
               PROVE  inode_table'[t].cnt >= Cardinality(HeldBy(t)') + (IF t = ROOT THEN 1 ELSE 0)
    BY DEF CountsCover, HeldBy
  <2>1. inode_table[t].cnt \in Nat /\ inode_table'[t].cnt \in Nat
    BY <1>1 DEF InMemory
  <2>2. inode_table[t].cnt >= Cardinality(HeldBy(t)) + (IF t = ROOT THEN 1 ELSE 0)
    BY Covered DEF FilesInv
  <2>3. IsFiniteSet(HeldBy(t)) /\ Cardinality(HeldBy(t)) \in Nat
    BY HeldFinite
  <2>4. CASE t # s
    <3>1. HeldBy(t)' = HeldBy(t)
      BY <1>1, <1>2, <2>4 DEF HeldBy
    <3> QED
      BY <2>2, <2>4, <3>1
  <2>5. CASE t = s
    <3>1. HeldBy(t)' = HeldBy(t) \cup {d}
      BY <1>1, <1>2, <2>5 DEF HeldBy
    <3>2. d \notin HeldBy(t)
      BY <1>1 DEF HeldBy
    <3>3. Cardinality(HeldBy(t)') = Cardinality(HeldBy(t)) + 1
      BY <2>3, <3>1, <3>2, FS_AddElement
    <3>4. CASE inode_table'[s].cnt = inode_table[s].cnt + 1
      BY <2>1, <2>2, <2>3, <2>5, <3>3, <3>4
    <3>5. CASE HeldBy(s) = {} /\ s # ROOT /\ inode_table'[s].cnt > 0
      BY <2>1, <2>5, <3>3, <3>5, FS_EmptySet
    <3> QED
      BY <3>4, <3>5
  <2> QED
    BY <2>4, <2>5
<1>6. \A c \in Descs : f_desc_table[c] # 0 => inode_table'[f_desc_table[c]].num = inode_table[f_desc_table[c]].num
  <2> SUFFICES ASSUME NEW c \in Descs, f_desc_table[c] # 0
               PROVE  inode_table'[f_desc_table[c]].num = inode_table[f_desc_table[c]].num
    OBVIOUS
  <2>1. f_desc_table[c] \in Slots
    BY <1>1
  <2>2. CASE f_desc_table[c] = s
    <3>1. c \in HeldBy(s)
      BY <2>2 DEF HeldBy
    <3> QED
      BY <2>2, <3>1
  <2> QED
    BY <2>1, <2>2
<1>7. OpenOnDisk'
  <2> SUFFICES ASSUME NEW c \in Descs, f_desc_table'[c] # 0
               PROVE  inode_table'[f_desc_table'[c]].num \in imap' \ {0}
    BY DEF OpenOnDisk
  <2>1. CASE c = d
    BY <1>2, <2>1
  <2>2. CASE c # d
    BY <1>2, <1>6, <2>2 DEF FilesInv, OpenOnDisk
  <2> QED
    BY <2>1, <2>2
<1>8. \A v \in Users, f \in Fds : v # u \/ f # e => FileOf(v, f)' = FileOf(v, f)
  BY <1>1, <1>2, <1>3, <1>6 DEF FileOf
<1>9. FileOf(u, e)' = n /\ FileOf(u, e) = 0
  BY <1>2 DEF FileOf
<1>10. OpenFiles[u][e] = 0 /\ OpenFiles' = [OpenFiles EXCEPT ![u][e] = n]
  <2> DEFINE now == OpenFiles  then == OpenFiles'
  <2>1. /\ now = [v \in Users |-> [f \in Fds |-> FileOf(v, f)]]
        /\ then = [v \in Users |-> [f \in Fds |-> FileOf(v, f)']]
    BY DEF OpenFiles
  <2>2. \A v \in Users, f \in Fds : then[v][f] = IF v = u /\ f = e THEN n ELSE now[v][f]
    BY <1>8, <1>9, <2>1
  <2>3. then = [now EXCEPT ![u][e] = n]
    BY <2>1, <2>2
  <2> QED
    BY <1>9, <2>1, <2>3
<1> QED
  BY <1>2, <1>4, <1>5, <1>7, <1>10

-----------------------------------------------------------------------------
\* A request that halts TASK_FS, or comes back with an error, is no step of Handles.
LEMMA NothingDone ==
    ASSUME FilesInv, UNCHANGED <<tables, diskVars>>
    PROVE  FilesInv' /\ imap' = imap /\ OpenFiles' = OpenFiles
<1>1. /\ filp' = filp /\ f_desc_table' = f_desc_table /\ inode_table' = inode_table
      /\ imap' = imap /\ inodes' = inodes
  BY DEF tables, diskVars
<1>2. Shapes' /\ DescriptorsOwned' /\ CountsCover'
  BY <1>1 DEF FilesInv, Shapes, DescriptorsOwned, CountsCover
<1>3. InMemoryOnce' /\ KeptOnDisk' /\ OpenOnDisk'
  BY <1>1 DEF FilesInv, InMemoryOnce, KeptOnDisk, OpenOnDisk
<1> QED
  BY <1>1, <1>2, <1>3 DEF FilesInv, OpenFiles, FileOf

\* The steps of Handles, said of OpenFiles.
LEMMA IsOpenFile ==
    ASSUME NEW u \in Users, NEW h \in Fds, NEW f \in InodeNrs \ {0},
           f \in imap, OpenFiles[u][h] = 0, OpenFiles' = [OpenFiles EXCEPT ![u][h] = f], imap' = imap
    PROVE  Abstract!Next
<1>1. Abstract!OpenFile(u, h, f)
  BY DEF OpenFiles, Abstract!OpenFile, Abstract!Opens
<1> QED
  BY <1>1 DEF Abstract!Next

LEMMA IsCreateFile ==
    ASSUME NEW u \in Users, NEW h \in Fds, NEW f \in InodeNrs \ {0},
           f \notin imap, OpenFiles[u][h] = 0, OpenFiles' = [OpenFiles EXCEPT ![u][h] = f], imap' = imap \cup {f}
    PROVE  Abstract!Next
<1>1. imap' \ {0} = (imap \ {0}) \cup {f}
  OBVIOUS
<1>2. Abstract!CreateFile(u, h, f)
  BY <1>1 DEF OpenFiles, Abstract!CreateFile, Abstract!Opens
<1> QED
  BY <1>2 DEF Abstract!Next

LEMMA IsClose ==
    ASSUME NEW u \in Users, NEW h \in Fds,
           OpenFiles[u][h] # 0, OpenFiles' = [OpenFiles EXCEPT ![u][h] = 0], imap' = imap
    PROVE  Abstract!Next
<1>1. Abstract!Close(u, h)
  BY DEF OpenFiles, Abstract!Close
<1> QED
  BY <1>1 DEF Abstract!Next

LEMMA IsRemove ==
    ASSUME NEW f \in InodeNrs \ {0}, f \in imap \ (0..NR_CONSOLES + 1),
           \A u \in Users, h \in Fds : OpenFiles[u][h] # f,
           OpenFiles' = OpenFiles, imap' = imap \ {f}
    PROVE  Abstract!Next
<1>1. imap' \ {0} = (imap \ {0}) \ {f}
  OBVIOUS
<1>2. f \notin 1..NR_CONSOLES + 1
  BY Constants
<1>3. Abstract!Remove(f)
  BY <1>1, <1>2 DEF OpenFiles, Abstract!Remove
<1> QED
  BY <1>3 DEF Abstract!Next

LEMMA IsNothing ==
    ASSUME imap' = imap, OpenFiles' = OpenFiles
    PROVE  UNCHANGED Abstract!handles
BY DEF OpenFiles, Abstract!handles

-----------------------------------------------------------------------------
\* get_inode adds no second copy of an inode.
LEMMA GotOnce ==
    ASSUME FilesInv, NEW n \in InodeNrs \ {0}, NEW s \in Slots, Gets(n, s),
           inode_table' = Got(n, s), imap' = imap
    PROVE  InMemoryOnce'
<1> DEFINE new == inode_table'
<1>1. /\ new[s].num = n
      /\ \A t \in Slots \ {s} : new[t] = inode_table[t] /\ (inode_table[t].cnt > 0 => inode_table[t].num # n)
      /\ n = ROOT_INODE <=> s = ROOT
  <2>1. /\ Got(n, s)[s].num = n
        /\ \A t \in Slots \ {s} : /\ Got(n, s)[t] = inode_table[t]
                                  /\ inode_table[t].cnt > 0 => inode_table[t].num # n
        /\ n = ROOT_INODE <=> s = ROOT
    BY GetInode
  <2> QED
    BY <2>1
<1>2. inode_table[ROOT].num = ROOT_INODE /\ ROOT \in Slots
  BY Constants DEF FilesInv, InMemoryOnce
<1>3. new[ROOT].num = ROOT_INODE
  BY <1>1, <1>2
<1>4. ASSUME NEW t \in Slots, NEW v \in Slots, new[t].cnt > 0, new[v].cnt > 0, new[t].num = new[v].num
      PROVE  t = v
  BY <1>1, <1>4 DEF FilesInv, InMemoryOnce
<1>5. ASSUME NEW t \in Slots, new[t].cnt > 0
      PROVE  /\ new[t].mode # "none" => new[t].num \in imap
             /\ new[t].num \in DOMAIN Consoles => new[t].mode = "char"
  <2>1. CASE t # s
    BY <1>1, <1>5, <2>1 DEF FilesInv, InMemoryOnce
  <2>2. CASE t = s /\ inode_table[s].num = n /\ inode_table[s].cnt > 0
                   /\ new[s] = [inode_table[s] EXCEPT !.cnt = @ + 1]
    <3>1. new[s].mode = inode_table[s].mode
      BY <2>2 DEF FilesInv, Shapes, InMemory
    <3> QED
      BY <1>1, <2>2, <3>1 DEF FilesInv, InMemoryOnce
  <2>3. CASE t = s /\ new[s] = Loaded(n)
    BY <2>3, <1>1 DEF Loaded, FilesInv, KeptOnDisk
  <2> QED
    BY <2>1, <2>2, <2>3, GetInode
<1> QED
  BY <1>3, <1>4, <1>5 DEF InMemoryOnce

\* An unlink that is refused takes a reference, of an inode that may be new in
\* memory, and does nothing else.
LEMMA RefusedKeeps ==
    ASSUME FilesInv, NEW n \in InodeNrs \ {0}, NEW s \in Slots, Gets(n, s), Refused(n, s)
    PROVE  FilesInv' /\ imap' = imap /\ OpenFiles' = OpenFiles
<1>1. /\ inode_table' = Got(n, s) /\ filp' = filp /\ f_desc_table' = f_desc_table
      /\ imap' = imap /\ inodes' = inodes
  BY DEF Refused, diskVars
<1>2. /\ inode_table' \in [Slots -> InMemory]
      /\ \A t \in Slots : inode_table[t].cnt > 0 =>
            inode_table'[t].num = inode_table[t].num /\ inode_table'[t].cnt >= inode_table[t].cnt
  <2>1. inode_table' \in [Slots -> InMemory]
    BY <1>1, GetInode
  <2>2. \A t \in Slots : inode_table[t].cnt \in Nat
    BY DEF FilesInv, Shapes, InMemory
  <2>3. /\ \A t \in Slots \ {s} : Got(n, s)[t] = inode_table[t]
        /\ \/ Got(n, s)[s] = [inode_table[s] EXCEPT !.cnt = @ + 1]
           \/ inode_table[s].cnt = 0
    BY GetInode
  <2>4. inode_table[s] \in InMemory
    BY DEF FilesInv, Shapes
  <2>5. inode_table[s].cnt > 0 => inode_table'[s].num = inode_table[s].num /\ inode_table'[s].cnt = inode_table[s].cnt + 1
    BY <1>1, <2>3, <2>4 DEF InMemory
  <2>6. \A t \in Slots \ {s} : inode_table'[t] = inode_table[t]
    BY <1>1, <2>3
  <2> QED
    BY <2>1, <2>2, <2>5, <2>6
<1>3. Shapes' /\ DescriptorsOwned' /\ KeptOnDisk'
  BY <1>1, <1>2 DEF FilesInv, Shapes, DescriptorsOwned, KeptOnDisk
<1>4. InMemoryOnce'
  BY <1>1, GotOnce
<1>5. CountsCover'
  <2> SUFFICES ASSUME NEW t \in Slots
               PROVE  inode_table'[t].cnt >= Cardinality(HeldBy(t)) + (IF t = ROOT THEN 1 ELSE 0)
    BY <1>1 DEF CountsCover, HeldBy
  <2>1. inode_table[t].cnt >= Cardinality(HeldBy(t)) + (IF t = ROOT THEN 1 ELSE 0)
    BY Covered DEF FilesInv
  <2>2. Cardinality(HeldBy(t)) \in Nat
    BY HeldFinite
  <2>3. inode_table[t].cnt \in Nat /\ inode_table'[t].cnt \in Nat
    BY <1>2 DEF FilesInv, Shapes, InMemory
  <2> QED
    BY <1>2, <2>1, <2>2, <2>3
<1>6. OpenOnDisk'
  BY <1>1, <1>2, HeldCounted DEF FilesInv, OpenOnDisk
<1>7. \A u \in Users, h \in Fds : FileOf(u, h)' = FileOf(u, h)
  <2>1. \A u \in Users, h \in Fds : filp[u][h] # 0 => filp[u][h] \in Descs /\ f_desc_table[filp[u][h]] # 0
    BY DEF FilesInv, Shapes, DescriptorsOwned
  <2> QED
    BY <1>1, <1>2, <2>1, HeldCounted DEF FileOf
<1> QED
  BY <1>1, <1>3, <1>4, <1>5, <1>6, <1>7 DEF FilesInv, OpenFiles

-----------------------------------------------------------------------------
\* Each request keeps the invariant and is a step of Handles, or none.
LEMMA OpenStep ==
    ASSUME FilesInv, NEW u \in Users, NEW name \in Paths, Open(u, name)
    PROVE  FilesInv' /\ (Abstract!Next \/ UNCHANGED Abstract!handles)
<1>1. CASE UNCHANGED <<tables, diskVars>>
  BY <1>1, NothingDone, IsNothing
<1>2. ASSUME NEW n \in InodeNrs \ {0}, NEW s \in Slots, Gets(n, s), Got(n, s)[s].mode # "none",
             Takes(u, s), inode_table' = Got(n, s), UNCHANGED diskVars
      PROVE  FilesInv' /\ Abstract!Next
  <2>1. PICK e \in Fds, d \in Descs :
            /\ filp[u][e] = 0 /\ f_desc_table[d] = 0
            /\ filp' = [filp EXCEPT ![u][e] = d]
            /\ f_desc_table' = [f_desc_table EXCEPT ![d] = s]
    BY <1>2 DEF Takes, IsFirst, FreeFds, FreeDescs
  <2>2. /\ Got(n, s) \in [Slots -> InMemory]
        /\ Got(n, s)[s].num = n
        /\ \A t \in Slots \ {s} : Got(n, s)[t] = inode_table[t]
        /\ \/ /\ inode_table[s].num = n /\ inode_table[s].cnt > 0
              /\ Got(n, s)[s] = [inode_table[s] EXCEPT !.cnt = @ + 1]
           \/ inode_table[s].cnt = 0 /\ s # ROOT /\ Got(n, s)[s] = Loaded(n)
    BY <1>2, GetInode
  <2>3. inode_table[s] \in InMemory /\ inodes' = inodes /\ imap' = imap
    BY <1>2 DEF FilesInv, Shapes, diskVars
  <2>4. /\ n \in imap
        /\ \/ inode_table[s].num = n /\ inode_table'[s].cnt = inode_table[s].cnt + 1
           \/ HeldBy(s) = {} /\ s # ROOT /\ inode_table'[s].cnt > 0
    <3>1. CASE /\ inode_table[s].num = n /\ inode_table[s].cnt > 0
               /\ Got(n, s)[s] = [inode_table[s] EXCEPT !.cnt = @ + 1]
      <4>1. inode_table'[s].cnt = inode_table[s].cnt + 1 /\ Got(n, s)[s].mode = inode_table[s].mode
        BY <1>2, <2>3, <3>1 DEF InMemory
      <4>2. n \in imap
        BY <1>2, <3>1, <4>1 DEF FilesInv, InMemoryOnce
      <4> QED
        BY <3>1, <4>1, <4>2
    <3>2. CASE inode_table[s].cnt = 0 /\ s # ROOT /\ Got(n, s)[s] = Loaded(n)
      <4>1. HeldBy(s) = {}
        BY <3>2, HeldCounted, Constants DEF HeldBy
      <4>2. inode_table'[s].cnt = 1 /\ Got(n, s)[s].mode = inodes[n].mode
        BY <1>2, <3>2 DEF Loaded
      <4>3. n \in imap
        BY <1>2, <4>2 DEF FilesInv, KeptOnDisk
      <4> QED
        BY <3>2, <4>1, <4>2, <4>3
    <3> QED
      BY <2>2, <3>1, <3>2
  <2>5. /\ filp' \in [Users -> [Fds -> Descs \cup {0}]]
        /\ f_desc_table' \in [Descs -> Slots \cup {0}]
        /\ DescriptorsOwned' /\ CountsCover' /\ OpenOnDisk'
        /\ OpenFiles[u][e] = 0 /\ OpenFiles' = [OpenFiles EXCEPT ![u][e] = n]
    <3>1. inode_table' \in [Slots -> InMemory] /\ inode_table'[s].num = n
      BY <1>2, <2>2
    <3>2. \A t \in Slots \ {s} : inode_table'[t].num = inode_table[t].num /\ inode_table'[t].cnt = inode_table[t].cnt
      BY <1>2, <2>2
    <3>3. imap \subseteq imap' /\ n \in imap'
      BY <2>3, <2>4
    <3>4. OpensAs(u, e, d, s, n)
      BY <2>1, <2>4, <3>1, <3>2, <3>3 DEF OpensAs
    <3> QED
      BY <3>4, Opened
  <2>6. InMemoryOnce'
    BY <1>2, <2>3, GotOnce
  <2>7. Shapes' /\ KeptOnDisk'
    BY <1>2, <2>2, <2>3, <2>5 DEF FilesInv, Shapes, KeptOnDisk
  <2>8. Abstract!Next
    BY <2>3, <2>4, <2>5, IsOpenFile
  <2> QED
    BY <2>5, <2>6, <2>7, <2>8 DEF FilesInv
<1>3. ASSUME NEW n \in InodeNrs, n # INVALID_INODE,
             \E s \in Slots :
                /\ Gets(n, s)
                /\ LET mode == Got(n, s)[s].mode IN
                   IF mode = "none" \/ (mode = "directory" /\ n # ROOT_INODE) THEN Halts
                   ELSE /\ Takes(u, s)
                        /\ inode_table' = Got(n, s)
                        /\ fs' = IF mode = "char" THEN "tty" ELSE "up"
                        /\ UNCHANGED diskVars
      PROVE  FilesInv' /\ (Abstract!Next \/ UNCHANGED Abstract!handles)
  <2>1. n \in InodeNrs \ {0}
    BY <1>3 DEF INVALID_INODE
  <2>2. CASE Halts
    BY <1>1, <2>2 DEF Halts
  <2>3. CASE ~ Halts
    BY <1>2, <1>3, <2>1, <2>3
  <2> QED
    BY <2>2, <2>3
<1>4. CASE Returns
  BY <1>1, <1>4 DEF Returns, filesVars
<1>5. CASE Halts
  BY <1>1, <1>5 DEF Halts
<1> QED
  BY <1>3, <1>4, <1>5 DEF Open

LEMMA CloseStep ==
    ASSUME FilesInv, NEW u \in Users, do_close(u)
    PROVE  FilesInv' /\ (Abstract!Next \/ UNCHANGED Abstract!handles)
<1>1. CASE Halts
  BY <1>1, NothingDone, IsNothing DEF Halts
<1>2. ASSUME NEW e \in Fds, NEW d, NEW s, d = filp[u][e], s = f_desc_table[d], d # 0, inode_table[s].cnt # 0,
             inode_table' = [inode_table EXCEPT ![s].cnt = @ - 1],
             f_desc_table' = [f_desc_table EXCEPT ![d] = 0],
             filp' = [filp EXCEPT ![u][e] = 0],
             UNCHANGED diskVars
      PROVE  FilesInv' /\ Abstract!Next
  <2>1. d \in Descs /\ s \in Slots /\ inode_table[s].cnt > 0 /\ s # 0 /\ 0 \notin Slots /\ 0 \notin Descs
    <3>1. d \in Descs /\ s # 0
      BY <1>2 DEF FilesInv, Shapes, DescriptorsOwned
    <3> QED
      BY <1>2, <3>1, HeldCounted, Constants
  <2>2. /\ filp \in [Users -> [Fds -> Descs \cup {0}]]
        /\ f_desc_table \in [Descs -> Slots \cup {0}]
        /\ inode_table \in [Slots -> InMemory]
        /\ inodes' = inodes /\ imap' = imap
    BY <1>2 DEF FilesInv, Shapes, diskVars
  <2>3. /\ filp' \in [Users -> [Fds -> Descs \cup {0}]]
        /\ f_desc_table' \in [Descs -> Slots \cup {0}]
        /\ filp'[u][e] = 0 /\ f_desc_table'[d] = 0
        /\ \A v \in Users, f \in Fds : v # u \/ f # e => filp'[v][f] = filp[v][f]
        /\ \A c \in Descs \ {d} : f_desc_table'[c] = f_desc_table[c]
    BY <1>2, <2>1, <2>2
  <2>4. /\ inode_table' \in [Slots -> InMemory]
        /\ inode_table'[s].cnt = inode_table[s].cnt - 1
        /\ \A t \in Slots \ {s} : inode_table'[t] = inode_table[t]
        /\ \A t \in Slots : inode_table'[t].num = inode_table[t].num /\ inode_table'[t].mode = inode_table[t].mode
    <3>1. inode_table[s] \in InMemory
      BY <2>1, <2>2
    <3>2. [inode_table[s] EXCEPT !.cnt = @ - 1] \in InMemory
      BY <2>1, <3>1 DEF InMemory
    <3>3. inode_table'[s] = [inode_table[s] EXCEPT !.cnt = @ - 1]
      BY <1>2, <2>1, <2>2
    <3>4. \A t \in Slots \ {s} : inode_table'[t] = inode_table[t]
      BY <1>2, <2>1, <2>2
    <3>5. inode_table' \in [Slots -> InMemory]
      BY <1>2, <2>1, <2>2, <3>2
    <3> QED
      BY <3>1, <3>3, <3>4, <3>5 DEF InMemory
  <2>5. \A v \in Users, f \in Fds : filp[v][f] = d => v = u /\ f = e
    BY <1>2 DEF FilesInv, DescriptorsOwned
  <2>6. DescriptorsOwned'
    <3>1. \A v \in Users, f \in Fds : filp'[v][f] # 0 =>
             filp'[v][f] = filp[v][f] /\ filp'[v][f] \in Descs \ {d} /\ f_desc_table'[filp'[v][f]] # 0
      BY <2>2, <2>3, <2>5 DEF FilesInv, DescriptorsOwned
    <3>2. \A v, w \in Users, f, g \in Fds : filp'[v][f] # 0 /\ filp'[v][f] = filp'[w][g] => v = w /\ f = g
      BY <3>1 DEF FilesInv, DescriptorsOwned
    <3>3. ASSUME NEW c \in Descs, f_desc_table'[c] # 0
          PROVE  \E v \in Users, f \in Fds : filp'[v][f] = c
      <4>1. c # d
        BY <2>3, <3>3
      <4>2. PICK v \in Users, f \in Fds : filp[v][f] = c
        BY <2>3, <3>3, <4>1 DEF FilesInv, DescriptorsOwned
      <4> QED
        BY <1>2, <2>3, <4>1, <4>2
    <3> QED
      BY <3>1, <3>2, <3>3 DEF DescriptorsOwned
  <2>7. CountsCover'
    <3> SUFFICES ASSUME NEW t \in Slots
                 PROVE  inode_table'[t].cnt >= Cardinality(HeldBy(t)') + (IF t = ROOT THEN 1 ELSE 0)
      BY DEF CountsCover, HeldBy
    <3>1. inode_table[t].cnt >= Cardinality(HeldBy(t)) + (IF t = ROOT THEN 1 ELSE 0)
      BY Covered DEF FilesInv
    <3>2. IsFiniteSet(HeldBy(t)) /\ Cardinality(HeldBy(t)) \in Nat
      BY HeldFinite
    <3>3. CASE t # s
      <4>1. HeldBy(t)' = HeldBy(t)
        BY <1>2, <2>1, <2>3, <3>3 DEF HeldBy
      <4> QED
        BY <2>4, <3>1, <3>3, <4>1
    <3>4. CASE t = s
      <4>1. HeldBy(t)' = HeldBy(t) \ {d} /\ d \in HeldBy(t)
        BY <1>2, <2>1, <2>3, <3>4 DEF HeldBy
      <4>2. Cardinality(HeldBy(t)') = Cardinality(HeldBy(t)) - 1
        BY <3>2, <4>1, FS_RemoveElement
      <4>3. inode_table[t].cnt \in Nat
        BY <2>2 DEF InMemory
      <4> QED
        BY <2>4, <3>1, <3>2, <3>4, <4>2, <4>3
    <3> QED
      BY <3>3, <3>4
  <2>8. InMemoryOnce'
    <3>1. \A t \in Slots : inode_table'[t].cnt > 0 => inode_table[t].cnt > 0
      BY <2>1, <2>4
    <3> QED
      BY <2>2, <2>4, <3>1, Constants DEF FilesInv, InMemoryOnce
  <2>9. OpenOnDisk'
    <3>1. \A c \in Descs : f_desc_table'[c] # 0 => f_desc_table'[c] = f_desc_table[c] /\ f_desc_table[c] \in Slots
      BY <2>2, <2>3
    <3> QED
      BY <2>2, <2>4, <3>1 DEF FilesInv, OpenOnDisk
  <2>10. Shapes' /\ KeptOnDisk'
    BY <2>2, <2>3, <2>4 DEF FilesInv, Shapes, KeptOnDisk
  <2>11. OpenFiles[u][e] # 0 /\ OpenFiles' = [OpenFiles EXCEPT ![u][e] = 0]
    <3> DEFINE now == OpenFiles  then == OpenFiles'
    <3>1. /\ now = [v \in Users |-> [f \in Fds |-> FileOf(v, f)]]
          /\ then = [v \in Users |-> [f \in Fds |-> FileOf(v, f)']]
      BY DEF OpenFiles
    <3>2. \A v \in Users, f \in Fds : v # u \/ f # e => FileOf(v, f)' = FileOf(v, f)
      <4>1. \A v \in Users, f \in Fds : filp[v][f] # 0 => filp[v][f] \in Descs /\ f_desc_table[filp[v][f]] \in Slots
        BY <2>2 DEF FilesInv, DescriptorsOwned
      <4> QED
        BY <2>3, <2>4, <2>5, <4>1 DEF FileOf
    <3>3. FileOf(u, e)' = 0
      BY <2>3 DEF FileOf
    <3>4. FileOf(u, e) # 0
      <4>1. inode_table[s].num # 0
        BY <1>2, <2>1 DEF FilesInv, OpenOnDisk
      <4>2. FileOf(u, e) = inode_table[s].num
        BY <1>2 DEF FileOf
      <4> QED
        BY <4>1, <4>2
    <3> QED
      BY <3>1, <3>2, <3>3, <3>4
  <2> QED
    BY <2>2, <2>6, <2>7, <2>8, <2>9, <2>10, <2>11, IsClose DEF FilesInv
<1> QED
  BY <1>1, <1>2 DEF do_close

LEMMA CreateStep ==
    ASSUME FilesInv, NEW u \in Users, NEW name \in Paths, Create(u, name)
    PROVE  FilesInv' /\ (Abstract!Next \/ UNCHANGED Abstract!handles)
<1>1. CASE UNCHANGED <<tables, diskVars>>
  BY <1>1, NothingDone, IsNothing
<1>2. ASSUME NEW b \in Nat, NEW n \in InodeNrs, NEW s \in Slots, NEW new, NEW table,
             n \notin imap, Gets(n, s),
             new = [num |-> n, cnt |-> 1, mode |-> "regular", size |-> 0, start |-> b],
             table = [inode_table EXCEPT ![s] = new, ![ROOT].size = NewRootSize],
             imap' = imap \cup {n}, inode_table' = table,
             inodes' = Synced(n, new, table[ROOT]), Takes(u, s)
      PROVE  FilesInv' /\ Abstract!Next
  <2>1. PICK e \in Fds, d \in Descs :
            /\ filp[u][e] = 0 /\ f_desc_table[d] = 0
            /\ filp' = [filp EXCEPT ![u][e] = d]
            /\ f_desc_table' = [f_desc_table EXCEPT ![d] = s]
    BY <1>2 DEF Takes, IsFirst, FreeFds, FreeDescs
  <2>2. n \in InodeNrs \ {0} /\ n # ROOT_INODE /\ n \notin DOMAIN Consoles
    BY <1>2, Constants DEF FilesInv, KeptOnDisk, ROOT_INODE
  <2>3. /\ \A t \in Slots \ {s} : inode_table[t].cnt > 0 => inode_table[t].num # n
        /\ s # ROOT
        /\ inode_table[s].num = n \/ inode_table[s].cnt = 0
    <3>1. /\ \A t \in Slots \ {s} : /\ Got(n, s)[t] = inode_table[t]
                                    /\ inode_table[t].cnt > 0 => inode_table[t].num # n
          /\ n = ROOT_INODE <=> s = ROOT
          /\ \/ inode_table[s].num = n
             \/ inode_table[s].cnt = 0
      BY <1>2, <2>2, GetInode
    <3> QED
      BY <2>2, <3>1
  <2>4. HeldBy(s) = {}
    <3> SUFFICES ASSUME NEW c \in Descs, f_desc_table[c] = s PROVE FALSE
      BY DEF HeldBy
    <3>1. inode_table[s].cnt > 0 /\ inode_table[s].num \in imap
      BY HeldCounted, Constants DEF FilesInv, OpenOnDisk
    <3> QED
      BY <1>2, <2>3, <3>1
  <2>5. /\ inode_table \in [Slots -> InMemory] /\ ROOT \in Slots /\ inode_table[ROOT] \in InMemory
        /\ inodes \in [InodeNrs -> InodeOnDisk]
        /\ NewRootSize \in Nat
    BY Constants DEF FilesInv, Shapes, InMemory, NewRootSize, RootSize
  <2>6. new \in InMemory /\ [inode_table[ROOT] EXCEPT !.size = NewRootSize] \in InMemory
    BY <1>2, <2>5 DEF InMemory, Mode
  <2>7. /\ inode_table' \in [Slots -> InMemory]
        /\ inode_table'[s] = new
        /\ inode_table'[ROOT] = [inode_table[ROOT] EXCEPT !.size = NewRootSize]
        /\ \A t \in Slots \ {s, ROOT} : inode_table'[t] = inode_table[t]
    BY <1>2, <2>3, <2>5, <2>6
  <2>8. \A t \in Slots \ {s} : /\ inode_table'[t].num = inode_table[t].num
                               /\ inode_table'[t].cnt = inode_table[t].cnt
                               /\ inode_table'[t].mode = inode_table[t].mode
    BY <2>5, <2>7 DEF InMemory
  <2>9. inode_table'[s].num = n /\ inode_table'[s].cnt = 1 /\ inode_table'[s].mode = "regular"
    BY <1>2, <2>7
  <2>10. /\ filp' \in [Users -> [Fds -> Descs \cup {0}]]
         /\ f_desc_table' \in [Descs -> Slots \cup {0}]
         /\ DescriptorsOwned' /\ CountsCover' /\ OpenOnDisk'
         /\ OpenFiles[u][e] = 0 /\ OpenFiles' = [OpenFiles EXCEPT ![u][e] = n]
    <3>1. OpensAs(u, e, d, s, n)
      BY <1>2, <2>1, <2>3, <2>4, <2>7, <2>8, <2>9 DEF OpensAs
    <3> QED
      BY <2>2, <3>1, Opened
  <2>11. InMemoryOnce'
    <3>1. inode_table'[ROOT].num = ROOT_INODE
      BY <2>3, <2>5, <2>8 DEF FilesInv, InMemoryOnce
    <3>2. ASSUME NEW t \in Slots, NEW v \in Slots, inode_table'[t].cnt > 0, inode_table'[v].cnt > 0,
                 inode_table'[t].num = inode_table'[v].num
          PROVE  t = v
      BY <2>3, <2>8, <2>9, <3>2 DEF FilesInv, InMemoryOnce
    <3>3. ASSUME NEW t \in Slots, inode_table'[t].cnt > 0
          PROVE  /\ inode_table'[t].mode # "none" => inode_table'[t].num \in imap'
                 /\ inode_table'[t].num \in DOMAIN Consoles => inode_table'[t].mode = "char"
      <4>1. CASE t = s
        BY <1>2, <2>2, <2>9, <4>1
      <4>2. CASE t # s
        <5>1. /\ inode_table[t].mode # "none" => inode_table[t].num \in imap
              /\ inode_table[t].num \in DOMAIN Consoles => inode_table[t].mode = "char"
          BY <2>8, <3>3, <4>2 DEF FilesInv, InMemoryOnce
        <5>2. inode_table'[t].num = inode_table[t].num /\ inode_table'[t].mode = inode_table[t].mode
          BY <2>8, <4>2
        <5>3. imap \subseteq imap'
          BY <1>2
        <5> QED
          BY ONLY <5>1, <5>2, <5>3
      <4> QED
        BY <4>1, <4>2
    <3> QED
      BY <3>1, <3>2, <3>3 DEF InMemoryOnce
  <2>12. KeptOnDisk' /\ inodes' \in [InodeNrs -> InodeOnDisk]
    <3>1. inode_table'[ROOT] \in InMemory /\ table[ROOT] = inode_table'[ROOT]
      BY <1>2, <2>5, <2>7
    <3>2. OnDisk(new) \in InodeOnDisk /\ OnDisk(table[ROOT]) \in InodeOnDisk
      BY <2>6, <3>1 DEF OnDisk, InMemory, InodeOnDisk
    <3>3. inodes' = [inodes EXCEPT ![n] = OnDisk(new), ![ROOT_INODE] = OnDisk(table[ROOT])]
      BY <1>2 DEF Synced
    <3>4. /\ inodes' \in [InodeNrs -> InodeOnDisk]
          /\ \A m \in InodeNrs \ {n, ROOT_INODE} : inodes'[m] = inodes[m]
      BY <2>5, <3>2, <3>3
    <3>5. ROOT_INODE \in imap
      BY Constants DEF FilesInv, KeptOnDisk, ROOT_INODE
    <3>6. DOMAIN Consoles \subseteq InodeNrs \ {n, ROOT_INODE}
      BY <2>2, Constants DEF ROOT_INODE
    <3> QED
      BY <1>2, <3>4, <3>5, <3>6 DEF FilesInv, KeptOnDisk
  <2>13. Shapes'
    BY <1>2, <2>7, <2>10, <2>12 DEF FilesInv, Shapes
  <2>14. Abstract!Next
    BY <1>2, <2>2, <2>10, IsCreateFile
  <2> QED
    BY <2>10, <2>11, <2>12, <2>13, <2>14 DEF FilesInv
<1>3. CASE Halts
  BY <1>1, <1>3 DEF Halts
<1>4. CASE UNCHANGED <<tables, diskVars>>
  BY <1>1, <1>4
<1>5. ASSUME NEW b \in 0..NrSectors - 1, NEW n \in InodeNrs, alloc_imap_bit(n),
             \E s \in Slots :
                LET new == [num |-> n, cnt |-> 1, mode |-> "regular", size |-> 0, start |-> b]
                    table == [inode_table EXCEPT ![s] = new, ![ROOT].size = NewRootSize]
                IN  /\ Gets(n, s)
                    /\ imap' = imap \cup {n}
                    /\ inode_table' = table
                    /\ inodes' = Synced(n, new, table[ROOT])
                    /\ Takes(u, s)
      PROVE  FilesInv' /\ Abstract!Next
  <2>1. b \in Nat
    BY FilesAssumption
  <2>2. n \notin imap
    BY <1>5 DEF alloc_imap_bit, IsFirst
  <2>3. PICK s \in Slots :
            LET new == [num |-> n, cnt |-> 1, mode |-> "regular", size |-> 0, start |-> b]
                table == [inode_table EXCEPT ![s] = new, ![ROOT].size = NewRootSize]
            IN  /\ Gets(n, s)
                /\ imap' = imap \cup {n}
                /\ inode_table' = table
                /\ inodes' = Synced(n, new, table[ROOT])
                /\ Takes(u, s)
    BY <1>5
  <2> QED
    BY ONLY <1>2, <2>1, <2>2, <2>3, n \in InodeNrs, s \in Slots
<1> QED
  BY <1>3, <1>4, <1>5 DEF Create

LEMMA UnlinkStep ==
    ASSUME FilesInv, NEW name \in Paths, do_unlink(name)
    PROVE  FilesInv' /\ (Abstract!Next \/ UNCHANGED Abstract!handles)
<1>1. CASE UNCHANGED <<tables, diskVars>>
  BY <1>1, NothingDone, IsNothing
<1>2. ASSUME NEW n \in InodeNrs \ {0}, NEW s \in Slots, Gets(n, s), Refused(n, s)
      PROVE  FilesInv' /\ UNCHANGED Abstract!handles
  BY <1>2, RefusedKeeps, IsNothing
<1>3. ASSUME NEW n \in InodeNrs \ {0}, NEW s \in Slots, NEW i \in Nat, NEW table,
             Gets(n, s), Removable(Got(n, s)[s]),
             table = [inode_table EXCEPT ![s] = Cleared(n), ![ROOT].size = ShrunkSize(i)],
             imap' = imap \ {n}, inode_table' = table,
             inodes' = Synced(n, table[s], table[ROOT]),
             UNCHANGED <<filp, f_desc_table>>
      PROVE  FilesInv' /\ Abstract!Next
  <2>1. /\ inode_table[s].cnt = 0 /\ s # ROOT /\ n # ROOT_INODE
        /\ inodes[n].mode = "regular"
        /\ \A t \in Slots \ {s} : inode_table[t].cnt > 0 => inode_table[t].num # n
    <3>1. /\ \A t \in Slots \ {s} : /\ Got(n, s)[t] = inode_table[t]
                                    /\ inode_table[t].cnt > 0 => inode_table[t].num # n
          /\ n = ROOT_INODE <=> s = ROOT
          /\ \/ /\ inode_table[s].num = n /\ inode_table[s].cnt > 0
                /\ Got(n, s)[s] = [inode_table[s] EXCEPT !.cnt = @ + 1]
             \/ inode_table[s].cnt = 0 /\ s # ROOT /\ Got(n, s)[s] = Loaded(n)
      BY <1>3, GetInode
    <3>2. inode_table[s] \in InMemory
      BY DEF FilesInv, Shapes
    <3>3. Got(n, s)[s].mode = "regular" /\ Got(n, s)[s].cnt = 1
      BY <1>3 DEF Removable
    <3>4. ~ (inode_table[s].cnt > 0 /\ Got(n, s)[s] = [inode_table[s] EXCEPT !.cnt = @ + 1])
      BY <3>2, <3>3 DEF InMemory
    <3> QED
      BY <3>1, <3>3, <3>4 DEF Loaded
  <2>2. n \in imap \ (0..NR_CONSOLES + 1)
    <3>1. n \notin DOMAIN Consoles
      BY <2>1 DEF FilesInv, KeptOnDisk
    <3>2. n \in imap
      BY <2>1 DEF FilesInv, KeptOnDisk
    <3> QED
      BY <2>1, <3>1, <3>2, Constants DEF ROOT_INODE
  <2>3. /\ inode_table \in [Slots -> InMemory] /\ ROOT \in Slots /\ inode_table[ROOT] \in InMemory
        /\ inodes \in [InodeNrs -> InodeOnDisk]
        /\ filp' = filp /\ f_desc_table' = f_desc_table
    BY <1>3, Constants DEF FilesInv, Shapes
  <2>4. ShrunkSize(i) \in Nat
    <3>1. PICK live : live = {j \in 1..i - 1 : dir[j].inode # INVALID_INODE}
      OBVIOUS
    <3>2. IsFiniteSet(1..i - 1)
      BY FS_Interval
    <3>3. Cardinality(live) \in Nat
      BY <3>1, <3>2, FS_Subset, FS_CardinalityType
    <3>4. RootSize \in Nat
      BY <2>3 DEF RootSize, InMemory
    <3> QED
      BY <3>1, <3>3, <3>4 DEF ShrunkSize
  <2>5. Cleared(n) \in InMemory /\ [inode_table[ROOT] EXCEPT !.size = ShrunkSize(i)] \in InMemory
    BY <2>3, <2>4 DEF InMemory, Mode, Cleared
  <2>6. /\ inode_table' \in [Slots -> InMemory]
        /\ inode_table'[s] = Cleared(n)
        /\ inode_table'[ROOT] = [inode_table[ROOT] EXCEPT !.size = ShrunkSize(i)]
        /\ \A t \in Slots \ {s, ROOT} : inode_table'[t] = inode_table[t]
    BY <1>3, <2>1, <2>3, <2>5
  <2>7. \A t \in Slots \ {s} : /\ inode_table'[t].num = inode_table[t].num
                               /\ inode_table'[t].cnt = inode_table[t].cnt
                               /\ inode_table'[t].mode = inode_table[t].mode
    BY <2>3, <2>6 DEF InMemory
  <2>8. inode_table'[s].cnt = 0
    BY <2>6 DEF Cleared
  <2>9. \A d \in Descs : f_desc_table[d] # 0 => f_desc_table[d] \in Slots \ {s} /\ inode_table[f_desc_table[d]].num # n
    BY <2>1, HeldCounted
  <2>10. DescriptorsOwned'
    BY <2>3 DEF FilesInv, DescriptorsOwned
  <2>11. CountsCover'
    <3> SUFFICES ASSUME NEW t \in Slots
                 PROVE  inode_table'[t].cnt >= Cardinality(HeldBy(t)) + (IF t = ROOT THEN 1 ELSE 0)
      BY <2>3 DEF CountsCover, HeldBy
    <3>1. inode_table[t].cnt >= Cardinality(HeldBy(t)) + (IF t = ROOT THEN 1 ELSE 0)
      BY Covered DEF FilesInv
    <3> QED
      BY <2>1, <2>7, <2>8, <3>1
  <2>12. InMemoryOnce'
    <3>1. inode_table'[ROOT].num = ROOT_INODE
      BY <2>1, <2>3, <2>7 DEF FilesInv, InMemoryOnce
    <3>2. ASSUME NEW t \in Slots, NEW v \in Slots, inode_table'[t].cnt > 0, inode_table'[v].cnt > 0,
                 inode_table'[t].num = inode_table'[v].num
          PROVE  t = v
      BY <2>7, <2>8, <3>2 DEF FilesInv, InMemoryOnce
    <3>3. ASSUME NEW t \in Slots, inode_table'[t].cnt > 0
          PROVE  /\ inode_table'[t].mode # "none" => inode_table'[t].num \in imap'
                 /\ inode_table'[t].num \in DOMAIN Consoles => inode_table'[t].mode = "char"
      <4>1. t # s
        BY <2>8, <3>3
      <4>2. inode_table[t].cnt > 0 /\ inode_table[t].num # n
        BY <2>1, <2>7, <3>3, <4>1
      <4>3. /\ inode_table[t].mode # "none" => inode_table[t].num \in imap
            /\ inode_table[t].num \in DOMAIN Consoles => inode_table[t].mode = "char"
        BY <4>2 DEF FilesInv, InMemoryOnce
      <4>4. inode_table'[t].num = inode_table[t].num /\ inode_table'[t].mode = inode_table[t].mode
        BY <2>7, <4>1
      <4>5. inode_table[t].num \in imap => inode_table[t].num \in imap'
        BY <1>3, <4>2
      <4> QED
        BY ONLY <4>3, <4>4, <4>5
    <3> QED
      BY <3>1, <3>2, <3>3 DEF InMemoryOnce
  <2>13. KeptOnDisk' /\ inodes' \in [InodeNrs -> InodeOnDisk]
    <3>1. table[s] = Cleared(n) /\ table[ROOT] = inode_table'[ROOT] /\ inode_table'[ROOT] \in InMemory
      BY <1>3, <2>3, <2>6
    <3>2. OnDisk(table[s]) \in InodeOnDisk /\ OnDisk(table[ROOT]) \in InodeOnDisk /\ OnDisk(table[s]).mode = "none"
      BY <2>5, <3>1 DEF OnDisk, InMemory, InodeOnDisk, Cleared
    <3>3. inodes' = [inodes EXCEPT ![n] = OnDisk(table[s]), ![ROOT_INODE] = OnDisk(table[ROOT])]
      BY <1>3 DEF Synced
    <3>4. /\ inodes' \in [InodeNrs -> InodeOnDisk]
          /\ inodes'[n].mode = "none"
          /\ \A m \in InodeNrs \ {n, ROOT_INODE} : inodes'[m] = inodes[m]
      BY <2>1, <2>3, <3>2, <3>3, Constants
    <3>5. ROOT_INODE \in imap'
      BY <1>3, <2>1, Constants DEF FilesInv, KeptOnDisk, ROOT_INODE
    <3>6. DOMAIN Consoles \subseteq InodeNrs \ {n, ROOT_INODE}
      BY <2>2, Constants DEF ROOT_INODE
    <3> QED
      BY <1>3, <2>2, <3>4, <3>5, <3>6 DEF FilesInv, KeptOnDisk
  <2>14. OpenOnDisk'
    BY <1>3, <2>3, <2>7, <2>9 DEF FilesInv, OpenOnDisk
  <2>15. Shapes'
    BY <1>3, <2>3, <2>6, <2>13 DEF FilesInv, Shapes
  <2>16. \A u \in Users, h \in Fds : FileOf(u, h)' = FileOf(u, h) /\ FileOf(u, h) # n
    <3>1. \A u \in Users, h \in Fds : filp[u][h] # 0 => filp[u][h] \in Descs /\ f_desc_table[filp[u][h]] # 0
      BY DEF FilesInv, Shapes, DescriptorsOwned
    <3> QED
      BY <2>3, <2>7, <2>9, <3>1 DEF FileOf
  <2>17. OpenFiles' = OpenFiles /\ \A u \in Users, h \in Fds : OpenFiles[u][h] # n
    BY <2>16 DEF OpenFiles
  <2>18. Abstract!Next
    BY <1>3, <2>2, <2>17, IsRemove
  <2> QED
    BY <2>10, <2>11, <2>12, <2>13, <2>14, <2>15, <2>18 DEF FilesInv
<1>4. ASSUME NEW n \in InodeNrs \ {0}, NEW s \in Slots, Gets(n, s), Removable(Got(n, s)[s]), Removed(n, s)
      PROVE  FilesInv' /\ (Abstract!Next \/ UNCHANGED Abstract!handles)
  <2>1. CASE Halts
    BY <1>1, <2>1 DEF Halts
  <2>2. CASE ~ Halts
    <3>1. PICK i \in 1..RootSize :
             LET table == [inode_table EXCEPT ![s] = Cleared(n), ![ROOT].size = ShrunkSize(i)]
             IN  /\ FreeBits(n, Got(n, s)[s].start)
                 /\ inode_table' = table
                 /\ inodes' = Synced(n, table[s], table[ROOT])
                 /\ UNCHANGED <<fs, filp, f_desc_table>>
      BY <1>4, <2>2 DEF Removed
    <3>2. i \in Nat
      BY <3>1
    <3> QED
      BY <1>3, <1>4, <3>1, <3>2 DEF FreeBits
  <2> QED
    BY <2>1, <2>2
<1>5. CASE Returns
  BY <1>1, <1>5 DEF Returns, filesVars
<1>6. CASE Halts
  BY <1>1, <1>6 DEF Halts
<1> QED
  BY <1>2, <1>4, <1>5, <1>6 DEF do_unlink, INVALID_INODE

-----------------------------------------------------------------------------
LEMMA InitStep == FilesInit => FilesInv /\ Abstract!Start
<1> SUFFICES ASSUME FilesInit PROVE FilesInv /\ Abstract!Start
  OBVIOUS
<1> DEFINE free == [num |-> 0, cnt |-> 0, mode |-> "none", size |-> 0, start |-> 0]
           root == [num |-> ROOT_INODE, cnt |-> 1, mode |-> RootOnDisk.mode,
                    size |-> RootOnDisk.size, start |-> RootOnDisk.start]
<1>1. /\ filp = [u \in Users |-> [fd \in Fds |-> 0]]
      /\ f_desc_table = [d \in Descs |-> 0]
      /\ inode_table = [s \in Slots |-> IF s = ROOT THEN root ELSE free]
      /\ imap = 0..NR_CONSOLES + 1
      /\ inodes = [n \in InodeNrs |-> CASE n = ROOT_INODE -> RootOnDisk
                                        [] n \in DOMAIN Consoles -> [NoInode EXCEPT !.mode = "char"]
                                        [] OTHER -> NoInode]
  BY DEF FilesInit, mkfs
<1>2. free \in InMemory /\ root \in InMemory
  BY Constants DEF InMemory, RootOnDisk, Mode
<1>3. inode_table \in [Slots -> InMemory]
  BY <1>1, <1>2
<1>4. RootOnDisk \in InodeOnDisk /\ NoInode \in InodeOnDisk /\ [NoInode EXCEPT !.mode = "char"] \in InodeOnDisk
  BY Constants DEF RootOnDisk, NoInode, InodeOnDisk, Mode
<1>5. ROOT_INODE \notin DOMAIN Consoles
  BY Constants DEF ROOT_INODE
<1>6. \A n \in InodeNrs :
         /\ inodes[n] \in InodeOnDisk
         /\ n \in DOMAIN Consoles => inodes[n] = [NoInode EXCEPT !.mode = "char"]
         /\ n # ROOT_INODE /\ n \notin DOMAIN Consoles => inodes[n] = NoInode
  BY <1>1, <1>4, <1>5
<1>7. Shapes
  BY <1>1, <1>3, <1>6, Constants DEF Shapes
<1>8. DescriptorsOwned /\ OpenOnDisk
  BY <1>1 DEF DescriptorsOwned, OpenOnDisk
<1>9. CountsCover
  <2> SUFFICES ASSUME NEW s \in Slots
               PROVE  inode_table[s].cnt >= Cardinality(HeldBy(s)) + (IF s = ROOT THEN 1 ELSE 0)
    BY Covered
  <2>1. HeldBy(s) = {}
    BY <1>1, Constants DEF HeldBy
  <2>2. Cardinality(HeldBy(s)) = 0
    BY <2>1, FS_EmptySet
  <2> QED
    BY <1>1, <2>2
<1>10. InMemoryOnce
  <2>1. \A s \in Slots : inode_table[s].cnt > 0 => s = ROOT
    BY <1>1
  <2>2. inode_table[ROOT].num = ROOT_INODE /\ ROOT_INODE \in imap
    BY <1>1, Constants DEF ROOT_INODE
  <2> QED
    BY <1>5, <2>1, <2>2 DEF InMemoryOnce
<1>11. KeptOnDisk
  <2>1. \A n \in InodeNrs : inodes[n].mode # "none" => n = ROOT_INODE \/ n \in DOMAIN Consoles
    BY <1>6 DEF NoInode
  <2>2. \A n \in DOMAIN Consoles : n \in InodeNrs /\ n \in imap
    BY <1>1, Constants
  <2>3. \A n \in DOMAIN Consoles : inodes[n].mode = "char"
    BY <1>6, <2>2 DEF NoInode
  <2>4. ROOT_INODE \in imap
    BY <1>1, Constants DEF ROOT_INODE
  <2> QED
    BY <1>1, <2>1, <2>2, <2>3, <2>4 DEF KeptOnDisk
<1>12. Abstract!Start
  <2>1. imap \ {0} = 1..NR_CONSOLES + 1
    BY <1>1, Constants
  <2>2. \A u \in Users, h \in Fds : FileOf(u, h) = 0
    BY <1>1 DEF FileOf
  <2> QED
    BY <2>1, <2>2 DEF Abstract!Start
<1> QED
  BY <1>7, <1>8, <1>9, <1>10, <1>11, <1>12 DEF FilesInv

LEMMA NextStep ==
    ASSUME FilesInv, [FilesNext]_filesVars
    PROVE  FilesInv' /\ [Abstract!Next]_Abstract!handles
<1>1. ASSUME NEW u \in Users, do_open(u) PROVE FilesInv' /\ (Abstract!Next \/ UNCHANGED Abstract!handles)
  <2>1. CASE NoDescriptor(u) \/ NoAccess(u)
    BY <2>1, NothingDone, IsNothing DEF NoDescriptor, NoAccess, Halts
  <2>2. ASSUME NEW name \in Paths, CreateExisting(u, name)
        PROVE  FilesInv' /\ (Abstract!Next \/ UNCHANGED Abstract!handles)
    BY <2>2, NothingDone, IsNothing DEF CreateExisting, Returns, filesVars
  <2> QED
    BY <1>1, <2>1, <2>2, OpenStep, CreateStep DEF do_open
<1>2. CASE UNCHANGED filesVars
  BY <1>2, NothingDone, IsNothing DEF filesVars
<1> QED
  BY <1>1, <1>2, CloseStep, UnlinkStep DEF FilesNext

\* A descriptor is one user's, or nobody's and free.
THEOREM DescriptorsOwnedAlways == FilesSpec => []DescriptorsOwned
<1>1. FilesInit => FilesInv
  BY InitStep
<1>2. FilesInv /\ [FilesNext]_filesVars => FilesInv'
  BY NextStep
<1>3. FilesInv => DescriptorsOwned
  BY DEF FilesInv
<1> QED
  BY <1>1, <1>2, <1>3, PTL DEF FilesSpec

\* i_cnt covers the descriptors of an inode: none in use is ever replaced.
THEOREM CountsCoverAlways == FilesSpec => []CountsCover
<1>1. FilesInit => FilesInv
  BY InitStep
<1>2. FilesInv /\ [FilesNext]_filesVars => FilesInv'
  BY NextStep
<1>3. FilesInv => CountsCover
  BY DEF FilesInv
<1> QED
  BY <1>1, <1>2, <1>3, PTL DEF FilesSpec

\* Every request is a step of Handles or none: what a descriptor leads to stays
\* what was opened, and no open file is removed.
THEOREM HandlesImplemented == FilesSpec => ImplementsHandles
<1>1. FilesInit => FilesInv /\ Abstract!Start
  BY InitStep
<1>2. FilesInv /\ [FilesNext]_filesVars => FilesInv' /\ [Abstract!Next]_Abstract!handles
  BY NextStep
<1> QED
  BY <1>1, <1>2, PTL DEF FilesSpec, ImplementsHandles, Abstract!Spec
=============================================================================
