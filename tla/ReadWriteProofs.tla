-------------------------- MODULE ReadWriteProofs --------------------------
(***************************************************************************)
(* Which requests are answered, and where they leave the descriptors,      *)
(* for files, sectors, buffers and requests of any size.                   *)
(***************************************************************************)
EXTENDS ReadWrite, TLAPS, WellFoundedInduction

\* How far a request may go within the file.
Limit == IF call.type = "READ" THEN call.size0 ELSE Capacity

IsCall ==
    /\ call = [d |-> call.d, type |-> call.type, len |-> call.len, i |-> call.i, last |-> call.last,
               chunk |-> call.chunk, off |-> call.off, done |-> call.done, left |-> call.left,
               disk0 |-> call.disk0, size0 |-> call.size0, pos0 |-> call.pos0]
    /\ call.d \in Descs /\ call.type \in {"READ", "WRITE"}
    /\ {call.len, call.pos0, call.size0, call.i} \subseteq Nat
    /\ {call.chunk, call.off, call.done, call.left} \subseteq Int
    /\ call.pos0 <= call.size0
    /\ call.last = min(Ends, Limit) \div SECTOR_SIZE

\* The first pass is ahead.
Begun ==
    /\ call.i = call.pos0 \div SECTOR_SIZE /\ call.off = call.pos0 % SECTOR_SIZE
    /\ call.done = 0 /\ call.left = call.len
    /\ call.chunk = min(call.last - call.i + 1, FsbufSectors)
    /\ fd_pos[call.d] = call.pos0

\* There is no pass any more: the first one, if it ends, was for all sectors.
Passed ==
    /\ call.i > call.last
    /\ Ends <= Limit => call.done = call.len /\ fd_pos[call.d] = Ends

Hangs == Begun /\ call.i <= call.last

ReadWriteInv ==
    /\ pc \in {"open", "receive", "loop", "reply", "stuck", "wild"}
    /\ fd_pos \in [Descs -> Nat] /\ i_size \in Nat
    /\ \A d \in Descs : fd_pos[d] <= i_size \/ (pc = "loop" /\ d = call.d)
    /\ pc \in {"loop", "reply", "stuck", "wild"} => IsCall
    /\ pc = "loop" => call.size0 = i_size /\ (Begun \/ Passed)
    /\ pc = "reply" => Passed
    /\ pc = "stuck" => Hangs /\ ~DriveMoves(call.chunk)
    /\ pc = "wild" => Hangs /\ call.left = 0

-----------------------------------------------------------------------------
(* Sectors and bytes. *)

LEMMA Sizes ==
    /\ SECTOR_SIZE \in Nat /\ SECTOR_SIZE > 0 /\ FsbufSectors \in Nat /\ Radix \in Nat
    /\ Radix > 0 /\ Radix < FsbufSectors
    /\ Capacity \in Nat /\ Lens \subseteq Nat
  BY ReadWriteAssumption, PartitionsAssumption DEF ReadWriteAssumption, PartitionsAssumption, Capacity

\* The sector of a byte.
LEMMA SectorOf ==
    ASSUME NEW x \in Nat, NEW s \in Nat, s > 0
    PROVE  /\ x \div s \in Nat /\ x % s \in Nat /\ x % s < s
           /\ s * (x \div s) \in Nat /\ s * (x \div s) <= x
           /\ x % s = x - s * (x \div s)
<1>1. x \div s \in Nat
  OBVIOUS
<1>2. x % s \in Nat /\ x % s < s
  OBVIOUS
<1>3. x % s = x - s * (x \div s)
  OBVIOUS
<1>4. s * (x \div s) \in Nat
  BY <1>1
<1>5. s * (x \div s) <= x
  OBVIOUS
<1> QED  BY <1>1, <1>2, <1>3, <1>4, <1>5

\* Sectors are in the order of their bytes.
LEMMA SectorsInOrder ==
    ASSUME NEW x \in Nat, NEW y \in Nat, x <= y, NEW s \in Nat, s > 0
    PROVE  x \div s <= y \div s
  OBVIOUS

\* The count that the drive is given for whole sectors.
LEMMA CountOfSectors ==
    ASSUME NEW n \in Nat
    PROVE  Count(n * SECTOR_SIZE, SECTOR_SIZE) = n % Radix
<1>1. (n * SECTOR_SIZE + SECTOR_SIZE - 1) \div SECTOR_SIZE = n
  BY Sizes
<1> QED  BY <1>1 DEF Count

\* The drive moves as many as a byte can count.
LEMMA DriveMovesFew ==
    ASSUME NEW n \in 1..Radix
    PROVE  DriveMoves(n)
<1>1. Count(n * SECTOR_SIZE, SECTOR_SIZE) = n % Radix
  BY CountOfSectors, Sizes
<1>2. n % Radix = IF n = Radix THEN 0 ELSE n
  BY Sizes
<1> QED  BY <1>1, <1>2, Sizes DEF DriveMoves, Moves

-----------------------------------------------------------------------------
(* The partition tables. *)

\* A set of natural numbers that is not empty has a least element: induction
\* over the links of a chain is from this.
LEMMA LeastNumber ==
    ASSUME NEW T, T \subseteq Nat, T # {}
    PROVE  \E x \in T : \A y \in T : x <= y
<1> DEFINE R == OpToRel(<, Nat)
<1>1. IsWellFoundedOn(R, Nat)
  BY NatLessThanWellFounded
<1> HIDE DEF R
<1>2. PICK x \in T : \A y \in T : ~(<<y, x>> \in R)
  BY <1>1, WFMin
<1>3. ASSUME NEW y \in T, y < x  PROVE FALSE
  <2>1. <<y, x>> \in R
    BY <1>3 DEF R, OpToRel
  <2> QED  BY <1>2, <2>1
<1> QED  BY <1>2, <1>3

LEMMA Counts ==
    /\ Radix \in Nat /\ NR_PART_PER_DRIVE \in Nat /\ NR_SUB_PER_PART \in Nat
    /\ Radix > 0 /\ NR_PART_PER_DRIVE > 0 /\ NR_SUB_PER_PART > 0
    /\ 16 * Radix * Radix * Radix \in Nat
  BY PartitionsAssumption

\* An address that fits goes to the drive as it is.
LEMMA AddressFits ==
    ASSUME NEW s \in Addresses
    PROVE  Address(s) = s /\ s \in Nat
<1> DEFINE n == 16 * Radix * Radix * Radix
<1>1. n \in Nat /\ s \in 0..n - 1
  BY Counts DEF Addresses
<1> HIDE DEF n
<1>2. s % n = s
  BY <1>1
<1> QED  BY <1>1, <1>2 DEF Address, n

LEMMA LogicalTyped ==
    ASSUME NEW lay, FdiskMade(lay), NEW j \in Parts, NEW k \in DOMAIN lay[j].sub
    PROVE  lay[j].sub[k].table \in Addresses \ {0} /\ lay[j].sub[k].base \in Nat
<1> DEFINE S == [table : Addresses \ {0}, base : Nat, size : Nat]
<1>1. lay[j].sub \in Seq(S)
  BY DEF FdiskMade
<1> HIDE DEF S
<1>2. lay[j].sub[k] \in S
  BY <1>1
<1> QED  BY <1>2 DEF S

\* A logical partition's table, and what it has.
LEMMA TableOfLink ==
    ASSUME NEW lay, FdiskMade(lay), NEW j \in Parts, NEW k \in DOMAIN lay[j].sub
    PROVE  /\ get_part_table(lay, lay[j].sub[k].table) = Link(lay[j], k)
           /\ lay[j].sub[k].table \in Nat /\ lay[j].sub[k].table # 0
<1> DEFINE s == lay[j].sub[k].table
           links == {l \in UNION {{i} \X DOMAIN lay[i].sub : i \in Parts} :
                        lay[l[1]].sub[l[2]].table = s}
           link == CHOOSE l \in links : TRUE
<1>2. s \in Addresses /\ s # 0
  BY LogicalTyped
<1>3. <<j, k>> \in links
  OBVIOUS
<1>4. ASSUME NEW l \in links  PROVE l[1] = j /\ l[2] = k
  <2>1. l[1] \in Parts /\ l[2] \in DOMAIN lay[l[1]].sub /\ lay[l[1]].sub[l[2]].table = s
    OBVIOUS
  <2> HIDE DEF links, link
  <2>2. \A i, h \in Parts : \A m \in DOMAIN lay[i].sub, n \in DOMAIN lay[h].sub :
           lay[i].sub[m].table = lay[h].sub[n].table => i = h /\ m = n
    BY DEF FdiskMade
  <2> QED  BY <2>1, <2>2
<1> HIDE DEF links
<1>5. link \in links
  BY <1>3
<1>6. link[1] = j /\ link[2] = k /\ links # {}
  BY <1>3, <1>4, <1>5
<1>7. TableIn(lay, s) = Link(lay[link[1]], link[2])
  BY <1>2, <1>6 DEF TableIn, links
<1> QED  BY <1>2, <1>6, <1>7, AddressFits DEF get_part_table

\* The chain of an extended partition, as the driver follows it.
ChainOf(part) ==
    [i \in 0..NR_SUB_PER_PART - 1 |-> IF i < Len(part.sub) THEN part.sub[i + 1].table ELSE 0]
ChainStep(lay, base, c) ==
    [i \in 0..NR_SUB_PER_PART - 1 |->
        IF i = 0 THEN base
        ELSE IF c[i - 1] = 0 \/ get_part_table(lay, c[i - 1])[2].sys_id = NO_PART THEN 0
        ELSE base + get_part_table(lay, c[i - 1])[2].lba_start_sector]

\* Where the chain is, the next link is the table of the next partition.
LEMMA NextTable ==
    ASSUME NEW lay, FdiskMade(lay), NEW j \in Parts, lay[j].sys_id = EXT_PART,
           NEW c, NEW i \in 1..NR_SUB_PER_PART - 1, c[i - 1] = ChainOf(lay[j])[i - 1]
    PROVE  ChainStep(lay, lay[j].base, c)[i] = ChainOf(lay[j])[i]
<1> DEFINE part == lay[j]
<1>1. part.sub \in Seq([table : Addresses \ {0}, base : Nat, size : Nat]) /\ part.base \in Nat
  BY DEF FdiskMade
<1>2. i \in 0..NR_SUB_PER_PART - 1 /\ i - 1 \in 0..NR_SUB_PER_PART - 1 /\ i # 0 /\ i \in Nat
  BY Counts
<1>3. DOMAIN part.sub = 1..Len(part.sub) /\ Len(part.sub) \in Nat
  BY <1>1
<1>4. CASE i - 1 < Len(part.sub)
  <2>1. i \in DOMAIN part.sub /\ c[i - 1] = part.sub[i].table
    BY <1>2, <1>3, <1>4 DEF ChainOf
  <2>2. get_part_table(lay, c[i - 1]) = Link(part, i) /\ c[i - 1] # 0 /\ c[i - 1] \in Nat
    BY <2>1, TableOfLink
  <2>3. CASE i < Len(part.sub)
    <3>1. Link(part, i)[2] = Entry(EXT_PART, part.sub[i + 1].table - part.base, part.sub[i + 1].size)
      BY <2>3 DEF Link
    <3>2. Link(part, i)[2].sys_id # NO_PART
          /\ Link(part, i)[2].lba_start_sector = part.sub[i + 1].table - part.base
      BY <3>1, SysIdAssumption DEF Entry
    <3>3. i + 1 \in DOMAIN part.sub /\ part.sub[i + 1].table \in Nat
      BY <1>2, <1>3, <2>3, TableOfLink
    <3>4. part.base + (part.sub[i + 1].table - part.base) = part.sub[i + 1].table
      <4>1. \A b, t \in Nat : b + (t - b) = t
        OBVIOUS
      <4> QED  BY <1>1, <3>3, <4>1
    <3> QED  BY <1>2, <2>2, <2>3, <3>2, <3>4 DEF ChainStep, ChainOf
  <2>4. CASE ~(i < Len(part.sub))
    <3>1. Link(part, i)[2].sys_id = NO_PART
      BY <2>4 DEF Link, NoEntry, Entry
    <3> QED  BY <1>2, <2>2, <2>4, <3>1 DEF ChainStep, ChainOf
  <2> QED  BY <2>3, <2>4
<1>5. CASE ~(i - 1 < Len(part.sub))
  <2>1. c[i - 1] = 0 /\ ~(i < Len(part.sub))
    BY <1>2, <1>3, <1>5 DEF ChainOf
  <2> QED  BY <1>2, <2>1 DEF ChainStep, ChainOf
<1> QED  BY <1>4, <1>5

\* The chain starts with the first table.
LEMMA FirstTable ==
    ASSUME NEW lay, FdiskMade(lay), NEW j \in Parts, lay[j].sys_id = EXT_PART, NEW c
    PROVE  ChainStep(lay, lay[j].base, c)[0] = ChainOf(lay[j])[0]
<1>1. /\ lay[j].sub \in Seq([table : Addresses \ {0}, base : Nat, size : Nat])
      /\ lay[j].sub # <<>> /\ lay[j].sub[1].table = lay[j].base
  BY DEF FdiskMade
<1>2. 0 < Len(lay[j].sub) /\ 0 \in 0..NR_SUB_PER_PART - 1
  BY <1>1, Counts
<1> QED  BY <1>1, <1>2 DEF ChainStep, ChainOf

\* What fits the definition of the chain is the tables, and they fit it.
LEMMA ChainIsUnique ==
    ASSUME NEW lay, FdiskMade(lay), NEW j \in Parts, lay[j].sys_id = EXT_PART
    PROVE  /\ ChainOf(lay[j]) = ChainStep(lay, lay[j].base, ChainOf(lay[j]))
           /\ \A c : c = ChainStep(lay, lay[j].base, c) => c = ChainOf(lay[j])
<1> DEFINE N == 0..NR_SUB_PER_PART - 1
           w == ChainOf(lay[j])
<1>1. ASSUME NEW c, \A i \in 1..NR_SUB_PER_PART - 1 : c[i - 1] = w[i - 1]
      PROVE  \A i \in N : ChainStep(lay, lay[j].base, c)[i] = w[i]
  <2> SUFFICES ASSUME NEW i \in N  PROVE ChainStep(lay, lay[j].base, c)[i] = w[i]
    OBVIOUS
  <2>1. CASE i = 0
    BY <2>1, FirstTable
  <2>2. CASE i # 0
    <3>1. i \in 1..NR_SUB_PER_PART - 1
      BY <2>2, Counts
    <3> QED  BY <1>1, <3>1, NextTable
  <2> QED  BY <2>1, <2>2
<1>2. w = [i \in N |-> w[i]]
  BY DEF ChainOf
<1>3. \A c : ChainStep(lay, lay[j].base, c) = [i \in N |-> ChainStep(lay, lay[j].base, c)[i]]
  BY DEF ChainStep
<1>4. w = ChainStep(lay, lay[j].base, w)
  BY <1>1, <1>2, <1>3
<1>5. ASSUME NEW c, c = ChainStep(lay, lay[j].base, c)
      PROVE  c = w
  <2> DEFINE T == {i \in N : c[i] # w[i]}
  <2>1. CASE T = {}
    <3>1. c = [i \in N |-> c[i]]
      BY <1>3, <1>5
    <3> QED  BY <1>2, <2>1, <3>1
  <2>2. CASE T # {}
    <3>1. PICK x \in T : \A y \in T : x <= y
      <4>1. T \subseteq Nat
        BY Counts
      <4> HIDE DEF T
      <4> QED  BY <2>2, <4>1, LeastNumber
    <3>2. CASE x = 0
      BY <1>5, <3>1, <3>2, FirstTable
    <3>3. CASE x # 0
      <4>1. x \in 1..NR_SUB_PER_PART - 1 /\ x - 1 \in N /\ x - 1 < x
        BY <3>1, <3>3, Counts
      <4>2. x - 1 \notin T
        BY <3>1, <4>1
      <4>3. c[x - 1] = w[x - 1]
        BY <4>1, <4>2
      <4>4. ChainStep(lay, lay[j].base, c)[x] = w[x]
        BY <4>1, <4>3, NextTable
      <4> QED  BY <1>5, <3>1, <4>4
    <3> QED  BY <3>2, <3>3
  <2> QED  BY <2>1, <2>2
<1> QED  BY <1>4, <1>5

\* The driver finds the logical partitions of an extended one, as many as there
\* is place for.
LEMMA LogicalFound ==
    ASSUME NEW lay, FdiskMade(lay), NEW j \in Parts, lay[j].sys_id = EXT_PART,
           NEW i \in 0..NR_SUB_PER_PART - 1
    PROVE  Logical(lay, lay[j].base)[i] =
              IF i < Len(lay[j].sub) THEN Info(lay[j].sub[i + 1].base, lay[j].sub[i + 1].size)
                                     ELSE Info(0, 0)
<1> DEFINE fits(c) == c = ChainStep(lay, lay[j].base, c)
           chain == CHOOSE c : fits(c)
           w == ChainOf(lay[j])
<1>1. Logical(lay, lay[j].base) =
         [k \in DOMAIN chain |->
            IF chain[k] = 0 THEN Info(0, 0)
            ELSE LET first == get_part_table(lay, chain[k])[1]
                 IN  Info(chain[k] + first.lba_start_sector, first.sector_num)]
  BY DEF Logical, ChainStep
<1>2. fits(w)
  BY ChainIsUnique
<1> HIDE DEF fits
<1>3. fits(chain)
  BY <1>2, Zenon
<1>4. chain = w
  BY <1>3, ChainIsUnique DEF fits
<1> HIDE DEF chain
<1>5. i \in DOMAIN w /\ i \in Nat
  BY Counts DEF ChainOf
<1>6. lay[j].sub \in Seq([table : Addresses \ {0}, base : Nat, size : Nat])
  BY DEF FdiskMade
<1>7. CASE i < Len(lay[j].sub)
  <2>1. i + 1 \in DOMAIN lay[j].sub /\ w[i] = lay[j].sub[i + 1].table
    BY <1>5, <1>6, <1>7 DEF ChainOf
  <2>2. w[i] # 0 /\ w[i] \in Nat /\ get_part_table(lay, w[i]) = Link(lay[j], i + 1)
    BY <2>1, TableOfLink
  <2>3. lay[j].sub[i + 1].base \in Nat
    BY <2>1, LogicalTyped
  <2>4. /\ Link(lay[j], i + 1)[1].lba_start_sector = lay[j].sub[i + 1].base - w[i]
        /\ Link(lay[j], i + 1)[1].sector_num = lay[j].sub[i + 1].size
    BY <2>1 DEF Link, Entry
  <2>5. w[i] + (lay[j].sub[i + 1].base - w[i]) = lay[j].sub[i + 1].base
    BY <2>2, <2>3
  <2> QED  BY <1>1, <1>4, <1>5, <1>7, <2>2, <2>4, <2>5
<1>8. CASE ~(i < Len(lay[j].sub))
  <2>1. w[i] = 0
    BY <1>5, <1>8 DEF ChainOf
  <2> QED  BY <1>1, <1>4, <1>5, <1>8, <2>1
<1> QED  BY <1>7, <1>8

LEMMA Division ==
    ASSUME NEW q \in Nat, NEW r \in Nat, NEW n \in Nat, r < n
    PROVE  (q * n + r) \div n = q /\ (q * n + r) % n = r
<1>1. (q * n + r) \div n = q
  OBVIOUS
<1>2. (q * n + r) % n = r
  BY <1>1
<1> QED  BY <1>1, <1>2

\* What hd_open finds is what is there.
LEMMA AllFound ==
    ASSUME NEW lay, FdiskMade(lay), NEW j \in Parts
    PROVE  /\ Partitioned(lay).primary[j] = Info(lay[j].base, lay[j].size)
           /\ \A i \in 1..NR_SUB_PER_PART :
                 Partitioned(lay).logical[(j - 1) * NR_SUB_PER_PART + i - 1] =
                    IF i <= Len(lay[j].sub) THEN Info(lay[j].sub[i].base, lay[j].sub[i].size)
                                            ELSE Info(0, 0)
<1> DEFINE table == get_part_table(lay, 0)
<1>1. table = [k \in Parts |-> Entry(lay[k].sys_id, lay[k].base, lay[k].size)]
  <2>1. 0 \in Addresses
    <3> DEFINE n == 16 * Radix * Radix * Radix
    <3>1. n \in Nat /\ n > 0
      <4>1. Radix * Radix \in Nat /\ Radix * Radix > 0
        BY Counts
      <4>2. (Radix * Radix) * Radix > 0
        BY <4>1, Counts
      <4> QED  BY <4>2, Counts
    <3> HIDE DEF n
    <3>2. 0 \in 0..n - 1
      BY <3>1
    <3> QED  BY <3>2 DEF n, Addresses
  <2>2. Address(0) = 0
    BY <2>1, AddressFits
  <2> QED  BY <2>2 DEF get_part_table, TableIn
<1>2. /\ table[j].sys_id = lay[j].sys_id /\ table[j].lba_start_sector = lay[j].base
      /\ table[j].sector_num = lay[j].size
  BY <1>1 DEF Entry
<1> HIDE DEF table
<1>3. Partitioned(lay) =
        [primary |-> [k \in Parts |->
            IF table[k].sys_id = NO_PART THEN Info(0, 0)
            ELSE Info(table[k].lba_start_sector, table[k].sector_num)],
         logical |-> [n \in 0..NR_PART_PER_DRIVE * NR_SUB_PER_PART - 1 |->
            IF table[PartOf(n)].sys_id = EXT_PART
            THEN Logical(lay, table[PartOf(n)].lba_start_sector)[n % NR_SUB_PER_PART]
            ELSE Info(0, 0)]]
  BY DEF Partitioned, table
<1>4. Partitioned(lay).primary[j] = Info(lay[j].base, lay[j].size)
  BY <1>2, <1>3 DEF FdiskMade
<1>5. ASSUME NEW i \in 1..NR_SUB_PER_PART
      PROVE  Partitioned(lay).logical[(j - 1) * NR_SUB_PER_PART + i - 1] =
                IF i <= Len(lay[j].sub) THEN Info(lay[j].sub[i].base, lay[j].sub[i].size)
                                        ELSE Info(0, 0)
  <2>1. j - 1 \in Nat /\ i - 1 \in Nat /\ i - 1 < NR_SUB_PER_PART /\ j <= NR_PART_PER_DRIVE
        /\ i - 1 \in 0..NR_SUB_PER_PART - 1 /\ j - 1 + 1 = j /\ i - 1 + 1 = i
    BY Counts DEF Parts
  <2>2. PICK n \in Nat : n = (j - 1) * NR_SUB_PER_PART + (i - 1)
    BY <2>1, Counts
  <2>3. n = (j - 1) * NR_SUB_PER_PART + i - 1
    BY <2>1, <2>2, Counts
  <2>4. n \div NR_SUB_PER_PART = j - 1 /\ n % NR_SUB_PER_PART = i - 1
    <3>1. PICK q \in Nat : q = j - 1
      BY <2>1
    <3>2. PICK r \in Nat : r = i - 1
      BY <2>1
    <3>3. n = q * NR_SUB_PER_PART + r /\ r < NR_SUB_PER_PART /\ NR_SUB_PER_PART \in Nat
      BY <2>1, <2>2, <3>1, <3>2, Counts
    <3>4. n \div NR_SUB_PER_PART = q /\ n % NR_SUB_PER_PART = r
      BY <3>3, Division
    <3> QED  BY <3>1, <3>2, <3>4
  <2>5. n \in 0..NR_PART_PER_DRIVE * NR_SUB_PER_PART - 1
    <3>1. n < (j - 1) * NR_SUB_PER_PART + NR_SUB_PER_PART
      BY <2>1, <2>2, Counts
    <3>2. (j - 1) * NR_SUB_PER_PART + NR_SUB_PER_PART = j * NR_SUB_PER_PART
      BY <2>1, Counts
    <3>3. j * NR_SUB_PER_PART <= NR_PART_PER_DRIVE * NR_SUB_PER_PART
      BY <2>1, Counts
    <3> QED  BY <3>1, <3>2, <3>3, <2>1, Counts
  <2>6. PartOf(n) = j
    BY <2>1, <2>4 DEF PartOf
  <2>7. Partitioned(lay).logical[n] =
           IF lay[j].sys_id = EXT_PART THEN Logical(lay, lay[j].base)[i - 1] ELSE Info(0, 0)
    BY <1>2, <1>3, <2>4, <2>5, <2>6
  <2>8. CASE lay[j].sys_id = EXT_PART
    <3>1. Logical(lay, lay[j].base)[i - 1] =
             IF i - 1 < Len(lay[j].sub) THEN Info(lay[j].sub[i].base, lay[j].sub[i].size)
                                        ELSE Info(0, 0)
      BY <2>1, <2>8, LogicalFound
    <3>2. Len(lay[j].sub) \in Nat
      BY DEF FdiskMade
    <3>3. i - 1 < Len(lay[j].sub) <=> i <= Len(lay[j].sub)
      BY <3>2
    <3> QED  BY <2>3, <2>7, <2>8, <3>1, <3>3
  <2>9. CASE lay[j].sys_id # EXT_PART
    <3>1. Len(lay[j].sub) = 0
      BY <2>9 DEF FdiskMade
    <3> QED  BY <2>3, <2>7, <2>9, <3>1
  <2> QED  BY <2>8, <2>9
<1> QED  BY <1>4, <1>5

\* So the file's sectors are where the disk has them.
LEMMA RootFound ==
    ASSUME NEW lay \in Layouts
    PROVE  /\ RootOf(Partitioned(lay)).base = lay[2].sub[1].base
           /\ lay[2].sub[1].base \in Nat
           /\ lay[2].sub[1].base + FirstSector + Reach \div SECTOR_SIZE \in Addresses
<1>1. /\ FdiskMade(lay) /\ 2 \in Parts /\ lay[2].sys_id = EXT_PART
      /\ lay[2].sub[1].base + FirstSector + Reach \div SECTOR_SIZE \in Addresses
  BY ReadWriteAssumption
<1>2. lay[2].sub # <<>> /\ lay[2].sub \in Seq([table : Addresses \ {0}, base : Nat, size : Nat])
  BY <1>1 DEF FdiskMade
<1>3. 1 \in DOMAIN lay[2].sub /\ 1 <= Len(lay[2].sub)
  BY <1>2
<1>4. 1 \in 1..NR_SUB_PER_PART /\ (2 - 1) * NR_SUB_PER_PART + 1 - 1 = NR_SUB_PER_PART
  BY Counts
<1>5. Partitioned(lay).logical[NR_SUB_PER_PART] = Info(lay[2].sub[1].base, lay[2].sub[1].size)
  BY <1>1, <1>3, <1>4, AllFound
<1> QED  BY <1>1, <1>3, <1>5, LogicalTyped DEF RootOf, Info

-----------------------------------------------------------------------------
(* The request at hand. *)

\* It ends somewhere.
LEMMA EndsSomewhere ==
    ASSUME IsCall
    PROVE  Ends \in Nat /\ Limit \in Nat /\ min(Ends, Limit) \in Nat /\ call.last \in Nat
<1>1. Ends \in Nat /\ Limit \in Nat
  BY Sizes DEF IsCall, Ends, Limit
<1>2. min(Ends, Limit) \in Nat
  BY <1>1 DEF min
<1>3. call.last \in Nat
  BY <1>2, Sizes, SectorOf DEF IsCall
<1> QED  BY <1>1, <1>2, <1>3

\* The byte of the request's beginning.
LEMMA Starts ==
    ASSUME IsCall, Begun
    PROVE  /\ call.i \in Nat /\ call.off \in Nat /\ call.off < SECTOR_SIZE
           /\ call.pos0 = SECTOR_SIZE * call.i + call.off
<1>1. call.pos0 \in Nat /\ call.i = call.pos0 \div SECTOR_SIZE /\ call.off = call.pos0 % SECTOR_SIZE
  BY DEF IsCall, Begun
<1> QED  BY <1>1, SectorOf, Sizes

\* A request within the file has a sector at least, and its sectors reach to its end.
LEMMA WithinFile ==
    ASSUME IsCall, Begun, Ends <= Limit
    PROVE  call.i <= call.last /\ Ends < SECTOR_SIZE * (call.last + 1)
<1>1. min(Ends, Limit) = Ends /\ Ends \in Nat /\ call.pos0 \in Nat /\ call.pos0 <= Ends
  BY EndsSomewhere DEF min, IsCall, Ends
<1>2. call.last = Ends \div SECTOR_SIZE
  BY <1>1 DEF IsCall
<1>3. call.i <= call.last
  BY <1>1, <1>2, SectorsInOrder, Sizes DEF Begun
<1>4. Ends % SECTOR_SIZE = Ends - SECTOR_SIZE * call.last /\ Ends % SECTOR_SIZE < SECTOR_SIZE
      /\ Ends % SECTOR_SIZE \in Nat /\ call.last \in Nat
  BY <1>1, <1>2, SectorOf, Sizes
<1>5. SECTOR_SIZE * (call.last + 1) = SECTOR_SIZE * call.last + SECTOR_SIZE
      /\ SECTOR_SIZE * call.last \in Int
  BY <1>4, Sizes
<1> QED  BY <1>1, <1>3, <1>4, <1>5, Sizes

\* The drive moves all of a chunk only if it is all there is to move.
LEMMA MovedIsAll ==
    ASSUME IsCall, Hangs, DriveMoves(call.chunk)
    PROVE  call.chunk = call.last - call.i + 1
<1>1. call.last \in Nat /\ call.i \in Nat /\ call.i <= call.last
  BY EndsSomewhere DEF IsCall, Hangs
<1>2. SUFFICES ASSUME call.chunk # call.last - call.i + 1
               PROVE  FALSE
  OBVIOUS
<1>3. call.chunk = FsbufSectors
  BY <1>2 DEF Hangs, Begun, min
<1>4. Count(call.chunk * SECTOR_SIZE, SECTOR_SIZE) = FsbufSectors % Radix
  BY <1>3, CountOfSectors, Sizes
<1>5. FsbufSectors % Radix \in 0..Radix - 1
  BY Sizes
<1>6. Moves(Count(call.chunk * SECTOR_SIZE, SECTOR_SIZE)) <= Radix
  BY <1>4, <1>5, Sizes DEF Moves
<1>7. FsbufSectors <= Moves(Count(call.chunk * SECTOR_SIZE, SECTOR_SIZE))
  BY <1>3 DEF DriveMoves
<1>8. Moves(Count(call.chunk * SECTOR_SIZE, SECTOR_SIZE)) \in Int
  BY <1>4, <1>5, Sizes DEF Moves
<1> QED  BY <1>6, <1>7, <1>8, Sizes

\* If it does not, the request is a long one.
LEMMA StuckIsLong ==
    ASSUME IsCall, Hangs, ~DriveMoves(call.chunk)
    PROVE  (call.pos0 % SECTOR_SIZE) + call.len >= Radix * SECTOR_SIZE
<1>1. call.last \in Nat /\ call.i \in Nat /\ call.i <= call.last /\ call.len \in Nat /\ call.pos0 \in Nat
  BY EndsSomewhere DEF IsCall, Hangs
<1>2. call.chunk \in Nat \ {0} /\ call.chunk <= call.last - call.i + 1
  BY <1>1, Sizes DEF Hangs, Begun, min
<1>3. call.chunk > Radix
  BY <1>2, DriveMovesFew, Sizes
<1>4. call.last >= call.i + Radix
  BY <1>1, <1>2, <1>3, Sizes
<1>5. call.last * SECTOR_SIZE >= (call.i + Radix) * SECTOR_SIZE
  BY <1>1, <1>4, Sizes
<1>6. SECTOR_SIZE * call.last <= Ends
  <2>1. PICK end \in Nat : end = min(Ends, Limit)
    BY EndsSomewhere
  <2>2. end <= Ends
    BY <2>1, EndsSomewhere DEF min
  <2>3. SECTOR_SIZE * call.last <= end
    BY <2>1, SectorOf, Sizes DEF IsCall
  <2>4. SECTOR_SIZE * call.last \in Int
    BY <1>1, Sizes
  <2> QED  BY <2>2, <2>3, <2>4, EndsSomewhere
<1>7. call.pos0 = SECTOR_SIZE * call.i + call.off /\ call.off = call.pos0 % SECTOR_SIZE /\ call.off \in Nat
  BY Starts DEF Hangs, Begun
<1>8. Ends = SECTOR_SIZE * call.i + call.off + call.len
  BY <1>1, <1>7 DEF Ends
<1>9. (call.i + Radix) * SECTOR_SIZE = SECTOR_SIZE * call.i + Radix * SECTOR_SIZE
  BY <1>1, Sizes
<1> QED  BY <1>1, <1>5, <1>6, <1>7, <1>8, <1>9, Sizes

-----------------------------------------------------------------------------
(* The invariant. *)

LEMMA InitInv == ReadWriteInit => ReadWriteInv
  BY DEF ReadWriteInit, ReadWriteInv

\* What a request is when it begins.
LEMMA BeginInv ==
    ASSUME ReadWriteInv, NEW d \in Descs, NEW type \in {"READ", "WRITE"}, NEW len \in Lens,
           Begin(d, type, len)
    PROVE  ReadWriteInv'
<1>1. fd_pos[d] \in Nat /\ fd_pos[d] <= i_size /\ i_size \in Nat /\ len \in Nat
  BY Sizes DEF ReadWriteInv, Begin
<1>2. /\ pc' = "loop" /\ fd_pos' = fd_pos /\ i_size' = i_size
      /\ call'.d = d /\ call'.type = type /\ call'.len = len
      /\ call'.i = fd_pos[d] \div SECTOR_SIZE
      /\ call'.last = EndOf(type, fd_pos[d], len) \div SECTOR_SIZE
      /\ call'.chunk = min(call'.last - call'.i + 1, FsbufSectors)
      /\ call'.off = fd_pos[d] % SECTOR_SIZE /\ call'.done = 0 /\ call'.left = len
      /\ call'.size0 = i_size /\ call'.pos0 = fd_pos[d]
  BY DEF Begin, LastSector
<1>3. call' = [d |-> call'.d, type |-> call'.type, len |-> call'.len, i |-> call'.i, last |-> call'.last,
               chunk |-> call'.chunk, off |-> call'.off, done |-> call'.done, left |-> call'.left,
               disk0 |-> call'.disk0, size0 |-> call'.size0, pos0 |-> call'.pos0]
  BY DEF Begin
<1>4. EndOf(type, fd_pos[d], len) = min(Ends', Limit')
  BY <1>2 DEF EndOf, Ends, Limit, Capacity
<1>5. EndOf(type, fd_pos[d], len) \in Nat
  BY <1>1, Sizes DEF EndOf, min
<1>6. call'.i \in Nat /\ call'.off \in Nat /\ call'.last \in Nat
  BY <1>1, <1>2, <1>5, SectorOf, Sizes
<1>7. call'.chunk \in Int
  BY <1>2, <1>6, Sizes DEF min
<1>8. IsCall'
  BY <1>1, <1>2, <1>3, <1>4, <1>6, <1>7 DEF IsCall
<1>9. Begun'
  BY <1>2 DEF Begun
<1>10. fd_pos \in [Descs -> Nat] /\ \A e \in Descs : fd_pos[e] <= i_size
  BY DEF Begin, ReadWriteInv
<1> QED  BY <1>1, <1>2, <1>8, <1>9, <1>10 DEF ReadWriteInv

\* A pass that copies is the last one.
LEMMA CopyPassInv ==
    ASSUME ReadWriteInv, Pass, CopyPass
    PROVE  ReadWriteInv'
<1>1. /\ pc = "loop" /\ pc' = "loop" /\ IsCall /\ Hangs /\ DriveMoves(call.chunk)
      /\ call.size0 = i_size /\ i_size' = i_size
  <2>1. pc = "loop" /\ pc' = "loop" /\ call.i <= call.last /\ i_size' = i_size /\ DriveMoves(call.chunk)
    BY DEF Pass, CopyPass, DriveDone, CopyNothing
  <2>2. IsCall /\ (Begun \/ Passed) /\ call.size0 = i_size
    BY <2>1 DEF ReadWriteInv
  <2>3. ~Passed
    BY <2>1, <2>2, EndsSomewhere DEF Passed, IsCall
  <2> QED  BY <2>1, <2>2, <2>3 DEF Hangs
<1> DEFINE bytes == Portion(call.left, call.chunk, call.off)
<1>2. bytes > 0 /\ call' = [call EXCEPT !.i = @ + call.chunk, !.off = 0, !.done = @ + bytes, !.left = @ - bytes]
      /\ fd_pos' = [fd_pos EXCEPT ![call.d] = @ + bytes]
  BY DEF CopyPass
<1>3. call.chunk = call.last - call.i + 1 /\ call.last \in Nat /\ call.i \in Nat /\ call.len \in Nat
  BY <1>1, MovedIsAll, EndsSomewhere DEF IsCall
<1>4. call.left = call.len /\ call.done = 0 /\ call.off \in Nat /\ call.pos0 = SECTOR_SIZE * call.i + call.off
      /\ fd_pos[call.d] = call.pos0 /\ call.d \in Descs
  BY <1>1, Starts DEF Hangs, Begun, IsCall
<1>5. bytes \in Nat
  BY <1>2, <1>3, <1>4, Sizes DEF Portion, min
<1> HIDE DEF bytes
<1>6. /\ call' = [d |-> call'.d, type |-> call'.type, len |-> call'.len, i |-> call'.i, last |-> call'.last,
               chunk |-> call'.chunk, off |-> call'.off, done |-> call'.done, left |-> call'.left,
               disk0 |-> call'.disk0, size0 |-> call'.size0, pos0 |-> call'.pos0]
      /\ call'.d = call.d /\ call'.type = call.type /\ call'.len = call.len /\ call'.last = call.last
      /\ call'.chunk = call.chunk /\ call'.size0 = call.size0 /\ call'.pos0 = call.pos0
      /\ call'.i = call.i + call.chunk /\ call'.off = 0
      /\ call'.done = call.done + bytes /\ call'.left = call.left - bytes
  BY <1>1, <1>2 DEF IsCall
<1>7. IsCall'
  BY <1>1, <1>3, <1>4, <1>5, <1>6 DEF IsCall, Ends, Limit
<1>8. ASSUME Ends <= Limit  PROVE  bytes = call.len
  <2>1. Ends < SECTOR_SIZE * (call.last + 1)
    BY <1>1, <1>8, WithinFile DEF Hangs
  <2>2. SECTOR_SIZE * (call.last + 1) = SECTOR_SIZE * call.i + call.chunk * SECTOR_SIZE
    BY <1>3, Sizes
  <2>3. Ends = SECTOR_SIZE * call.i + call.off + call.len
    BY <1>3, <1>4 DEF Ends
  <2>4. call.len < call.chunk * SECTOR_SIZE - call.off
    BY <2>1, <2>2, <2>3, <1>3, <1>4, Sizes
  <2> QED  BY <2>4, <1>3, <1>4, Sizes DEF bytes, Portion, min
<1>9. Passed'
  <2>1. call'.i > call'.last
    BY <1>3, <1>6
  <2>2. Ends' = Ends /\ Limit' = Limit
    BY <1>6 DEF Ends, Limit, Capacity
  <2>3. ASSUME Ends <= Limit  PROVE  call'.done = call'.len /\ fd_pos'[call'.d] = Ends'
    BY <2>3, <2>2, <1>2, <1>3, <1>4, <1>6, <1>8 DEF ReadWriteInv, Ends
  <2> QED  BY <2>1, <2>2, <2>3 DEF Passed
<1>10. fd_pos' \in [Descs -> Nat] /\ \A d \in Descs \ {call.d} : fd_pos'[d] = fd_pos[d]
  BY <1>2, <1>4, <1>5 DEF ReadWriteInv
<1> QED  BY <1>1, <1>6, <1>7, <1>9, <1>10 DEF ReadWriteInv

\* The ends of a request, and what leaves requests alone.
LEMMA NextInv ==
    ASSUME ReadWriteInv, [ReadWriteNext]_readWriteVars
    PROVE  ReadWriteInv'
<1> SUFFICES ASSUME ReadWriteNext \/ UNCHANGED readWriteVars  PROVE ReadWriteInv'
  OBVIOUS
<1>1. CASE hd_open
  BY <1>1 DEF hd_open, ReadWriteInv
<1>2. ASSUME NEW d \in Descs, Reopen(d)  PROVE ReadWriteInv'
  BY <1>2 DEF Reopen, ReadWriteInv
<1>3. ASSUME NEW d \in Descs, NEW type \in {"READ", "WRITE"}, NEW len \in Lens, Begin(d, type, len)
      PROVE  ReadWriteInv'
  BY <1>3, BeginInv
<1>4. CASE Pass
  <2>1. CASE CopyPass
    BY <1>4, <2>1, CopyPassInv
  <2>2. CASE (DriveDone \/ CopyNothing) /\ UNCHANGED <<diskVars, disk, i_size, fd_pos, call, buf>>
    <3>1. /\ pc = "loop" /\ call.i <= call.last /\ call' = call /\ fd_pos' = fd_pos /\ i_size' = i_size
          /\ IsCall /\ Begun
      BY <1>4, <2>2, EndsSomewhere DEF Pass, ReadWriteInv, Passed, IsCall
    <3>2. fd_pos[call.d] <= i_size
      BY <3>1 DEF Begun, IsCall, ReadWriteInv
    <3>3. IsCall' /\ Begun' /\ Hangs'
      BY <3>1 DEF IsCall, Begun, Hangs, Ends, Limit, Capacity
    <3>4. CASE DriveDone
      BY <3>1, <3>2, <3>3, <3>4 DEF DriveDone, ReadWriteInv, DriveMoves
    <3>5. CASE CopyNothing
      BY <3>1, <3>2, <3>3, <3>5 DEF CopyNothing, ReadWriteInv
    <3> QED  BY <2>2, <3>4, <3>5
  <2> QED  BY <1>4, <2>1, <2>2 DEF Pass
<1>5. CASE End
  <2>1. pc = "loop" /\ call.i > call.last /\ IsCall /\ pc' = "reply" /\ fd_pos' = fd_pos /\ call' = call
    BY <1>5 DEF End, ReadWriteInv
  <2>2. Passed
    <3>1. CASE Begun
      BY <2>1, <3>1, WithinFile, EndsSomewhere DEF Passed, IsCall
    <3> QED  BY <2>1, <3>1 DEF ReadWriteInv
  <2>3. IsCall' /\ Passed'
    BY <2>1, <2>2 DEF IsCall, Passed, Ends, Limit, Capacity
  <2>4. i_size' \in Nat /\ i_size <= i_size' /\ fd_pos[call.d] <= i_size'
    BY <1>5, <2>1 DEF End, NewSize, ReadWriteInv, IsCall
  <2>5. \A d \in Descs : fd_pos[d] <= i_size'
    BY <2>4 DEF ReadWriteInv
  <2> QED  BY <2>1, <2>3, <2>4, <2>5 DEF ReadWriteInv
<1>6. CASE Reply
  BY <1>6 DEF Reply, ReadWriteInv
<1>7. CASE UNCHANGED readWriteVars
  <2>1. IsCall' <=> IsCall
    BY <1>7 DEF readWriteVars, IsCall, Ends, Limit, Capacity
  <2>2. (Begun' <=> Begun) /\ (Passed' <=> Passed) /\ (Hangs' <=> Hangs)
    BY <1>7 DEF readWriteVars, Begun, Passed, Hangs, Ends, Limit, Capacity
  <2>3. DriveMoves(call.chunk)' <=> DriveMoves(call.chunk)
    BY <1>7 DEF readWriteVars
  <2> QED  BY <1>7, <2>1, <2>2, <2>3 DEF readWriteVars, ReadWriteInv
<1> QED  BY <1>1, <1>2, <1>3, <1>4, <1>5, <1>6, <1>7 DEF ReadWriteNext

\* ReadWriteInv holds in every state.
THEOREM ReadWriteCorrect == ReadWriteSpec => []ReadWriteInv
<1>1. ReadWriteInit => ReadWriteInv
  BY InitInv
<1>2. ReadWriteInv /\ [ReadWriteNext]_readWriteVars => ReadWriteInv'
  BY NextInv
<1> QED  BY <1>1, <1>2, PTL DEF ReadWriteSpec

\* Only a request for no byte makes kmemcpy copy for ever, and only one that ends
\* as many sectors behind its first as fit the byte of the count leaves TASK_HD
\* waiting for the drive (hd.c:118), whatever the sizes.
THEOREM HangsHaveCauses == ReadWriteSpec => []HangCause
<1>1. ReadWriteInv => HangCause
  BY StuckIsLong DEF ReadWriteInv, HangCause, Hangs, Begun
<1> QED  BY <1>1, ReadWriteCorrect, PTL

\* An answered request within the file is done to its end and leaves its descriptor
\* there; and no descriptor is ever behind the end of the file between requests.
THEOREM PositionsAlwaysKept == ReadWriteSpec => []PositionsKept
<1>1. ReadWriteInv => PositionsKept
  BY DEF ReadWriteInv, PositionsKept, Passed, Limit
<1> QED  BY <1>1, ReadWriteCorrect, PTL

-----------------------------------------------------------------------------
(* The bytes. *)

\* Every request is for whole words.
WholeWords == \A len \in Lens : len % Word = 0

\* What a request within the file has done to disk and buffer.
Moved ==
    /\ call.type = "WRITE" /\ Ends <= Capacity =>
          \A k \in Bytes :
             disk[k] = IF k \in call.pos0..Ends - 1 THEN k - call.pos0 + 1 ELSE call.disk0[k]
    /\ call.type = "READ" =>
          /\ disk = call.disk0
          /\ Ends <= call.size0 => buf = [j \in 0..call.len - 1 |-> call.disk0[call.pos0 + j]]
Sized ==
    Ends <= Limit => IF call.type = "READ" THEN i_size = call.size0
                     ELSE i_size >= Ends /\ i_size >= call.size0

DataInv ==
    /\ ReadWriteTypeOK
    /\ layout \in Layouts
    /\ pc # "open" => hd_info = Partitioned(layout)
    /\ pc \in {"open", "receive"} => buf = NoBytes
    /\ pc = "loop" /\ call.i <= call.last => buf = NoBytes /\ disk = call.disk0
    /\ pc \in {"loop", "reply"} /\ call.i > call.last /\ WholeWords => Moved
    /\ pc = "reply" => Sized
    /\ pc \in {"loop", "reply", "stuck", "wild"} => call.len \in Lens /\ Ends <= Reach

\* kmemcpy copies whole words as they are.
LEMMA CopiedWords ==
    ASSUME NEW n \in Nat, n % Word = 0
    PROVE  Copied(n) = n
<1>1. Word \in Nat /\ Word > 0
  BY ReadWriteAssumption
<1>2. n \div Word \in Nat /\ n = (n \div Word) * Word
  BY <1>1
<1>3. PICK q \in Nat : q = n \div Word
  BY <1>2
<1>4. n + Word - 1 = q * Word + (Word - 1)
  BY <1>1, <1>2, <1>3
<1>5. (n + Word - 1) \div Word = q
  BY <1>1, <1>3, <1>4, Division
<1> QED  BY <1>2, <1>3, <1>5 DEF Copied

\* The drive is sent to the sector of the file that is meant.
LEMMA SectorFound ==
    ASSUME DataInv, pc # "open", NEW i \in 0..Reach \div SECTOR_SIZE
    PROVE  Sector(i) = i
<1> DEFINE b == layout[2].sub[1].base
           n == 16 * Radix * Radix * Radix
<1>1. Sector(i) = ((b + FirstSector + i) % n) - (b + FirstSector)
  BY RootFound DEF DataInv, Sector, Address
<1>2. b \in Nat /\ FirstSector \in Nat /\ Reach \div SECTOR_SIZE \in Nat
      /\ b + FirstSector + Reach \div SECTOR_SIZE \in Addresses
  <2>1. Reach \div SECTOR_SIZE \in Nat
    BY ReadWriteAssumption, Sizes, SectorOf
  <2> QED  BY <2>1, RootFound, ReadWriteAssumption DEF DataInv
<1>3. n \in Nat /\ Addresses = 0..n - 1
  BY Counts DEF Addresses
<1> HIDE DEF b, n
<1>4. PICK r \in Nat : r = Reach \div SECTOR_SIZE
  BY <1>2
<1>5. b + FirstSector + i \in 0..n - 1
  BY <1>2, <1>3, <1>4
<1>6. (b + FirstSector + i) % n = b + FirstSector + i
  BY <1>3, <1>5
<1> QED  BY <1>1, <1>2, <1>4, <1>6

LEMMA DataBegins == ReadWriteInit => DataInv
<1> SUFFICES ASSUME ReadWriteInit  PROVE DataInv
  OBVIOUS
<1>1. disk \in [Bytes -> Int]
  BY DEF ReadWriteInit, Unwritten, Other
<1> QED  BY <1>1 DEF ReadWriteInit, DataInv, ReadWriteTypeOK, NoCall

\* A request that begins has its passes ahead, if it stays within the file.
LEMMA BeginData ==
    ASSUME ReadWriteInv, DataInv, NEW d \in Descs, NEW type \in {"READ", "WRITE"},
           NEW len \in Lens, Begin(d, type, len)
    PROVE  DataInv'
<1>1. /\ pc = "receive" /\ pc' = "loop" /\ UNCHANGED <<layout, hd_info, disk, i_size, fd_pos, buf>>
      /\ call'.len = len /\ call'.done = 0 /\ call'.left = len /\ call'.type = type
      /\ call'.disk0 = disk /\ call'.size0 = i_size /\ call'.pos0 = fd_pos[d]
      /\ call'.i = fd_pos[d] \div SECTOR_SIZE
      /\ call'.last = EndOf(type, fd_pos[d], len) \div SECTOR_SIZE
      /\ fd_pos[d] + len <= Reach
      /\ len \in Nat /\ fd_pos[d] \in Nat /\ i_size \in Nat
  BY Sizes DEF Begin, diskVars, LastSector, ReadWriteInv
<1>2. ReadWriteTypeOK'
  BY <1>1 DEF DataInv, ReadWriteTypeOK
<1>3. call'.i > call'.last => Moved'
  <2>0. SUFFICES ASSUME Ends' <= Limit'  PROVE call'.i <= call'.last
    <3>1. Ends' \in Int /\ Limit' \in Int /\ call'.i \in Int /\ call'.last \in Int
      <4>1. EndOf(type, fd_pos[d], len) \in Nat
        BY <1>1, Sizes DEF EndOf, min
      <4> QED  BY <1>1, <4>1, SectorOf, Sizes DEF Ends, Limit
    <3>2. type = "WRITE" => Limit' = Capacity
      BY <1>1 DEF Limit, Capacity
    <3>3. type = "READ" => Limit' = call'.size0
      BY <1>1 DEF Limit
    <3>4. disk' = call'.disk0
      BY <1>1
    <3>5. Capacity' = Capacity
      BY DEF Capacity
    <3> QED  BY <1>1, <3>1, <3>2, <3>3, <3>4, <3>5 DEF Moved
  <2>1. EndOf(type, fd_pos[d], len) = fd_pos[d] + len
    BY <1>1, <2>0, Sizes DEF EndOf, min, Ends, Limit
  <2> QED  BY <1>1, <2>1, SectorsInOrder, Sizes
<1> QED  BY <1>1, <1>2, <1>3 DEF DataInv, Ends

\* A pass that copies copies what the request is for, if it stays within the file.
LEMMA CopyPassData ==
    ASSUME ReadWriteInv, DataInv, Pass, CopyPass
    PROVE  DataInv'
<1>1. /\ pc = "loop" /\ pc' = "loop" /\ IsCall /\ Hangs /\ DriveMoves(call.chunk)
      /\ UNCHANGED <<layout, hd_info, i_size>>
      /\ buf = NoBytes /\ disk = call.disk0 /\ Ends <= Reach /\ call.len \in Lens
  <2>1. pc = "loop" /\ pc' = "loop" /\ call.i <= call.last /\ UNCHANGED <<layout, hd_info, i_size>>
        /\ DriveMoves(call.chunk)
    BY DEF Pass, CopyPass, DriveDone, CopyNothing, diskVars
  <2>2. IsCall /\ (Begun \/ Passed)
    BY <2>1 DEF ReadWriteInv
  <2>3. ~Passed
    BY <2>1, <2>2, EndsSomewhere DEF Passed, IsCall
  <2> QED  BY <2>1, <2>2, <2>3 DEF Hangs, DataInv
<1> DEFINE bytes == Portion(call.left, call.chunk, call.off)
           from == Sector(call.i) * SECTOR_SIZE + call.off
           end == (Sector(call.i) + call.chunk) * SECTOR_SIZE
           copied == 0..Copied(bytes) - 1
<1>2. /\ bytes > 0
      /\ call' = [call EXCEPT !.i = @ + call.chunk, !.off = 0, !.done = @ + bytes, !.left = @ - bytes]
      /\ fd_pos' = [fd_pos EXCEPT ![call.d] = @ + bytes]
      /\ call.type = "READ" =>
            /\ buf' = [k \in DOMAIN buf \cup {call.done + j : j \in copied} |->
                          IF k < call.done THEN buf[k]
                          ELSE IF from + k - call.done < end THEN disk[from + k - call.done]
                          ELSE Beyond]
            /\ disk' = disk
      /\ call.type = "WRITE" =>
            /\ disk' = [k \in Bytes |->
                          IF k < end /\ k - from \in copied
                          THEN IF call.done + k - from < call.len THEN call.done + k - from + 1 ELSE Beyond
                          ELSE disk[k]]
            /\ buf' = buf
  BY DEF CopyPass
<1>3. call.chunk = call.last - call.i + 1 /\ call.last \in Nat /\ call.i \in Nat /\ call.len \in Nat
  BY <1>1, MovedIsAll, EndsSomewhere DEF IsCall
<1>4. call.left = call.len /\ call.done = 0 /\ call.off \in Nat /\ call.pos0 = SECTOR_SIZE * call.i + call.off
      /\ fd_pos[call.d] = call.pos0 /\ call.d \in Descs /\ call.pos0 \in Nat
  BY <1>1, Starts DEF Hangs, Begun, IsCall
<1>5. bytes \in Nat /\ bytes <= call.len
  BY <1>2, <1>3, <1>4, Sizes DEF Portion, min
<1>6. Sector(call.i) = call.i
  <2>1. call.pos0 <= Reach /\ Reach \in Nat
    BY <1>1, <1>3, <1>4, ReadWriteAssumption DEF Ends
  <2>2. call.i = call.pos0 \div SECTOR_SIZE
    BY <1>1 DEF Hangs, Begun
  <2>3. call.i <= Reach \div SECTOR_SIZE
    BY <1>4, <2>1, <2>2, SectorsInOrder, Sizes
  <2>4. Reach \div SECTOR_SIZE \in Nat
    BY <2>1, SectorOf, Sizes
  <2> QED  BY <1>1, <1>3, <2>3, <2>4, SectorFound
<1>7. from = call.pos0 /\ end = SECTOR_SIZE * (call.last + 1) /\ from \in Nat /\ end \in Nat
  BY <1>3, <1>4, <1>6, Sizes
<1> HIDE DEF bytes, from, end, copied
<1>8. /\ call'.d = call.d /\ call'.type = call.type /\ call'.len = call.len /\ call'.last = call.last
      /\ call'.size0 = call.size0 /\ call'.pos0 = call.pos0 /\ call'.disk0 = call.disk0
      /\ call'.i = call.i + call.chunk
      /\ call'.done = call.done + bytes /\ call'.left = call.left - bytes
  BY <1>1, <1>2 DEF IsCall
<1>9. ReadWriteTypeOK'
  <2>1. disk' \in [Bytes -> Int]
    <3>1. CASE call.type = "READ"
      BY <1>2, <3>1 DEF DataInv, ReadWriteTypeOK
    <3>2. CASE call.type = "WRITE"
      <4>1. disk \in [Bytes -> Int]
        BY DEF DataInv, ReadWriteTypeOK
      <4>2. Beyond \in Int
        BY DEF Beyond
      <4>3. \A k \in Bytes : k \in Int
        BY DEF Bytes
      <4>4. \A k \in Bytes : call.done + k - from + 1 \in Int
        BY <1>4, <1>7, <4>3
      <4> QED  BY <1>2, <3>2, <4>1, <4>2, <4>4
    <3> QED  BY <1>1, <3>1, <3>2 DEF IsCall
  <2>2. fd_pos' \in [Descs -> Nat]
    BY <1>2, <1>4, <1>5 DEF DataInv, ReadWriteTypeOK
  <2>3. call'.left \in Nat /\ call'.done + call'.left = call'.len
    BY <1>3, <1>4, <1>5, <1>8
  <2> QED  BY <1>1, <2>1, <2>2, <2>3 DEF DataInv, ReadWriteTypeOK
<1>10. ASSUME Ends <= Limit  PROVE bytes = call.len /\ Ends < end
  <2>1. Ends < SECTOR_SIZE * (call.last + 1)
    BY <1>1, <1>10, WithinFile DEF Hangs
  <2>2. SECTOR_SIZE * (call.last + 1) = SECTOR_SIZE * call.i + call.chunk * SECTOR_SIZE
    BY <1>3, Sizes
  <2>3. Ends = SECTOR_SIZE * call.i + call.off + call.len
    BY <1>3, <1>4 DEF Ends
  <2>4. call.len < call.chunk * SECTOR_SIZE - call.off
    BY <2>1, <2>2, <2>3, <1>3, <1>4, Sizes
  <2> QED  BY <2>1, <2>4, <1>3, <1>4, <1>7, Sizes DEF bytes, Portion, min
<1>11. Ends' = Ends /\ Limit' = Limit /\ Capacity' = Capacity
  BY <1>8 DEF Ends, Limit, Capacity
<1>12. ASSUME WholeWords  PROVE Moved'
  <2>1. Copied(call.len) = call.len
    BY <1>1, <1>3, <1>12, CopiedWords DEF WholeWords
  <2>2. ASSUME call.type = "WRITE", Ends <= Capacity, NEW k \in Bytes
        PROVE  disk'[k] = IF k \in call.pos0..Ends - 1 THEN k - call.pos0 + 1 ELSE call.disk0[k]
    <3>1. bytes = call.len /\ Ends < end
      BY <1>10, <2>2 DEF Limit
    <3>2. k \in Int
      BY DEF Bytes
    <3>3. (k < end /\ k - from \in copied) <=> k \in call.pos0..Ends - 1
      BY <1>3, <1>4, <1>7, <2>1, <3>1, <3>2 DEF copied, Ends
    <3>4. k \in call.pos0..Ends - 1 =>
             call.done + k - from < call.len /\ call.done + k - from + 1 = k - call.pos0 + 1
      BY <1>3, <1>4, <1>7, <3>2 DEF Ends
    <3> QED  BY <1>1, <1>2, <2>2, <3>3, <3>4
  <2>3. ASSUME call.type = "READ", Ends <= call.size0
        PROVE  buf' = [j \in 0..call.len - 1 |-> call.disk0[call.pos0 + j]]
    <3>1. bytes = call.len /\ Ends < end
      BY <1>10, <2>3 DEF Limit
    <3>2. DOMAIN buf \cup {call.done + j : j \in copied} = 0..call.len - 1
      <4>1. DOMAIN buf = {}
        BY <1>1 DEF NoBytes
      <4>2. \A j \in copied : call.done + j = j
        BY <1>4, <2>1, <3>1, <1>3 DEF copied
      <4> QED  BY <4>1, <4>2, <2>1, <3>1 DEF copied
    <3>3. ASSUME NEW k \in 0..call.len - 1
          PROVE  (IF k < call.done THEN buf[k]
                  ELSE IF from + k - call.done < end THEN disk[from + k - call.done]
                  ELSE Beyond) = call.disk0[call.pos0 + k]
      <4>1. k \in Nat /\ ~(k < call.done) /\ from + k - call.done = call.pos0 + k
        BY <1>3, <1>4, <1>7
      <4>2. call.pos0 + k < end
        BY <1>3, <1>4, <1>7, <3>1, <4>1 DEF Ends
      <4> QED  BY <1>1, <4>1, <4>2
    <3> QED  BY <1>2, <2>3, <3>2, <3>3
  <2>4. call.type = "READ" => disk' = call.disk0
    BY <1>1, <1>2
  <2> QED  BY <1>8, <1>11, <2>2, <2>3, <2>4 DEF Moved
<1>13. ~(call'.i <= call'.last)
  BY <1>3, <1>8
<1> QED  BY <1>1, <1>8, <1>9, <1>11, <1>12, <1>13 DEF DataInv

\* The size at the end is the file's, or where the request has left its descriptor.
LEMMA EndData ==
    ASSUME ReadWriteInv, ReadWriteInv', DataInv, End
    PROVE  DataInv'
<1>1. /\ pc = "loop" /\ pc' = "reply" /\ call.i > call.last /\ i_size' = NewSize
      /\ UNCHANGED <<layout, hd_info, disk, fd_pos, call, buf>>
      /\ call.size0 = i_size /\ i_size \in Nat /\ i_size' \in Nat /\ IsCall /\ Passed'
  BY DEF End, diskVars, ReadWriteInv
<1>2. Ends' = Ends /\ Limit' = Limit /\ Capacity' = Capacity /\ Ends \in Nat
  BY <1>1, EndsSomewhere DEF Ends, Limit, Capacity
<1>3. Ends <= Limit => fd_pos[call.d] = Ends
  BY <1>1, <1>2 DEF Passed
<1>4. Sized'
  BY <1>1, <1>2, <1>3 DEF Sized, Limit, NewSize
<1>5. Moved' = Moved
  BY <1>1, <1>2 DEF Moved
<1>6. ~(call.i <= call.last)
  BY <1>1, EndsSomewhere DEF IsCall
<1>7. ReadWriteTypeOK'
  BY <1>1 DEF DataInv, ReadWriteTypeOK
<1> QED  BY <1>1, <1>2, <1>4, <1>5, <1>6, <1>7 DEF DataInv

LEMMA NextData ==
    ASSUME ReadWriteInv, ReadWriteInv', DataInv, [ReadWriteNext]_readWriteVars
    PROVE  DataInv'
<1> SUFFICES ASSUME ReadWriteNext \/ UNCHANGED readWriteVars  PROVE DataInv'
  OBVIOUS
<1>1. CASE hd_open
  BY <1>1 DEF hd_open, DataInv, ReadWriteTypeOK
<1>2. ASSUME NEW d \in Descs, Reopen(d)  PROVE DataInv'
  BY <1>2 DEF Reopen, DataInv, ReadWriteTypeOK, diskVars
<1>3. ASSUME NEW d \in Descs, NEW type \in {"READ", "WRITE"}, NEW len \in Lens, Begin(d, type, len)
      PROVE  DataInv'
  BY <1>3, BeginData
<1>4. CASE Pass
  <2>1. CASE CopyPass
    BY <1>4, <2>1, CopyPassData
  <2>2. CASE (DriveDone \/ CopyNothing) /\ UNCHANGED <<diskVars, disk, i_size, fd_pos, call, buf>>
    <3>1. /\ pc = "loop" /\ pc' \in {"stuck", "wild"} /\ Ends' = Ends
          /\ UNCHANGED <<layout, hd_info, disk, i_size, fd_pos, call, buf>>
      BY <1>4, <2>2 DEF Pass, DriveDone, CopyNothing, diskVars, Ends
    <3>2. ReadWriteTypeOK'
      BY <3>1 DEF DataInv, ReadWriteTypeOK
    <3> QED  BY <3>1, <3>2 DEF DataInv
  <2> QED  BY <1>4, <2>1, <2>2 DEF Pass
<1>5. CASE End
  BY <1>5, EndData
<1>6. CASE Reply
  <2>1. /\ pc' = "receive" /\ buf' = NoBytes /\ call'.left = 0 /\ call'.done = 0 /\ call'.len = 0
        /\ UNCHANGED <<layout, hd_info, disk, i_size, fd_pos>> /\ pc = "reply"
    BY <1>6 DEF Reply, diskVars, NoCall
  <2>2. ReadWriteTypeOK'
    BY <2>1 DEF DataInv, ReadWriteTypeOK
  <2> QED  BY <2>1, <2>2 DEF DataInv
<1>7. CASE UNCHANGED readWriteVars
  <2>1. UNCHANGED <<layout, hd_info, disk, i_size, fd_pos, call, buf, pc>>
    BY <1>7 DEF readWriteVars, diskVars
  <2>2. Ends' = Ends /\ Limit' = Limit /\ Capacity' = Capacity
    BY <2>1 DEF Ends, Limit, Capacity
  <2>3. Moved' = Moved /\ Sized' = Sized /\ ReadWriteTypeOK' = ReadWriteTypeOK
    BY <2>1, <2>2 DEF Moved, Sized, ReadWriteTypeOK
  <2> QED  BY <2>1, <2>2, <2>3 DEF DataInv
<1> QED  BY <1>1, <1>2, <1>3, <1>4, <1>5, <1>6, <1>7 DEF ReadWriteNext

\* DataInv holds in every state.
THEOREM DataCorrect == ReadWriteSpec => []DataInv
<1>1. ReadWriteInit => DataInv
  BY DataBegins
<1>2. ReadWriteInv /\ ReadWriteInv' /\ DataInv /\ [ReadWriteNext]_readWriteVars => DataInv'
  BY NextData
<1> QED  BY <1>1, <1>2, ReadWriteCorrect, PTL DEF ReadWriteSpec

\* The variables of do_rdwt keep their types, and what a request has done and
\* what is left of it is all of it.
THEOREM ReadWriteTypeCorrect == ReadWriteSpec => []ReadWriteTypeOK
<1>1. DataInv => ReadWriteTypeOK
  BY DEF DataInv
<1> QED  BY <1>1, DataCorrect, PTL

\* The driver finds every partition that fdisk made, the logical ones as many as
\* there is place for, and takes nothing for a partition that is none (hd.c:245).
THEOREM PartitionsAlwaysFound == ReadWriteSpec => []PartitionsFound
<1>1. DataInv => PartitionsFound
  <2> SUFFICES ASSUME DataInv, pc # "open", NEW j \in Parts
               PROVE  /\ hd_info.primary[j] = Info(layout[j].base, layout[j].size)
                      /\ \A i \in 1..NR_SUB_PER_PART :
                            hd_info.logical[(j - 1) * NR_SUB_PER_PART + i - 1] =
                               IF i <= Len(layout[j].sub) THEN Info(layout[j].sub[i].base, layout[j].sub[i].size)
                                                          ELSE Info(0, 0)
    BY DEF PartitionsFound
  <2>1. FdiskMade(layout) /\ hd_info = Partitioned(layout)
    BY ReadWriteAssumption DEF DataInv
  <2> QED  BY <2>1, AllFound
<1> QED  BY <1>1, DataCorrect, PTL

\* If all requests are for whole words, a WRITE within the capacity changes the
\* bytes that it is for and no other, and a file is never shortened (fs.c, do_rdwt).
THEOREM WritesExact == WholeWords => (ReadWriteSpec => []WriteExact)
<1> SUFFICES ASSUME WholeWords  PROVE ReadWriteSpec => []WriteExact
  OBVIOUS
<1>1. ReadWriteInv /\ DataInv => WriteExact
  <2> SUFFICES ASSUME ReadWriteInv, DataInv, pc = "reply", call.type = "WRITE", Ends <= Capacity
               PROVE  /\ \A k \in Bytes : k < i_size \/ k >= Capacity =>
                            disk[k] = IF k \in call.pos0..Ends - 1 THEN k - call.pos0 + 1 ELSE call.disk0[k]
                      /\ i_size >= Ends /\ i_size >= call.size0
    BY DEF WriteExact
  <2>1. Moved /\ Sized
    BY DEF ReadWriteInv, Passed, DataInv
  <2> QED  BY <2>1 DEF Moved, Sized, Limit
<1> QED  BY <1>1, ReadWriteCorrect, DataCorrect, PTL

\* If all requests are for whole words, a READ within the file gives its user the
\* bytes it is for and nothing behind them, and leaves the file alone.
THEOREM ReadsExact == WholeWords => (ReadWriteSpec => []ReadExact)
<1> SUFFICES ASSUME WholeWords  PROVE ReadWriteSpec => []ReadExact
  OBVIOUS
<1>1. ReadWriteInv /\ DataInv => ReadExact
  <2> SUFFICES ASSUME ReadWriteInv, DataInv, pc = "reply", call.type = "READ", Ends <= call.size0
               PROVE  /\ buf = [j \in 0..call.len - 1 |-> call.disk0[call.pos0 + j]]
                      /\ disk = call.disk0 /\ i_size = call.size0
    BY DEF ReadExact
  <2>1. Moved /\ Sized
    BY DEF ReadWriteInv, Passed, DataInv
  <2> QED  BY <2>1 DEF Moved, Sized, Limit
<1> QED  BY <1>1, ReadWriteCorrect, DataCorrect, PTL
=============================================================================
