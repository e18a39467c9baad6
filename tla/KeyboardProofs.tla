--------------------------- MODULE KeyboardProofs ---------------------------
(***************************************************************************)
(* The keyboard's ring is a queue; and what is still in it leads           *)
(* keyboard_read to the keys that are down, so that TASK_TTY knows them    *)
(* when all is read, and is stuck only for a reason.  Proved of            *)
(* TerminalSpec for rings of any size and any keys of keymap's.            *)
(***************************************************************************)
EXTENDS Terminal, SequenceTheorems, TLAPS

-----------------------------------------------------------------------------
(* Rings. *)

\* A place of the ring is a place of the ring.
LEMMA PlaceType ==
    ASSUME NEW n \in Nat \ {0}, NEW t \in 0..(n - 1), NEW i \in 0..n
    PROVE  Place(t, i, n) \in 0..(n - 1)
  BY DEF Place

\* Less than n apart, no two places are the same.
LEMMA PlaceDiffers ==
    ASSUME NEW n \in Nat \ {0}, NEW t \in 0..(n - 1), NEW a \in 0..(n - 1), NEW b \in 0..(n - 1)
    PROVE  Place(t, a, n) = Place(t, b, n) <=> a = b
  BY DEF Place

\* One place on.
LEMMA PlaceNext ==
    ASSUME NEW n \in Nat \ {0}, NEW t \in 0..(n - 1), NEW i \in 0..(n - 1)
    PROVE  Place(t, i + 1, n) = RingNext(Place(t, i, n), n)
  BY DEF Place, RingNext

\* From the next place on, one less.
LEMMA PlaceFromNext ==
    ASSUME NEW n \in Nat \ {0}, NEW t \in 0..(n - 1), NEW i \in 1..n
    PROVE  Place(RingNext(t, n), i - 1, n) = Place(t, i, n)
  <1>1. CASE t + 1 = n
    BY <1>1 DEF Place, RingNext
  <1>2. CASE t + 1 # n
    BY <1>2 DEF Place, RingNext
  <1> QED  BY <1>1, <1>2

\* A sequence is a function.
LEMMA FunctionIsSeq ==
    ASSUME NEW S, NEW k \in Nat, NEW f \in [1..k -> S]
    PROVE  f \in Seq(S) /\ Len(f) = k
  OBVIOUS

\* The items of a ring are a sequence of what its places hold.
LEMMA ItemsOf ==
    ASSUME NEW n \in Nat \ {0}, NEW S, NEW r \in Ring(n, S)
    PROVE  /\ RingItems(r, n) \in Seq(S)
           /\ Len(RingItems(r, n)) = r.count
           /\ \A i \in 1..r.count : RingItems(r, n)[i] = r.buf[Place(r.tail, i - 1, n)]
  <1>1. r.buf \in [0..(n - 1) -> S] /\ r.tail \in 0..(n - 1) /\ r.count \in 0..n
    BY DEF Ring
  <1>2. ASSUME NEW i \in 1..r.count
        PROVE  r.buf[Place(r.tail, i - 1, n)] \in S
    <2>1. i - 1 \in 0..n
      BY <1>1
    <2> QED  BY <1>1, <2>1, PlaceType
  <1>3. RingItems(r, n) \in [1..r.count -> S]
    BY <1>2 DEF RingItems
  <1>4. \A i \in 1..r.count : RingItems(r, n)[i] = r.buf[Place(r.tail, i - 1, n)]
    BY DEF RingItems
  <1>5. r.count \in Nat
    BY <1>1
  <1> QED  BY ONLY <1>3, <1>4, <1>5, FunctionIsSeq

\* Sequences with the same elements are the same.
LEMMA SameSeq ==
    ASSUME NEW S, NEW s \in Seq(S), NEW t \in Seq(S), Len(s) = Len(t),
           \A i \in 1..Len(s) : s[i] = t[i]
    PROVE  s = t
  OBVIOUS

\* Writing at head puts an item behind the others.
LEMMA PutAppends ==
    ASSUME NEW n \in Nat \ {0}, NEW S, NEW r \in Ring(n, S), NEW x \in S,
           RingAgrees(r, n), r.count < n
    PROVE  /\ RingPut(r, n, x) \in Ring(n, S)
           /\ RingAgrees(RingPut(r, n, x), n)
           /\ RingItems(RingPut(r, n, x), n) = Append(RingItems(r, n), x)
  <1> DEFINE put == RingPut(r, n, x)
             items == RingItems(r, n)
             after == RingItems(put, n)
             longer == Append(items, x)
  <1>1. /\ r.buf \in [0..(n - 1) -> S] /\ r.head \in 0..(n - 1)
        /\ r.tail \in 0..(n - 1) /\ r.count \in 0..(n - 1)
    BY DEF Ring
  <1>2. /\ put.buf = [r.buf EXCEPT ![r.head] = x] /\ put.head = RingNext(r.head, n)
        /\ put.tail = r.tail /\ put.count = r.count + 1
    BY DEF RingPut
  <1>3. put \in Ring(n, S)
    BY <1>1 DEF Ring, RingPut, RingNext
  <1>4. RingAgrees(put, n)
    <2>1. r.head = Place(r.tail, r.count, n)
      BY DEF RingAgrees
    <2> QED  BY <1>1, <1>2, <2>1, PlaceNext DEF RingAgrees
  <1>5. /\ items \in Seq(S) /\ Len(items) = r.count
        /\ \A i \in 1..r.count : items[i] = r.buf[Place(r.tail, i - 1, n)]
    BY ItemsOf
  <1> HIDE DEF put
  <1>6. /\ after \in Seq(S) /\ Len(after) = r.count + 1
        /\ \A i \in 1..(r.count + 1) : after[i] = put.buf[Place(r.tail, i - 1, n)]
    <2>1. /\ after \in Seq(S) /\ Len(after) = put.count
          /\ \A i \in 1..put.count : after[i] = put.buf[Place(put.tail, i - 1, n)]
      BY <1>3, ItemsOf
    <2> QED  BY ONLY <1>2, <2>1
  <1>7. ASSUME NEW i \in 1..(r.count + 1)
        PROVE  after[i] = longer[i]
    <2>1. Place(r.tail, i - 1, n) \in 0..(n - 1)
      BY <1>1 DEF Place
    <2>2. (Place(r.tail, i - 1, n) = r.head) <=> (i = r.count + 1)
      <3>1. i - 1 \in 0..(n - 1) /\ (i - 1 = r.count <=> i = r.count + 1)
        BY <1>1
      <3>2. r.head = Place(r.tail, r.count, n)
        BY DEF RingAgrees
      <3> QED  BY <1>1, <3>1, <3>2, PlaceDiffers
    <2>3. put.buf[Place(r.tail, i - 1, n)]
              = IF i = r.count + 1 THEN x ELSE r.buf[Place(r.tail, i - 1, n)]
      BY ONLY <1>1, <1>2, <2>1, <2>2
    <2>4. longer[i] = IF i = r.count + 1 THEN x ELSE items[i]
      BY <1>1, <1>5
    <2> QED  BY <1>1, <1>5, <1>6, <2>3, <2>4
  <1>8. longer \in Seq(S) /\ Len(longer) = r.count + 1
    BY <1>5
  <1>9. after = longer
    <2> HIDE DEF after, longer
    <2>1. \A i \in 1..Len(after) : after[i] = longer[i]
      BY <1>6, <1>7
    <2>2. after \in Seq(S) /\ longer \in Seq(S) /\ Len(after) = Len(longer)
      BY <1>6, <1>8
    <2> QED  BY <2>1, <2>2, SameSeq
  <1> QED  BY <1>3, <1>4, <1>9 DEF put

\* Reading at tail takes the first item.
LEMMA TakeRemoves ==
    ASSUME NEW n \in Nat \ {0}, NEW S, NEW r \in Ring(n, S),
           RingAgrees(r, n), r.count > 0
    PROVE  /\ RingTake(r, n) \in Ring(n, S)
           /\ RingAgrees(RingTake(r, n), n)
           /\ RingItems(r, n) # <<>>
           /\ RingFirst(r) = Head(RingItems(r, n)) /\ RingFirst(r) \in S
           /\ RingItems(RingTake(r, n), n) = Tail(RingItems(r, n))
  <1> DEFINE took == RingTake(r, n)
             items == RingItems(r, n)
             after == RingItems(took, n)
  <1>1. /\ r.buf \in [0..(n - 1) -> S] /\ r.head \in 0..(n - 1)
        /\ r.tail \in 0..(n - 1) /\ r.count \in 1..n
    BY DEF Ring
  <1>2. /\ took.buf = r.buf /\ took.head = r.head
        /\ took.tail = RingNext(r.tail, n) /\ took.count = r.count - 1
    BY DEF RingTake
  <1>3. took \in Ring(n, S)
    BY <1>1 DEF Ring, RingTake, RingNext
  <1>4. RingAgrees(took, n)
    <2>1. r.head = Place(r.tail, r.count, n)
      BY DEF RingAgrees
    <2>2. Place(RingNext(r.tail, n), r.count - 1, n) = Place(r.tail, r.count, n)
      BY <1>1, PlaceFromNext
    <2> QED  BY <1>2, <2>1, <2>2 DEF RingAgrees
  <1>5. /\ items \in Seq(S) /\ Len(items) = r.count
        /\ \A i \in 1..r.count : items[i] = r.buf[Place(r.tail, i - 1, n)]
    BY ItemsOf
  <1>6. /\ after \in Seq(S) /\ Len(after) = r.count - 1
        /\ \A i \in 1..(r.count - 1) : after[i] = r.buf[Place(took.tail, i - 1, n)]
    BY <1>2, <1>3, ItemsOf
  <1>7. items # <<>> /\ Head(items) = items[1]
    BY <1>1, <1>5
  <1>8. RingFirst(r) = Head(items) /\ RingFirst(r) \in S
    BY <1>1, <1>5, <1>7 DEF RingFirst, Place
  <1>9. /\ Tail(items) \in Seq(S) /\ Len(Tail(items)) = r.count - 1
        /\ \A i \in 1..(r.count - 1) : Tail(items)[i] = items[i + 1]
    BY <1>1, <1>5, <1>7
  <1>10. \A i \in 1..(r.count - 1) : Place(took.tail, i - 1, n) = Place(r.tail, i, n)
    BY <1>1, <1>2, PlaceFromNext
  <1>11. ASSUME NEW i \in 1..(r.count - 1)
         PROVE  after[i] = Tail(items)[i]
    <2>1. i + 1 \in 1..r.count /\ (i + 1) - 1 = i
      BY <1>1
    <2>2. items[i + 1] = r.buf[Place(r.tail, i, n)]
      BY <1>5, <2>1
    <2> QED  BY <1>6, <1>9, <1>10, <2>2
  <1>12. after = Tail(items)
    BY ONLY <1>6, <1>9, <1>11, SameSeq
  <1> QED  BY <1>3, <1>4, <1>7, <1>8, <1>12

\* A new ring is in order, and empty.
LEMMA EmptyHasNone ==
    ASSUME NEW n \in Nat \ {0}, NEW S, NEW x \in S
    PROVE  /\ EmptyRing(n, x) \in Ring(n, S)
           /\ RingAgrees(EmptyRing(n, x), n)
           /\ RingItems(EmptyRing(n, x), n) = <<>>
  BY DEF EmptyRing, Ring, RingAgrees, RingItems, Place
-----------------------------------------------------------------------------
(* The keyboard's ring. *)

RingInv ==
    /\ kb_in \in Ring(KB_IN_BYTES, Byte)
    /\ RingAgrees(kb_in, KB_IN_BYTES)
    /\ sending \in Seq(Byte)

\* What a step does to the ring: nothing, a byte read, a byte come, or something
\* more to send.
LEMMA RingActions ==
    ASSUME [TerminalNext]_terminalVars
    PROVE  \/ get_byte_from_kbuf /\ UNCHANGED sending
           \/ ByteComes
           \/ /\ UNCHANGED <<kb_in, got>>
              /\ \/ UNCHANGED sending
                 \/ sending' = Append(sending, KB_ACK)
                 \/ \E k \in Keys : sending' = sending \o codes[k].make
                                    \/ sending' = sending \o codes[k].break
  <1> DEFINE Kept == UNCHANGED <<kb_in, got, sending>>
             Read == get_byte_from_kbuf /\ UNCHANGED sending
  <1>1. CASE UNCHANGED terminalVars
    BY <1>1 DEF terminalVars, keyboardVars
  <1>2. CASE task_tty
    <2>1. CASE tty_do_read
      BY <2>1 DEF tty_do_read, FirstByte, deviceVars, keyboardVars
    <2>2. CASE ReadOn
      <3>1. SecondByte \/ NextByte => Read
        BY DEF SecondByte, NextByte, deviceVars
      <3>2. set_leds => Kept \/ (sending' = Append(sending, KB_ACK) /\ UNCHANGED <<kb_in, got>>)
        BY DEF set_leds, OutByte, kb_ack, deviceVars
      <3> QED  BY <2>2, <3>1, <3>2 DEF ReadOn, keyboard_read_on
    <2>3. CASE NothingRead
      BY <2>3 DEF NothingRead, keyboardVars
    <2>4. CASE tty_input_process
      BY <2>4 DEF tty_input_process, deviceVars
    <2>5. CASE NothingToWrite \/ tty_do_write
      BY <2>5 DEF NothingToWrite, tty_do_write, keyboardVars
    <2>6. CASE out_char
      BY <2>6 DEF out_char, OutStarts, OutTest, OutCell, OutLoad, OutStore, OutLoop, OutEnds,
                  Still, keyboardVars
    <2>7. CASE scroll_screen \/ flush \/ FlushLoad \/ FlushSet
      BY <2>7 DEF scroll_screen, ScrollTest, ScrollLoad, ScrollStore, flush, FlushLoad, FlushSet,
                  Still, keyboardVars
    <2> QED  BY <1>2, <2>1, <2>2, <2>3, <2>4, <2>5, <2>6, <2>7 DEF task_tty
  <1>3. CASE PrintedByProcess
    BY <1>3 DEF PrintedByProcess, sys_write, keyboardVars
  <1>4. CASE Typed
    BY <1>4 DEF Typed, Device, Type, Press, Release, Stroke
  <1> QED  BY <1>1, <1>2, <1>3, <1>4 DEF TerminalNext

\* RingInv holds of every step, and each step is one of the queue's.
LEMMA RingStep ==
    ASSUME RingInv, [TerminalNext]_terminalVars
    PROVE  RingInv' /\ [Queue!FifoNext]_<<RingItems(kb_in, KB_IN_BYTES), got>>
  <1> DEFINE items == RingItems(kb_in, KB_IN_BYTES)
  <1> USE DEF RingInv
  <1>0. KB_IN_BYTES \in Nat \ {0}
    BY KeyboardAssumption
  <1>1. CASE get_byte_from_kbuf /\ UNCHANGED sending
    <2>1. kb_in.count > 0 /\ got' = RingFirst(kb_in) /\ kb_in' = RingTake(kb_in, KB_IN_BYTES)
      BY <1>1 DEF get_byte_from_kbuf
    <2>2. /\ RingTake(kb_in, KB_IN_BYTES) \in Ring(KB_IN_BYTES, Byte)
          /\ RingAgrees(RingTake(kb_in, KB_IN_BYTES), KB_IN_BYTES)
          /\ items # <<>> /\ RingFirst(kb_in) = Head(items)
          /\ RingItems(RingTake(kb_in, KB_IN_BYTES), KB_IN_BYTES) = Tail(items)
      BY <1>0, <2>1, TakeRemoves
    <2>3. Queue!Go
      BY <2>1, <2>2 DEF Queue!Go
    <2> QED  BY <1>1, <2>1, <2>2, <2>3 DEF Queue!FifoNext
  <1>2. CASE ByteComes
    <2> DEFINE c == Head(sending)
    <2>1. c \in Byte /\ Tail(sending) \in Seq(Byte) /\ sending' = Tail(sending)
      BY <1>2 DEF ByteComes
    <2>2. CASE kb_in.count < KB_IN_BYTES
      <3>1. kb_in' = RingPut(kb_in, KB_IN_BYTES, c) /\ got' = got
        BY <1>2, <2>2 DEF ByteComes, keyboard_handler
      <3>2. /\ RingPut(kb_in, KB_IN_BYTES, c) \in Ring(KB_IN_BYTES, Byte)
            /\ RingAgrees(RingPut(kb_in, KB_IN_BYTES, c), KB_IN_BYTES)
            /\ RingItems(RingPut(kb_in, KB_IN_BYTES, c), KB_IN_BYTES) = Append(items, c)
        BY <1>0, <2>1, <2>2, PutAppends
      <3>3. Len(items) < KB_IN_BYTES
        BY <1>0, <2>2, ItemsOf
      <3>4. Queue!Come(c)
        BY <3>1, <3>2, <3>3 DEF Queue!Come
      <3> QED  BY <2>1, <3>1, <3>2, <3>4 DEF Queue!FifoNext
    <2>3. CASE ~(kb_in.count < KB_IN_BYTES)
      BY <1>2, <2>1, <2>3 DEF ByteComes, keyboard_handler
    <2> QED  BY <2>2, <2>3
  <1>3. CASE UNCHANGED <<kb_in, got>> /\ sending' \in Seq(Byte)
    BY <1>3
  <1>4. Append(sending, KB_ACK) \in Seq(Byte)
    BY DEF KB_ACK, Byte
  <1>5. ASSUME NEW k \in Keys
        PROVE  sending \o codes[k].make \in Seq(Byte) /\ sending \o codes[k].break \in Seq(Byte)
    <2>1. codes[k].make \in Seq(Byte) /\ codes[k].break \in Seq(Byte)
      BY KeyboardAssumption
    <2> QED  BY <2>1
  <1> QED  BY <1>1, <1>2, <1>3, <1>4, <1>5, RingActions

\* Codes are read in the order in which they came, once each, and only those
\* that come while the ring is full are dropped, for a ring of any size.
THEOREM RingIsAlwaysFifo == TerminalSpec => RingIsFifo
  <1>1. TerminalInit => RingInv /\ Queue!FifoInit
    <2>1. KB_IN_BYTES \in Nat \ {0} /\ 0 \in Byte
      BY KeyboardAssumption DEF Byte
    <2> QED  BY <2>1, EmptyHasNone DEF TerminalInit, KeyboardInit, RingInv, Queue!FifoInit
  <1>2. RingInv /\ [TerminalNext]_terminalVars
            => RingInv' /\ [Queue!FifoNext]_<<RingItems(kb_in, KB_IN_BYTES), got>>
    BY RingStep
  <1> QED  BY <1>1, <1>2, PTL DEF TerminalSpec, RingIsFifo, Queue!FifoSpec

-----------------------------------------------------------------------------
(* What keyboard_read makes of the bytes that are still to come. *)

\* What a step does to the keyboard: a call of keyboard_read, a key taken from it,
\* a stroke or an interrupt.
LEMMA KeyboardActions ==
    ASSUME [TerminalNext]_terminalVars
    PROVE  \/ UNCHANGED keyboardVars
           \/ FirstByte
           \/ keyboard_read_on
           \/ KeyTaken /\ UNCHANGED <<kb_in, modifiers, locks, got, scan_code, rest, deviceVars>>
           \/ Device
  <1>1. CASE UNCHANGED terminalVars
    BY <1>1 DEF terminalVars
  <1>2. CASE tty_do_read \/ ReadOn \/ NothingRead
    BY <1>2 DEF tty_do_read, ReadOn, NothingRead
  <1>3. CASE tty_input_process
    BY <1>3 DEF tty_input_process
  <1>4. CASE NothingToWrite \/ tty_do_write
    BY <1>4 DEF NothingToWrite, tty_do_write
  <1>5. CASE out_char
    BY <1>5 DEF out_char, OutStarts, OutTest, OutCell, OutLoad, OutStore, OutLoop, OutEnds, Still
  <1>6. CASE scroll_screen \/ flush \/ FlushLoad \/ FlushSet
    BY <1>6 DEF scroll_screen, ScrollTest, ScrollLoad, ScrollStore, flush, FlushLoad, FlushSet, Still
  <1>7. CASE PrintedByProcess \/ Typed
    BY <1>7 DEF PrintedByProcess, sys_write, Typed
  <1> QED  BY <1>1, <1>2, <1>3, <1>4, <1>5, <1>6, <1>7 DEF TerminalNext, task_tty

\* A reader: where it is in a sequence, and the keys it takes to be down or on.
AtIdle(s) == s.at = "idle" /\ s.scan_code = 0 /\ s.rest = <<>>

At(mods, lks) == [at |-> "idle", scan_code |-> 0, rest |-> <<>>, modifiers |-> mods, locks |-> lks]
ModifiersAfter(k, make, mods) ==
    IF k \notin Modifiers THEN mods ELSE IF make THEN mods \cup {k} ELSE mods \ {k}
LocksAfter(k, make, lks) == IF k \in Locks /\ make THEN Toggled(lks, k) ELSE lks

ToKey(s, code, e0) ==
    LET k == KeyUnder(code, e0, s.modifiers, s.locks) IN
    At(ModifiersAfter(k, Make(code), s.modifiers), LocksAfter(k, Make(code), s.locks))
InSequence(s, code, follows) ==
    [at |-> "sequence", scan_code |-> code, rest |-> follows, modifiers |-> s.modifiers, locks |-> s.locks]

BehindE0(s) ==
    [at |-> "E0", scan_code |-> s.scan_code, rest |-> s.rest, modifiers |-> s.modifiers, locks |-> s.locks]

\* It reads a byte: the first of a call, the one behind 0xE0, or one of a sequence.
ReadFirst(s, b) ==
    IF b = \hE1 THEN InSequence(s, \hE1, <<\h1D, \h45, \hE1, \h9D, \hC5>>)
    ELSE IF b = \hE0 THEN BehindE0(s) ELSE ToKey(s, b, FALSE)
ReadSecond(s, b) ==
    IF b = \h2A THEN InSequence(s, \h2A, <<\hE0, \h37>>)
    ELSE IF b = \hB7 THEN InSequence(s, \hB7, <<\hE0, \hAA>>) ELSE ToKey(s, b, TRUE)
ReadNext(s, b) ==
    IF b # Head(s.rest) THEN ToKey(s, s.scan_code, s.scan_code # \hE1)
    ELSE IF Len(s.rest) > 1 THEN InSequence(s, s.scan_code, Tail(s.rest)) ELSE At(s.modifiers, s.locks)
Read(s, b) ==
    IF s.at = "idle" THEN ReadFirst(s, b) ELSE IF s.at = "E0" THEN ReadSecond(s, b) ELSE ReadNext(s, b)

\* f[i] is where it is behind the first i of bytes, from a to b; an ACK it meets
\* between the keys only.
Run(f, a, bytes, b) ==
    /\ DOMAIN f = 0..Len(bytes) /\ f[0] = a /\ f[Len(bytes)] = b
    /\ \A i \in 1..Len(bytes) : f[i] = Read(f[i - 1], bytes[i]) /\ (bytes[i] = KB_ACK => AtIdle(f[i - 1]))
Leads(a, bytes, b) == \E f : Run(f, a, bytes, b)

\* No byte leads nowhere.
LEMMA LeadsNowhere ==
    ASSUME NEW a, NEW b
    PROVE  Leads(a, <<>>, b) <=> a = b
  <1>1. ASSUME a = b
        PROVE  Leads(a, <<>>, b)
    <2>1. Run([i \in {0} |-> a], a, <<>>, b)
      BY <1>1 DEF Run
    <2> QED  BY <2>1 DEF Leads
  <1>2. ASSUME Leads(a, <<>>, b)
        PROVE  a = b
    BY <1>2 DEF Leads, Run
  <1> QED  BY <1>1, <1>2

\* One byte more at the end.
LEMMA LeadsOn ==
    ASSUME NEW a, NEW bytes \in Seq(Byte), NEW b, Leads(a, bytes, b),
           NEW x \in Byte, x = KB_ACK => AtIdle(b)
    PROVE  Leads(a, Append(bytes, x), Read(b, x))
  <1>1. PICK f : Run(f, a, bytes, b)
    BY DEF Leads
  <1> DEFINE n == Len(bytes)
             longer == Append(bytes, x)
             g == [i \in 0..n + 1 |-> IF i <= n THEN f[i] ELSE Read(b, x)]
  <1>2. /\ n \in Nat /\ Len(longer) = n + 1 /\ longer[n + 1] = x
        /\ \A i \in 1..n : longer[i] = bytes[i]
    OBVIOUS
  <1>3. /\ DOMAIN g = 0..n + 1 /\ \A i \in 0..n : g[i] = f[i]
        /\ g[n + 1] = Read(b, x)
    BY <1>2
  <1> HIDE DEF g, longer
  <1>4. ASSUME NEW i \in 1..n + 1
        PROVE  g[i] = Read(g[i - 1], longer[i]) /\ (longer[i] = KB_ACK => AtIdle(g[i - 1]))
    <2>1. CASE i = n + 1
      <3>1. i - 1 = n /\ g[n] = b
        BY <1>1, <1>2, <1>3, <2>1 DEF Run
      <3> QED  BY <1>2, <1>3, <2>1, <3>1
    <2>2. CASE i # n + 1
      <3>1. i \in 1..n /\ i - 1 \in 0..n /\ i \in 0..n
        BY <1>2, <2>2
      <3>2. f[i] = Read(f[i - 1], bytes[i]) /\ (bytes[i] = KB_ACK => AtIdle(f[i - 1]))
        BY <1>1, <3>1 DEF Run
      <3> QED  BY <1>2, <1>3, <3>1, <3>2
    <2> QED  BY <2>1, <2>2
  <1>5. g[0] = a
    BY <1>1, <1>2, <1>3 DEF Run
  <1>6. Run(g, a, longer, Read(b, x))
    BY <1>2, <1>3, <1>4, <1>5 DEF Run
  <1> QED  BY <1>6 DEF Leads, longer

\* What leads somewhere leads there over any place between.
LEMMA LeadsOver ==
    ASSUME NEW a, NEW s \in Seq(Byte), NEW t \in Seq(Byte), NEW c, Leads(a, s \o t, c)
    PROVE  \E b : Leads(a, s, b) /\ Leads(b, t, c)
  <1>1. PICK f : Run(f, a, s \o t, c)
    BY DEF Leads
  <1> DEFINE n == Len(s)
             m == Len(t)
             st == s \o t
             g == [i \in 0..n |-> f[i]]
             h == [i \in 0..m |-> f[n + i]]
  <1>2. /\ n \in Nat /\ m \in Nat /\ Len(st) = n + m
        /\ \A i \in 1..n : st[i] = s[i]
        /\ \A i \in 1..m : st[n + i] = t[i]
    OBVIOUS
  <1>3. /\ DOMAIN f = 0..n + m /\ f[0] = a /\ f[n + m] = c
        /\ \A i \in 1..n + m : f[i] = Read(f[i - 1], st[i]) /\ (st[i] = KB_ACK => AtIdle(f[i - 1]))
    BY <1>1, <1>2 DEF Run
  <1> HIDE DEF st
  <1>4. Run(g, a, s, f[n])
    <2>1. DOMAIN g = 0..n /\ g[0] = a /\ g[n] = f[n]
      BY <1>2, <1>3
    <2>2. ASSUME NEW i \in 1..n
          PROVE  g[i] = Read(g[i - 1], s[i]) /\ (s[i] = KB_ACK => AtIdle(g[i - 1]))
      <3>1. i \in 1..n + m /\ i - 1 \in 0..n /\ i \in 0..n
        BY <1>2
      <3> QED  BY <1>2, <1>3, <3>1
    <2> QED  BY <2>1, <2>2 DEF Run
  <1>5. Run(h, f[n], t, c)
    <2>1. DOMAIN h = 0..m /\ h[0] = f[n] /\ h[m] = c
      BY <1>2, <1>3
    <2>2. ASSUME NEW i \in 1..m
          PROVE  h[i] = Read(h[i - 1], t[i]) /\ (t[i] = KB_ACK => AtIdle(h[i - 1]))
      <3>1. n + i \in 1..n + m /\ i - 1 \in 0..m /\ i \in 0..m /\ n + i - 1 = n + (i - 1)
        BY <1>2
      <3>2. h[i] = f[n + i] /\ h[i - 1] = f[n + i - 1]
        BY <3>1
      <3> HIDE DEF h
      <3>3. f[n + i] = Read(f[n + i - 1], st[n + i]) /\ (st[n + i] = KB_ACK => AtIdle(f[n + i - 1]))
        BY <1>3, <3>1
      <3>4. st[n + i] = t[i]
        BY <1>2
      <3> QED  BY <3>2, <3>3, <3>4
    <2> QED  BY <2>1, <2>2 DEF Run
  <1> QED  BY <1>4, <1>5 DEF Leads

LEMMA LeadsThrough ==
    ASSUME NEW a, NEW s \in Seq(Byte), NEW b, NEW t \in Seq(Byte), NEW c, Leads(a, s, b), Leads(b, t, c)
    PROVE  Leads(a, s \o t, c)
  <1>1. PICK g : Run(g, a, s, b)
    BY DEF Leads
  <1>2. PICK h : Run(h, b, t, c)
    BY DEF Leads
  <1> DEFINE n == Len(s)
             m == Len(t)
             st == s \o t
             f == [i \in 0..n + m |-> IF i <= n THEN g[i] ELSE h[i - n]]
  <1>3. /\ n \in Nat /\ m \in Nat /\ Len(st) = n + m
        /\ \A i \in 1..n : st[i] = s[i]
        /\ \A i \in n + 1..n + m : st[i] = t[i - n]
    OBVIOUS
  <1>4. g[n] = b /\ h[0] = b /\ g[0] = a /\ h[m] = c
    BY <1>1, <1>2 DEF Run
  <1>5. /\ DOMAIN f = 0..n + m /\ \A i \in 0..n : f[i] = g[i]
        /\ \A i \in n..n + m : f[i] = h[i - n]
    BY <1>3, <1>4
  <1> HIDE DEF f, st
  <1>6. ASSUME NEW i \in 1..n + m
        PROVE  f[i] = Read(f[i - 1], st[i]) /\ (st[i] = KB_ACK => AtIdle(f[i - 1]))
    <2>1. CASE i <= n
      <3>1. i \in 1..n /\ i \in 0..n /\ i - 1 \in 0..n
        BY <1>3, <2>1
      <3> QED  BY <1>1, <1>3, <1>5, <3>1 DEF Run
    <2>2. CASE ~(i <= n)
      <3>1. i - n \in 1..m /\ i \in n..n + m /\ i - 1 \in n..n + m /\ i - 1 - n = i - n - 1 /\ i \in n + 1..n + m
        BY <1>3, <2>2
      <3>2. h[i - n] = Read(h[i - n - 1], t[i - n]) /\ (t[i - n] = KB_ACK => AtIdle(h[i - n - 1]))
        BY <1>2, <3>1 DEF Run
      <3> QED  BY <1>3, <1>5, <3>1, <3>2
    <2> QED  BY <2>1, <2>2
  <1>7. f[0] = a /\ f[n + m] = c
    <2>1. 0 \in 0..n /\ n + m \in n..n + m /\ n + m - n = m
      BY <1>3
    <2> QED  BY <1>4, <1>5, <2>1
  <1>8. Run(f, a, st, c)
    BY <1>3, <1>5, <1>6, <1>7 DEF Run
  <1> QED  BY <1>8 DEF Leads, st

\* The first byte.
LEMMA LeadsFirst ==
    ASSUME NEW a, NEW bytes \in Seq(Byte), NEW c, bytes # <<>>, Leads(a, bytes, c)
    PROVE  /\ Leads(Read(a, Head(bytes)), Tail(bytes), c)
           /\ Head(bytes) = KB_ACK => AtIdle(a)
  <1> DEFINE x == Head(bytes)
  <1>1. x \in Byte /\ <<x>> \in Seq(Byte) /\ Tail(bytes) \in Seq(Byte) /\ bytes = <<x>> \o Tail(bytes)
    OBVIOUS
  <1>2. PICK b : Leads(a, <<x>>, b) /\ Leads(b, Tail(bytes), c)
    BY <1>1, LeadsOver
  <1>3. PICK f : Run(f, a, <<x>>, b)
    BY <1>2 DEF Leads
  <1>4. Len(<<x>>) = 1 /\ <<x>>[1] = x /\ 1 - 1 = 0
    OBVIOUS
  <1>5. b = Read(a, x) /\ (x = KB_ACK => AtIdle(a))
    BY <1>3, <1>4 DEF Run
  <1> QED  BY <1>2, <1>5

\* The codes of keyboard.c, in figures.
LEMMA Figures ==
    /\ \hE1 = 225 /\ \hE0 = 224 /\ \h1D = 29 /\ \h45 = 69 /\ \h9D = 157 /\ \hC5 = 197
    /\ \h2A = 42 /\ \h37 = 55 /\ \hB7 = 183 /\ \hAA = 170 /\ KB_ACK = 250
  BY DEF KB_ACK

\* An ACK between two keys is no key.
LEMMA AckIsNoKey ==
    ASSUME NEW s, AtIdle(s), s = At(s.modifiers, s.locks)
    PROVE  Read(s, KB_ACK) = s
  <1>1. KB_ACK % 128 = 122 /\ ~Make(KB_ACK)
    BY DEF KB_ACK, Make
  <1>2. keymap(122) = NoRow
    BY DEF keymap
  <1>3. KeyUnder(KB_ACK, FALSE, s.modifiers, s.locks) = "0"
    BY <1>1, <1>2 DEF KeyUnder, NoRow
  <1>4. ToKey(s, KB_ACK, FALSE) = s
    BY <1>1, <1>3 DEF ToKey, ModifiersAfter, LocksAfter, Modifiers, Locks
  <1>5. KB_ACK # \hE1 /\ KB_ACK # \hE0 /\ s.at = "idle"
    BY Figures DEF AtIdle
  <1> QED  BY <1>4, <1>5 DEF Read, ReadFirst

\* One byte before others.
LEMMA Before ==
    ASSUME NEW S, NEW s \in Seq(S), Len(s) = 1, NEW t \in Seq(S)
    PROVE  /\ s \o t \in Seq(S) /\ Len(s \o t) = 1 + Len(t) /\ (s \o t)[1] = s[1]
           /\ \A i \in 1..Len(t) : (s \o t)[1 + i] = t[i]
  <1> DEFINE st == s \o t
             n == Len(t)
  <1>1. /\ st \in Seq(S) /\ Len(st) = 1 + n
        /\ \A i \in 1..1 + n : st[i] = IF i <= 1 THEN s[i] ELSE t[i - 1]
    <2>1. /\ s \o t \in Seq(S)
          /\ Len(s \o t) = Len(s) + Len(t)
          /\ \A i \in 1..Len(s) + Len(t) : (s \o t)[i] = IF i <= Len(s) THEN s[i] ELSE t[i - Len(s)]
      BY ConcatProperties
    <2> QED  BY ONLY <2>1, Len(s) = 1
  <1>2. n \in Nat
    OBVIOUS
  <1> HIDE DEF st, n
  <1>3. st[1] = s[1] /\ \A i \in 1..n : st[1 + i] = t[i]
    <2>1. 1 \in 1..1 + n /\ \A i \in 1..n : 1 + i \in 1..1 + n /\ ~(1 + i <= 1) /\ 1 + i - 1 = i
      BY <1>2
    <2> QED  BY <1>1, <2>1
  <1> QED  BY <1>1, <1>3 DEF st, n

\* One byte.
LEMMA LeadsOne ==
    ASSUME NEW a, NEW x \in Byte, x = KB_ACK => AtIdle(a)
    PROVE  Leads(a, <<x>>, Read(a, x)) /\ <<x>> \in Seq(Byte)
  <1>1. Leads(a, <<>>, a)
    BY LeadsNowhere
  <1>2. Leads(a, Append(<<>>, x), Read(a, x))
    <2>1. <<>> \in Seq(Byte)
      OBVIOUS
    <2> QED  BY <1>1, <2>1, LeadsOn
  <1>3. Append(<<>>, x) = <<x>>
    OBVIOUS
  <1> QED  BY <1>2, <1>3

\* Inside a sequence, what is to follow leads to its end.
LEMMA SequenceLeads ==
    ASSUME NEW s, NEW code, NEW follows \in Seq(Byte), follows # <<>>,
           \A i \in 1..Len(follows) : follows[i] # KB_ACK
    PROVE  Leads(InSequence(s, code, follows), follows, At(s.modifiers, s.locks))
  <1> DEFINE n == Len(follows)
             left(i) == SubSeq(follows, i + 1, n)
             f == [i \in 0..n |-> IF i < n THEN InSequence(s, code, left(i)) ELSE At(s.modifiers, s.locks)]
  <1>1. n \in Nat \ {0} /\ left(0) = follows
    OBVIOUS
  <1>2. ASSUME NEW i \in 1..n
        PROVE  /\ Head(left(i - 1)) = follows[i] /\ Len(left(i - 1)) = n - i + 1
               /\ Len(left(i - 1)) > 1 => Tail(left(i - 1)) = left(i)
    <2>1. left(i - 1) \in Seq(Byte) /\ Len(left(i - 1)) = n - i + 1
          /\ \A j \in 1..n - i + 1 : left(i - 1)[j] = follows[i - 1 + j]
      BY <1>1
    <2>2. Head(left(i - 1)) = left(i - 1)[1]
      BY <2>1
    <2>3. i - 1 + 1 = i
      OBVIOUS
    <2>4. ASSUME Len(left(i - 1)) > 1
          PROVE  Tail(left(i - 1)) = left(i)
      BY <1>1, <2>1, <2>4
    <2> QED  BY <1>1, <2>1, <2>2, <2>3, <2>4
  <1> HIDE DEF left
  <1>3. ASSUME NEW i \in 1..n
        PROVE  f[i] = Read(f[i - 1], follows[i])
    <2>1. f[i - 1] = InSequence(s, code, left(i - 1)) /\ i - 1 < n
      BY <1>1
    <2>2. Read(InSequence(s, code, left(i - 1)), follows[i])
             = IF Len(left(i - 1)) > 1 THEN InSequence(s, code, Tail(left(i - 1))) ELSE At(s.modifiers, s.locks)
      BY <1>2 DEF Read, ReadNext, InSequence
    <2>3. Len(left(i - 1)) > 1 <=> i < n
      BY <1>1, <1>2
    <2>4. f[i] = IF i < n THEN InSequence(s, code, left(i)) ELSE At(s.modifiers, s.locks)
      BY <1>1
    <2> QED  BY <1>2, <2>1, <2>2, <2>3, <2>4
  <1>4. DOMAIN f = 0..n /\ f[0] = InSequence(s, code, follows) /\ f[n] = At(s.modifiers, s.locks)
    BY <1>1
  <1> HIDE DEF f
  <1>5. Run(f, InSequence(s, code, follows), follows, At(s.modifiers, s.locks))
    BY <1>3, <1>4 DEF Run
  <1> QED  BY <1>5 DEF Leads

\* Behind 0xE0.
LEMMA Prefixed ==
    ASSUME NEW mods, NEW lks
    PROVE  LET s == At(mods, lks)
               e0 == BehindE0(s)
           IN  /\ Leads(s, <<\hE0>>, e0) /\ <<\hE0>> \in Seq(Byte)
               /\ e0.at = "E0" /\ e0.modifiers = mods /\ e0.locks = lks
               /\ \A code, follows : InSequence(e0, code, follows) = InSequence(s, code, follows)
  <1> DEFINE s == At(mods, lks)
             e0 == BehindE0(s)
  <1>1. /\ s.at = "idle"
        /\ e0.at = "E0" /\ e0.modifiers = mods /\ e0.locks = lks
        /\ s.modifiers = mods /\ s.locks = lks
    BY DEF At, BehindE0
  <1>2. Read(s, \hE0) = e0
    BY <1>1, Figures DEF Read, ReadFirst
  <1>3. \hE0 \in Byte /\ \hE0 # KB_ACK
    BY Figures DEF Byte
  <1>4. Leads(s, <<\hE0>>, Read(s, \hE0)) /\ <<\hE0>> \in Seq(Byte)
    BY <1>3, LeadsOne
  <1> QED  BY <1>1, <1>2, <1>4 DEF InSequence

\* Pause leads over itself, and so does Print Screen.
LEMMA PauseLeads ==
    ASSUME NEW mods, NEW lks
    PROVE  Leads(At(mods, lks), Pause, At(mods, lks)) /\ Pause \in Seq(Byte)
  <1> DEFINE s == At(mods, lks)
             follows == <<\h1D, \h45, \hE1, \h9D, \hC5>>
  <1>1. s.at = "idle" /\ s.modifiers = mods /\ s.locks = lks /\ At(s.modifiers, s.locks) = s
    BY DEF At
  <1>2. Read(s, \hE1) = InSequence(s, \hE1, follows)
    BY <1>1 DEF Read, ReadFirst
  <1>3. \hE1 \in Byte /\ \hE1 # KB_ACK
    BY Figures DEF Byte
  <1>4. Leads(s, <<\hE1>>, InSequence(s, \hE1, follows)) /\ <<\hE1>> \in Seq(Byte)
    BY <1>2, <1>3, LeadsOne
  <1>5. \h1D \in Byte /\ \h45 \in Byte /\ \h9D \in Byte /\ \hC5 \in Byte
    BY Figures DEF Byte
  <1>6. follows \in Seq(Byte) /\ follows # <<>> /\ Len(follows) = 5
    BY <1>3, <1>5
  <1>7. \A i \in 1..5 : follows[i] # KB_ACK
    BY Figures
  <1> HIDE DEF s, follows
  <1>8. Leads(InSequence(s, \hE1, follows), follows, s)
    BY <1>1, <1>6, <1>7, SequenceLeads
  <1> DEFINE first == <<\hE1>>
  <1>9. Leads(s, first \o follows, s)
    <2>1. Leads(s, first, InSequence(s, \hE1, follows)) /\ first \in Seq(Byte)
      BY <1>4
    <2> HIDE DEF first
    <2> QED  BY <1>6, <1>8, <2>1, LeadsThrough
  <1>10. <<\hE1>> \o follows = Pause
    <2> DEFINE p == <<\hE1>> \o follows
    <2>1. /\ p \in Seq(Byte) /\ Len(p) = 6
          /\ p[1] = \hE1 /\ p[2] = \h1D /\ p[3] = \h45 /\ p[4] = \hE1 /\ p[5] = \h9D /\ p[6] = \hC5
      BY <1>3, <1>4, <1>6 DEF follows
    <2> HIDE DEF p
    <2>2. p = <<p[1], p[2], p[3], p[4], p[5], p[6]>>
      BY <2>1
    <2> QED  BY <2>1, <2>2 DEF Pause, p
  <1>11. <<\hE1>> \o follows \in Seq(Byte)
    BY <1>4, <1>6
  <1> QED  BY <1>9, <1>10, <1>11 DEF s

LEMMA PrintLeads ==
    ASSUME NEW mods, NEW lks, NEW first \in Byte, NEW last \in Byte,
           \/ first = \h2A /\ last = \h37
           \/ first = \hB7 /\ last = \hAA
    PROVE  /\ Leads(At(mods, lks), <<\hE0, first, \hE0, last>>, At(mods, lks))
           /\ <<\hE0, first, \hE0, last>> \in Seq(Byte)
  <1> DEFINE s == At(mods, lks)
             e0 == BehindE0(s)
             follows == <<\hE0, last>>
  <1>1. /\ Leads(s, <<\hE0>>, e0) /\ <<\hE0>> \in Seq(Byte)
        /\ e0.at = "E0" /\ InSequence(e0, first, follows) = InSequence(s, first, follows)
    BY Prefixed
  <1>2. s.modifiers = mods /\ s.locks = lks
    BY DEF At
  <1>3. \hE0 \in Byte /\ \hE0 # KB_ACK /\ first # KB_ACK /\ last # KB_ACK
    BY Figures DEF Byte
  <1>4. follows \in Seq(Byte) /\ follows # <<>> /\ Len(follows) = 2 /\ follows[1] = \hE0 /\ follows[2] = last
    BY <1>3
  <1> HIDE DEF e0
  <1>5. Read(e0, first) = InSequence(s, first, follows)
    <2>1. \hB7 # \h2A
      BY Figures
    <2>2. Read(e0, first) = ReadSecond(e0, first)
      BY <1>1 DEF Read
    <2>3. CASE first = \h2A /\ last = \h37
      BY <1>1, <2>2, <2>3 DEF ReadSecond
    <2>4. CASE first = \hB7 /\ last = \hAA
      BY <1>1, <2>1, <2>2, <2>4 DEF ReadSecond
    <2> QED  BY <2>3, <2>4
  <1> HIDE DEF follows, s
  <1>6. Leads(e0, <<first>>, InSequence(s, first, follows)) /\ <<first>> \in Seq(Byte)
    BY <1>3, <1>5, LeadsOne
  <1>7. Leads(InSequence(s, first, follows), follows, s)
    <2>1. \A i \in 1..Len(follows) : follows[i] # KB_ACK
      BY <1>3, <1>4
    <2>2. At(s.modifiers, s.locks) = s
      BY <1>2 DEF s
    <2> QED  BY <1>4, <2>1, <2>2, SequenceLeads
  <1>8. Leads(e0, <<first>> \o follows, s) /\ <<first>> \o follows \in Seq(Byte)
    <2> DEFINE one == <<first>>
    <2>1. Leads(e0, one, InSequence(s, first, follows)) /\ one \in Seq(Byte)
      BY <1>6
    <2> HIDE DEF one
    <2>2. Leads(e0, one \o follows, s) /\ one \o follows \in Seq(Byte)
      BY <1>4, <1>7, <2>1, LeadsThrough
    <2> QED  BY <2>2 DEF one
  <1> DEFINE behind == <<first>> \o follows
             p == <<\hE0>> \o behind
  <1> HIDE DEF behind
  <1>9. Leads(s, p, s)
    <2>1. Leads(s, <<\hE0>>, e0)
      BY <1>1 DEF s, e0
    <2>2. Leads(e0, behind, s) /\ behind \in Seq(Byte)
      BY <1>8 DEF behind
    <2> QED  BY <1>1, <2>1, <2>2, LeadsThrough
  <1>10. p = <<\hE0, first, \hE0, last>>
    <2>1. behind \in Seq(Byte) /\ Len(behind) = 3 /\ behind[1] = first /\ behind[2] = \hE0 /\ behind[3] = last
      <3>1. /\ behind \in Seq(Byte) /\ Len(behind) = 1 + Len(follows) /\ behind[1] = first
            /\ \A i \in 1..Len(follows) : behind[1 + i] = follows[i]
        <4>1. Len(<<first>>) = 1 /\ <<first>>[1] = first
          OBVIOUS
        <4> DEFINE one == <<first>>
        <4>2. one \in Seq(Byte) /\ Len(one) = 1 /\ one[1] = first /\ behind = one \o follows
          BY <1>6, <4>1 DEF behind
        <4> HIDE DEF one
        <4> QED  BY <1>4, <4>2, Before
      <3>2. behind[1 + 1] = follows[1] /\ behind[1 + 2] = follows[2]
        BY <1>4, <3>1
      <3> QED  BY <1>4, <3>1, <3>2
    <2>2. /\ p \in Seq(Byte) /\ Len(p) = 4
          /\ p[1] = \hE0 /\ p[2] = first /\ p[3] = \hE0 /\ p[4] = last
      <3>1. /\ p \in Seq(Byte) /\ Len(p) = 1 + Len(behind) /\ p[1] = \hE0
            /\ \A i \in 1..Len(behind) : p[1 + i] = behind[i]
        <4> DEFINE one == <<\hE0>>
        <4>1. one \in Seq(Byte) /\ Len(one) = 1 /\ one[1] = \hE0
          BY <1>1
        <4> HIDE DEF one
        <4>2. /\ one \o behind \in Seq(Byte) /\ Len(one \o behind) = 1 + Len(behind)
              /\ (one \o behind)[1] = one[1]
              /\ \A i \in 1..Len(behind) : (one \o behind)[1 + i] = behind[i]
          <5> HIDE DEF p
          <5>1. one \in Seq(Byte) /\ Len(one) = 1 /\ behind \in Seq(Byte)
            BY <2>1, <4>1
          <5> QED  BY <5>1, Before
        <4> QED  BY <4>1, <4>2 DEF one
      <3> HIDE DEF p
      <3>2. p[1 + 1] = behind[1] /\ p[1 + 2] = behind[2] /\ p[1 + 3] = behind[3]
        BY <2>1, <3>1
      <3> QED  BY <2>1, <3>1, <3>2
    <2> HIDE DEF p
    <2>3. p = <<p[1], p[2], p[3], p[4]>>
      BY <2>2
    <2> QED  BY <2>2, <2>3
  <1>11. <<\hE0, first, \hE0, last>> \in Seq(Byte)
    BY <1>3
  <1> QED  BY <1>9, <1>10, <1>11 DEF s

\* What a key sends when pressed or released leads over it.
LEMMA SendsLeads ==
    ASSUME NEW k, NEW make \in BOOLEAN, NEW bytes, Sends(k, make, bytes),
           NEW mods \in SUBSET Modifiers, NEW lks \in SUBSET Locks
    PROVE  /\ Leads(At(mods, lks), bytes, At(ModifiersAfter(k, make, mods), LocksAfter(k, make, lks)))
           /\ bytes \in Seq(Byte)
  <1> DEFINE s == At(mods, lks)
             aim == At(ModifiersAfter(k, make, mods), LocksAfter(k, make, lks))
             Stands(c, two) == LET x == KeyUnder(c, two, mods, lks) IN
                             IF k \in Modifiers \cup Locks THEN x = k ELSE x \notin Modifiers \cup Locks
  <1>1. ASSUME k \notin Modifiers \cup Locks
        PROVE  aim = s
    BY <1>1 DEF ModifiersAfter, LocksAfter
  <1>2. ASSUME NEW c, NEW e, Make(c) = make, Stands(c, e),
               NEW t, t.modifiers = mods, t.locks = lks
        PROVE  ToKey(t, c, e) = aim
    BY <1>2 DEF ToKey, ModifiersAfter, LocksAfter
  <1> HIDE DEF aim
  <1>3. CASE bytes = <<>> /\ k \notin Modifiers \cup Locks
    <2>1. Leads(s, <<>>, s)
      BY LeadsNowhere
    <2> QED  BY <1>1, <1>3, <2>1 DEF aim
  <1>4. CASE bytes = Pause /\ k \notin Modifiers \cup Locks
    BY <1>1, <1>4, PauseLeads DEF aim
  <1>5. CASE bytes \in {PrintMake, PrintBreak} /\ k \notin Modifiers \cup Locks
    <2>1. \h2A \in Byte /\ \h37 \in Byte /\ \hB7 \in Byte /\ \hAA \in Byte
      BY Figures DEF Byte
    <2>2. Leads(s, PrintMake, s) /\ PrintMake \in Seq(Byte)
      BY <2>1, PrintLeads DEF PrintMake
    <2>3. Leads(s, PrintBreak, s) /\ PrintBreak \in Seq(Byte)
      BY <2>1, PrintLeads DEF PrintBreak
    <2> QED  BY <1>1, <1>5, <2>2, <2>3 DEF aim
  <1>6. ASSUME NEW c \in Byte, bytes = <<c>>, c \notin {\hE0, \hE1}, Make(c) = make, Stands(c, FALSE)
        PROVE  Leads(s, bytes, aim) /\ bytes \in Seq(Byte)
    <2>1. AtIdle(s) /\ s.modifiers = mods /\ s.locks = lks
      BY DEF At, AtIdle
    <2>2. Leads(s, <<c>>, Read(s, c)) /\ <<c>> \in Seq(Byte)
      BY <2>1, LeadsOne
    <2>3. Read(s, c) = ToKey(s, c, FALSE)
      BY <1>6, <2>1 DEF Read, ReadFirst, AtIdle
    <2>4. ToKey(s, c, FALSE) = aim
      BY <1>2, <1>6, <2>1
    <2> QED  BY <1>6, <2>2, <2>3, <2>4
  <1>7. ASSUME NEW c \in Byte, bytes = <<\hE0, c>>, c \notin {\h2A, \hB7, KB_ACK}, Make(c) = make, Stands(c, TRUE)
        PROVE  Leads(s, bytes, aim) /\ bytes \in Seq(Byte)
    <2> DEFINE e0 == BehindE0(s)
    <2>1. /\ Leads(s, <<\hE0>>, e0) /\ <<\hE0>> \in Seq(Byte)
          /\ e0.at = "E0" /\ e0.modifiers = mods /\ e0.locks = lks
      BY Prefixed
    <2> HIDE DEF e0
    <2>2. Leads(e0, <<c>>, Read(e0, c)) /\ <<c>> \in Seq(Byte)
      BY <1>7, LeadsOne
    <2>3. Read(e0, c) = ToKey(e0, c, TRUE)
      BY <1>7, <2>1 DEF Read, ReadSecond
    <2>4. ToKey(e0, c, TRUE) = aim
      BY <1>2, <1>7, <2>1
    <2>5. Leads(s, <<\hE0>> \o <<c>>, aim)
      <3> DEFINE one == <<\hE0>>
                 other == <<c>>
      <3>1. Leads(s, one, e0) /\ Leads(e0, other, aim) /\ one \in Seq(Byte) /\ other \in Seq(Byte)
        BY <2>1, <2>2, <2>3, <2>4
      <3> HIDE DEF one, other, s
      <3>2. Leads(s, one \o other, aim)
        BY <3>1, LeadsThrough
      <3> QED  BY <3>2 DEF one, other
    <2>6. <<\hE0>> \o <<c>> = <<\hE0, c>> /\ <<\hE0>> \o <<c>> \in Seq(Byte)
      <3> DEFINE p == <<\hE0>> \o <<c>>
      <3>1. p \in Seq(Byte) /\ Len(p) = 2 /\ p[1] = \hE0 /\ p[2] = c
        BY <2>1, <2>2
      <3> HIDE DEF p
      <3>2. p = <<p[1], p[2]>>
        BY <3>1
      <3> QED  BY <3>1, <3>2 DEF p
    <2> QED  BY <1>7, <2>5, <2>6
  <1>8. CASE \E c \in Byte :
                 /\ \/ bytes = <<c>> /\ c \notin {\hE0, \hE1}
                    \/ bytes = <<\hE0, c>> /\ c \notin {\h2A, \hB7, KB_ACK}
                 /\ Make(c) = make
                 /\ \A ms \in SUBSET Modifiers, ls \in SUBSET Locks :
                       LET x == KeyUnder(c, Len(bytes) = 2, ms, ls) IN
                       IF k \in Modifiers \cup Locks THEN x = k ELSE x \notin Modifiers \cup Locks
    <2>1. PICK c \in Byte :
                /\ \/ bytes = <<c>> /\ c \notin {\hE0, \hE1}
                   \/ bytes = <<\hE0, c>> /\ c \notin {\h2A, \hB7, KB_ACK}
                /\ Make(c) = make
                /\ \A ms \in SUBSET Modifiers, ls \in SUBSET Locks :
                      LET x == KeyUnder(c, Len(bytes) = 2, ms, ls) IN
                      IF k \in Modifiers \cup Locks THEN x = k ELSE x \notin Modifiers \cup Locks
      BY <1>8
    <2>2. c \in Byte /\ Make(c) = make
      BY <2>1
    <2>3. CASE bytes = <<c>> /\ c \notin {\hE0, \hE1}
      <3>1. Len(bytes) # 2
        BY <2>3
      <3>2. KeyUnder(c, Len(bytes) = 2, mods, lks) = KeyUnder(c, FALSE, mods, lks)
        BY <3>1 DEF KeyUnder
      <3>3. Stands(c, FALSE)
        <4>1. LET x == KeyUnder(c, Len(bytes) = 2, mods, lks) IN
              IF k \in Modifiers \cup Locks THEN x = k ELSE x \notin Modifiers \cup Locks
          BY <2>1
        <4> QED  BY <3>2, <4>1
      <3> HIDE DEF Fits
      <3> QED  BY <1>6, <2>2, <2>3, <3>3 DEF aim
    <2>4. CASE bytes = <<\hE0, c>> /\ c \notin {\h2A, \hB7, KB_ACK}
      <3>1. Len(bytes) = 2
        BY <2>4
      <3>2. KeyUnder(c, Len(bytes) = 2, mods, lks) = KeyUnder(c, TRUE, mods, lks)
        BY <3>1 DEF KeyUnder
      <3>3. Stands(c, TRUE)
        BY <2>1, <3>2
      <3> HIDE DEF Fits
      <3> QED  BY <1>7, <2>2, <2>4, <3>3 DEF aim
    <2> QED  BY <2>1, <2>3, <2>4
  <1> QED  BY <1>3, <1>4, <1>5, <1>8 DEF Sends, aim

-----------------------------------------------------------------------------
(* The keys that keyboard.c takes to be down or on. *)

KeysInv == modifiers \subseteq Modifiers /\ locks \subseteq Locks /\ got \in Byte /\ port \in Byte

\* The bytes still to be read, where keyboard_read is, and where the typist is.
Coming == RingItems(kb_in, KB_IN_BYTES) \o sending
Now == [at |-> IF at \in {"E0", "sequence"} THEN at ELSE "idle", scan_code |-> scan_code, rest |-> rest,
        modifiers |-> modifiers, locks |-> locks]
Goal == At(down \cap Modifiers, lamps)

\* Outside a sequence none is begun; and unless a code was dropped, what is still to
\* be read leads keyboard_read to the keys that are down and the locks that are wanted.
LeadsInv ==
    /\ lamps \subseteq Locks
    /\ at # "sequence" => scan_code = 0 /\ rest = <<>>
    /\ ~dropped => Leads(Now, Coming, Goal)

\* The ACK that kb_ack waits for is in the port or on its way, unless a code overtook it.
AckInv ==
    at \in {"ack", "ack2"} =>
        port = KB_ACK \/ overtaken \/ \E i \in 1..Len(sending) : sending[i] = KB_ACK

LEMMA TranslateKeeps ==
    ASSUME NEW code, NEW e0, Translate(code, e0), modifiers \subseteq Modifiers, locks \subseteq Locks
    PROVE  modifiers' \subseteq Modifiers /\ locks' \subseteq Locks
  <1> DEFINE k == KeyOf(code, e0)
  <1>1. /\ modifiers' = IF k \notin Modifiers THEN modifiers
                        ELSE IF Make(code) THEN modifiers \cup {k} ELSE modifiers \ {k}
        /\ locks' = IF k \in Locks /\ Make(code) THEN Toggled(locks, k) ELSE locks
    BY DEF Translate
  <1> HIDE DEF k
  <1>2. modifiers' \subseteq Modifiers
    BY <1>1
  <1>3. k \in Locks => Toggled(locks, k) \subseteq Locks
    BY DEF Toggled
  <1> QED  BY <1>1, <1>2, <1>3

\* A byte read is the first of those that come.
LEMMA ByteRead ==
    ASSUME RingInv, get_byte_from_kbuf, UNCHANGED sending
    PROVE  /\ got' \in Byte /\ Coming \in Seq(Byte) /\ Coming # <<>>
           /\ got' = Head(Coming) /\ Coming' = Tail(Coming)
  <1> DEFINE items == RingItems(kb_in, KB_IN_BYTES)
             left == RingItems(kb_in', KB_IN_BYTES)
  <1>1. KB_IN_BYTES \in Nat \ {0} /\ kb_in.count > 0 /\ got' = RingFirst(kb_in)
        /\ kb_in' = RingTake(kb_in, KB_IN_BYTES)
    BY KeyboardAssumption DEF get_byte_from_kbuf
  <1>2. items # <<>> /\ got' = Head(items) /\ got' \in Byte /\ left = Tail(items)
    BY <1>1, TakeRemoves DEF RingInv
  <1>3. items \in Seq(Byte) /\ sending \in Seq(Byte)
    BY <1>1, ItemsOf DEF RingInv
  <1> HIDE DEF items, left
  <1>4. items \o sending \in Seq(Byte) /\ items \o sending # <<>> /\ Head(items \o sending) = Head(items)
    BY <1>2, <1>3
  <1>5. Tail(items \o sending) = Tail(items) \o sending
    BY <1>2, <1>3
  <1> QED  BY <1>2, <1>4, <1>5 DEF Coming, items, left

LEMMA ReadKeeps ==
    ASSUME RingInv, KeysInv, FirstByte \/ keyboard_read_on
    PROVE  KeysInv'
  <1>1. ASSUME get_byte_from_kbuf, UNCHANGED <<port, sending>>,
               \/ UNCHANGED <<modifiers, locks>>
               \/ \E code, e0 : Translate(code, e0)
        PROVE  KeysInv'
    BY <1>1, ByteRead, TranslateKeeps DEF KeysInv
  <1>2. CASE FirstByte
    BY <1>1, <1>2 DEF FirstByte, MoreToCome, deviceVars
  <1>3. CASE SecondByte
    BY <1>1, <1>3 DEF SecondByte, MoreToCome, deviceVars
  <1>4. CASE NextByte
    BY <1>1, <1>4 DEF NextByte, MoreToCome, deviceVars
  <1>5. CASE set_leds
    BY <1>5 DEF set_leds, OutByte, kb_ack, deviceVars, KeysInv
  <1> QED  BY <1>2, <1>3, <1>4, <1>5 DEF keyboard_read_on

LEMMA KeysStep ==
    ASSUME RingInv, KeysInv, [TerminalNext]_terminalVars
    PROVE  KeysInv'
  <1>1. CASE UNCHANGED keyboardVars
    BY <1>1 DEF keyboardVars, KeysInv
  <1>2. CASE FirstByte \/ keyboard_read_on
    BY <1>2, ReadKeeps
  <1>3. CASE KeyTaken /\ UNCHANGED <<kb_in, modifiers, locks, got, scan_code, rest, deviceVars>>
    BY <1>3 DEF deviceVars, KeysInv
  <1>4. CASE ByteComes
    <2>1. port' = Head(sending) /\ sending # <<>> /\ UNCHANGED <<modifiers, locks, got>>
      BY <1>4 DEF ByteComes, readerVars
    <2>2. Head(sending) \in Byte
      BY <2>1 DEF RingInv
    <2> QED  BY <2>1, <2>2 DEF KeysInv
  <1>5. CASE Type
    BY <1>5 DEF Type, Press, Release, Stroke, readerVars, KeysInv
  <1> QED  BY <1>1, <1>2, <1>3, <1>4, <1>5, KeyboardActions DEF Device

\* Translate is ToKey.
LEMMA Translated ==
    ASSUME NEW code, NEW e0, Translate(code, e0)
    PROVE  Now' = ToKey(Now, code, e0) /\ at' # "sequence" /\ scan_code' = 0 /\ rest' = <<>>
  <1> DEFINE k == KeyOf(code, e0)
  <1>1. /\ modifiers' = ModifiersAfter(k, Make(code), modifiers)
        /\ locks' = LocksAfter(k, Make(code), locks)
        /\ at' \in {"idle", "led", "key"} /\ scan_code' = 0 /\ rest' = <<>>
    BY DEF Translate, ModifiersAfter, LocksAfter
  <1>2. KeyUnder(code, e0, Now.modifiers, Now.locks) = k /\ Now.modifiers = modifiers /\ Now.locks = locks
    BY DEF Now, KeyOf
  <1> HIDE DEF k
  <1>3. ToKey(Now, code, e0) = At(ModifiersAfter(k, Make(code), modifiers), LocksAfter(k, Make(code), locks))
    BY <1>2 DEF ToKey
  <1>4. Now' = At(modifiers', locks')
    BY <1>1 DEF Now, At
  <1> QED  BY <1>1, <1>3, <1>4

\* keyboard_read reads a byte as Read has it.
LEMMA Reads ==
    ASSUME LeadsInv, FirstByte \/ SecondByte \/ NextByte
    PROVE  Now' = Read(Now, got') /\ (at' # "sequence" => scan_code' = 0 /\ rest' = <<>>)
  <1>1. /\ Now.modifiers = modifiers /\ Now.locks = locks /\ Now.scan_code = scan_code /\ Now.rest = rest
        /\ Now.at = IF at \in {"E0", "sequence"} THEN at ELSE "idle"
    BY DEF Now
  <1>2. ASSUME NEW code, NEW follows, MoreToCome(code, follows)
        PROVE  Now' = InSequence(Now, code, follows) /\ at' = "sequence"
    BY <1>1, <1>2 DEF MoreToCome, InSequence, Now
  <1>3. CASE FirstByte
    <2>1. Read(Now, got') = ReadFirst(Now, got') /\ at = "idle"
      BY <1>1, <1>3 DEF FirstByte, Read
    <2>2. CASE got' = \hE1
      BY <1>2, <1>3, <2>1, <2>2 DEF FirstByte, ReadFirst
    <2>3. CASE got' = \hE0
      <3>1. at' = "E0" /\ UNCHANGED <<modifiers, locks, scan_code, rest>>
        BY <1>3, <2>3, Figures DEF FirstByte
      <3>2. Now' = BehindE0(Now)
        BY <1>1, <3>1 DEF Now, BehindE0
      <3> QED  BY <2>1, <2>3, <3>1, <3>2, Figures DEF ReadFirst, LeadsInv
    <2>4. CASE got' # \hE1 /\ got' # \hE0
      BY <1>3, <2>1, <2>4, Translated DEF FirstByte, ReadFirst
    <2> QED  BY <2>2, <2>3, <2>4
  <1>4. CASE SecondByte
    <2>1. Read(Now, got') = ReadSecond(Now, got')
      BY <1>1, <1>4 DEF SecondByte, Read
    <2>2. CASE got' = \h2A
      BY <1>2, <1>4, <2>1, <2>2 DEF SecondByte, ReadSecond
    <2>3. CASE got' = \hB7
      BY <1>2, <1>4, <2>1, <2>3, Figures DEF SecondByte, ReadSecond
    <2>4. CASE got' # \h2A /\ got' # \hB7
      BY <1>4, <2>1, <2>4, Translated DEF SecondByte, ReadSecond
    <2> QED  BY <2>2, <2>3, <2>4
  <1>5. CASE NextByte
    <2>1. Read(Now, got') = ReadNext(Now, got')
      BY <1>1, <1>5 DEF NextByte, Read
    <2>2. CASE got' # Head(rest)
      <3>1. Translate(scan_code, scan_code # \hE1)
        BY <1>5, <2>2 DEF NextByte
      <3>2. ReadNext(Now, got') = ToKey(Now, scan_code, scan_code # \hE1)
        BY <1>1, <2>2 DEF ReadNext
      <3> QED  BY <2>1, <3>1, <3>2, Translated
    <2>3. CASE got' = Head(rest) /\ Len(rest) > 1
      BY <1>1, <1>2, <1>5, <2>1, <2>3 DEF NextByte, ReadNext
    <2>4. CASE got' = Head(rest) /\ ~(Len(rest) > 1)
      <3>1. at' = "idle" /\ scan_code' = 0 /\ rest' = <<>> /\ UNCHANGED <<modifiers, locks>>
        BY <1>5, <2>4 DEF NextByte
      <3>2. Now' = At(modifiers, locks)
        BY <3>1 DEF Now, At
      <3> QED  BY <1>1, <2>1, <2>4, <3>1, <3>2 DEF ReadNext
    <2> QED  BY <2>2, <2>3, <2>4
  <1> QED  BY <1>3, <1>4, <1>5

\* Where it is led to between two keys, it is as At has it.
LEMMA LeadsToAt ==
    ASSUME NEW a, a = At(a.modifiers, a.locks) \/ ~AtIdle(a),
           NEW bytes \in Seq(Byte), NEW b, Leads(a, bytes, b), AtIdle(b)
    PROVE  b = At(b.modifiers, b.locks)
  <1>1. PICK f : Run(f, a, bytes, b)
    BY DEF Leads
  <1> DEFINE n == Len(bytes)
  <1>2. n \in Nat /\ f[0] = a /\ f[n] = b
    BY <1>1 DEF Run
  <1>3. CASE n = 0
    BY <1>2, <1>3
  <1>4. CASE n # 0
    <2>1. n \in 1..n
      BY <1>2, <1>4
    <2>2. b = Read(f[n - 1], bytes[n])
      BY <1>1, <1>2, <2>1 DEF Run
    <2>3. \A s, code, follows : ~AtIdle(InSequence(s, code, follows)) /\ ~AtIdle(BehindE0(s))
      BY DEF AtIdle, InSequence, BehindE0
    <2>4. \A mods, lks : At(mods, lks) = At(At(mods, lks).modifiers, At(mods, lks).locks)
      BY DEF At
    <2>5. ASSUME NEW s, NEW code, NEW e0
          PROVE  ToKey(s, code, e0) = At(ToKey(s, code, e0).modifiers, ToKey(s, code, e0).locks)
      BY <2>4 DEF ToKey
    <2> DEFINE s == f[n - 1]
               x == bytes[n]
    <2> HIDE DEF s, x
    <2>6. b \in {ReadFirst(s, x), ReadSecond(s, x), ReadNext(s, x)}
      BY <2>2 DEF Read, s, x
    <2>7. CASE b = ReadFirst(s, x)
      <3>1. ReadFirst(s, x) = ToKey(s, x, FALSE) \/ ReadFirst(s, x).at # "idle"
        BY DEF ReadFirst, InSequence, BehindE0
      <3> QED  BY <2>5, <2>7, <3>1 DEF AtIdle
    <2>8. CASE b = ReadSecond(s, x)
      <3>1. ReadSecond(s, x) = ToKey(s, x, TRUE) \/ ReadSecond(s, x).at # "idle"
        BY DEF ReadSecond, InSequence
      <3> QED  BY <2>5, <2>8, <3>1 DEF AtIdle
    <2>9. CASE b = ReadNext(s, x)
      BY <2>3, <2>4, <2>5, <2>9 DEF ReadNext
    <2> QED  BY <2>6, <2>7, <2>8, <2>9
  <1> QED  BY <1>3, <1>4

\* An ACK may be left out.
LEMMA AckLeftOut ==
    ASSUME NEW a, a = At(a.modifiers, a.locks) \/ ~AtIdle(a),
           NEW s \in Seq(Byte), NEW t \in Seq(Byte), t # <<>>, Head(t) = KB_ACK, NEW c, Leads(a, s \o t, c)
    PROVE  Leads(a, s \o Tail(t), c)
  <1>1. PICK b : Leads(a, s, b) /\ Leads(b, t, c)
    BY LeadsOver
  <1>2. AtIdle(b) /\ Leads(Read(b, KB_ACK), Tail(t), c)
    BY <1>1, LeadsFirst
  <1>3. b = At(b.modifiers, b.locks)
    BY <1>1, <1>2, LeadsToAt
  <1>4. Read(b, KB_ACK) = b
    BY <1>2, <1>3, AckIsNoKey
  <1>5. Tail(t) \in Seq(Byte)
    OBVIOUS
  <1> QED  BY <1>1, <1>2, <1>4, <1>5, LeadsThrough

\* A stroke leads the typist's keys to what they are after it.
LEMMA StrokeLeads ==
    ASSUME LeadsInv, Type
    PROVE  \E bytes \in Seq(Byte) : /\ Leads(Goal, bytes, Goal') /\ sending' = sending \o bytes
                                    /\ UNCHANGED <<kb_in, readerVars, dropped>> /\ lamps' \subseteq Locks
  <1> DEFINE mods == down \cap Modifiers
  <1>1. mods \in SUBSET Modifiers /\ lamps \in SUBSET Locks /\ Goal = At(mods, lamps)
    BY DEF LeadsInv, Goal
  <1>2. PICK k \in Keys : Press(k) \/ Release(k)
    BY DEF Type
  <1>3. CASE Press(k)
    <2>1. /\ down' = down \cup {k} /\ lamps' = (IF k \in Locks THEN Toggled(lamps, k) ELSE lamps)
          /\ sending' = sending \o codes[k].make /\ UNCHANGED <<kb_in, readerVars, dropped>>
      BY <1>3 DEF Press, Stroke
    <2>2. Sends(k, TRUE, codes[k].make)
      BY CodesAssumption
    <2>3. /\ Leads(At(mods, lamps), codes[k].make, At(ModifiersAfter(k, TRUE, mods), LocksAfter(k, TRUE, lamps)))
          /\ codes[k].make \in Seq(Byte)
      BY <1>1, <2>2, SendsLeads
    <2>4. down' \cap Modifiers = ModifiersAfter(k, TRUE, mods) /\ lamps' = LocksAfter(k, TRUE, lamps)
      BY <2>1 DEF ModifiersAfter, LocksAfter
    <2>5. lamps' \subseteq Locks
      BY <1>1, <2>1 DEF Toggled
    <2> HIDE DEF mods
    <2>6. Leads(Goal, codes[k].make, Goal')
      BY <1>1, <2>3, <2>4 DEF Goal
    <2> QED  BY <2>1, <2>3, <2>5, <2>6
  <1>4. CASE Release(k)
    <2>1. /\ down' = down \ {k} /\ lamps' = lamps
          /\ sending' = sending \o codes[k].break /\ UNCHANGED <<kb_in, readerVars, dropped>>
      BY <1>4 DEF Release, Stroke
    <2>2. Sends(k, FALSE, codes[k].break)
      BY CodesAssumption
    <2>3. /\ Leads(At(mods, lamps), codes[k].break, At(ModifiersAfter(k, FALSE, mods), LocksAfter(k, FALSE, lamps)))
          /\ codes[k].break \in Seq(Byte)
      BY <1>1, <2>2, SendsLeads
    <2>4. down' \cap Modifiers = ModifiersAfter(k, FALSE, mods) /\ lamps' = LocksAfter(k, FALSE, lamps)
      BY <2>1 DEF ModifiersAfter, LocksAfter
    <2> HIDE DEF mods
    <2>5. Leads(Goal, codes[k].break, Goal')
      BY <1>1, <2>3, <2>4 DEF Goal
    <2> QED  BY <1>1, <2>1, <2>3, <2>5
  <1> QED  BY <1>2, <1>3, <1>4

LEMMA LeadsStep ==
    ASSUME RingInv, LeadsInv, [TerminalNext]_terminalVars
    PROVE  LeadsInv'
  <1> DEFINE items == RingItems(kb_in, KB_IN_BYTES)
  <1>1. items \in Seq(Byte) /\ sending \in Seq(Byte) /\ KB_IN_BYTES \in Nat \ {0}
    BY KeyboardAssumption, ItemsOf DEF RingInv
  <1>2. Coming = items \o sending /\ Coming \in Seq(Byte)
    BY <1>1 DEF Coming
  <1>3. ASSUME Now' = Now, Coming' = Coming, Goal' = Goal, dropped' = dropped, lamps' = lamps,
               at' # "sequence" => scan_code' = 0 /\ rest' = <<>>
        PROVE  LeadsInv'
    BY <1>3 DEF LeadsInv
  <1>4. CASE UNCHANGED keyboardVars
    BY <1>4, <1>3 DEF keyboardVars, Now, Coming, Goal, LeadsInv
  <1>5. CASE FirstByte \/ SecondByte \/ NextByte
    <2>1. get_byte_from_kbuf /\ UNCHANGED deviceVars
      BY <1>5 DEF FirstByte, SecondByte, NextByte
    <2>2. UNCHANGED <<sending, down, lamps, dropped>>
      BY <2>1 DEF deviceVars
    <2>3. Coming # <<>> /\ got' = Head(Coming) /\ Coming' = Tail(Coming)
      BY <2>1, <2>2, ByteRead
    <2>4. Now' = Read(Now, got') /\ (at' # "sequence" => scan_code' = 0 /\ rest' = <<>>)
      BY <1>5, Reads
    <2>5. Goal' = Goal
      BY <2>2 DEF Goal
    <2>6. ~dropped => Leads(Now', Coming', Goal')
      BY <1>2, <2>3, <2>4, <2>5, LeadsFirst DEF LeadsInv
    <2> QED  BY <2>2, <2>4, <2>6 DEF LeadsInv
  <1>6. CASE set_leds
    <2>1. CASE kb_ack("ack", "led2") \/ kb_ack("ack2", "key")
      BY <1>3, <2>1 DEF kb_ack, deviceVars, Now, Coming, Goal, LeadsInv
    <2>2. CASE OutByte("led", "ack") \/ OutByte("led2", "ack2")
      <3>1. /\ at' \notin {"E0", "sequence"} /\ at \notin {"E0", "sequence"}
            /\ sending' = Append(sending, KB_ACK)
            /\ UNCHANGED <<kb_in, modifiers, locks, scan_code, rest, down, lamps, dropped>>
        BY <2>2 DEF OutByte
      <3>2. Now' = Now /\ Goal' = Goal
        BY <3>1 DEF Now, Goal
      <3>3. Coming' = Append(Coming, KB_ACK)
        <4>1. Coming' = items \o Append(sending, KB_ACK)
          BY <3>1 DEF Coming
        <4> HIDE DEF items
        <4>2. items \o Append(sending, KB_ACK) = Append(items \o sending, KB_ACK)
          BY <1>1 DEF Byte, KB_ACK
        <4> QED  BY <1>2, <4>1, <4>2
      <3>4. AtIdle(Goal) /\ Goal = At(Goal.modifiers, Goal.locks)
        BY DEF Goal, At, AtIdle
      <3>5. Read(Goal, KB_ACK) = Goal /\ KB_ACK \in Byte
        BY <3>4, AckIsNoKey DEF Byte, KB_ACK
      <3>6. ~dropped => Leads(Now, Append(Coming, KB_ACK), Goal)
        BY <1>2, <3>4, <3>5, LeadsOn DEF LeadsInv
      <3> QED  BY <3>1, <3>2, <3>3, <3>6 DEF LeadsInv
    <2> QED  BY <1>6, <2>1, <2>2 DEF set_leds
  <1>7. CASE KeyTaken /\ UNCHANGED <<kb_in, modifiers, locks, got, scan_code, rest, deviceVars>>
    BY <1>3, <1>7 DEF KeyTaken, deviceVars, Now, Coming, Goal, LeadsInv
  <1>8. CASE ByteComes
    <2> DEFINE c == Head(sending)
    <2>1. /\ sending # <<>> /\ sending' = Tail(sending) /\ keyboard_handler(c)
          /\ UNCHANGED <<modifiers, locks, at, scan_code, rest, down, lamps>>
      BY <1>8 DEF ByteComes, readerVars
    <2>2. Now' = Now /\ Goal' = Goal /\ c \in Byte /\ Tail(sending) \in Seq(Byte)
      BY <1>1, <2>1 DEF Now, Goal
    <2>3. CASE kb_in.count < KB_IN_BYTES
      <3>1. kb_in' = RingPut(kb_in, KB_IN_BYTES, c) /\ dropped' = dropped
        BY <2>1, <2>3 DEF keyboard_handler
      <3>2. RingItems(kb_in', KB_IN_BYTES) = Append(items, c)
        BY <1>1, <2>2, <2>3, <3>1, PutAppends DEF RingInv
      <3>3. Coming' = Append(items, c) \o Tail(sending)
        BY <2>1, <3>2 DEF Coming
      <3> HIDE DEF items
      <3>4. Append(items, c) \o Tail(sending) = items \o sending
        BY <1>1, <2>1
      <3> QED  BY <1>2, <1>3, <2>1, <2>2, <3>1, <3>3, <3>4 DEF LeadsInv
    <2>4. CASE ~(kb_in.count < KB_IN_BYTES)
      <3>1. kb_in' = kb_in /\ dropped' = (dropped \/ c # KB_ACK)
        BY <2>1, <2>4 DEF keyboard_handler
      <3>2. Coming' = items \o Tail(sending)
        BY <2>1, <3>1 DEF Coming
      <3>3. ASSUME ~dropped'
            PROVE  Leads(Now', Coming', Goal')
        <4>1. ~dropped /\ c = KB_ACK
          BY <3>1, <3>3
        <4>2. Now = At(Now.modifiers, Now.locks) \/ ~AtIdle(Now)
          BY DEF Now, At, AtIdle
        <4>3. Leads(Now, items \o sending, Goal)
          BY <1>2, <4>1 DEF LeadsInv
        <4> HIDE DEF items
        <4>4. Leads(Now, items \o Tail(sending), Goal)
          BY <1>1, <2>1, <4>1, <4>2, <4>3, AckLeftOut
        <4> QED  BY <2>2, <3>2, <4>4
      <3> QED  BY <2>1, <3>3 DEF LeadsInv
    <2> QED  BY <2>3, <2>4
  <1>9. CASE Type
    <2>1. PICK bytes \in Seq(Byte) : /\ Leads(Goal, bytes, Goal') /\ sending' = sending \o bytes
                                     /\ UNCHANGED <<kb_in, readerVars, dropped>> /\ lamps' \subseteq Locks
      BY <1>9, StrokeLeads
    <2>2. Now' = Now /\ UNCHANGED <<at, scan_code, rest>>
      BY <2>1 DEF readerVars, Now
    <2>3. Coming' = items \o (sending \o bytes)
      BY <2>1 DEF Coming
    <2> HIDE DEF items
    <2>4. items \o (sending \o bytes) = (items \o sending) \o bytes
      BY <1>1, ConcatAssociative
    <2>5. ~dropped => Leads(Now, Coming \o bytes, Goal')
      BY <1>2, <2>1, LeadsThrough DEF LeadsInv
    <2> QED  BY <1>2, <2>1, <2>2, <2>3, <2>4, <2>5 DEF LeadsInv
  <1> QED  BY <1>4, <1>5, <1>6, <1>7, <1>8, <1>9, KeyboardActions DEF Device, keyboard_read_on

LEMMA AckStep ==
    ASSUME RingInv, LeadsInv, AckInv, [TerminalNext]_terminalVars
    PROVE  AckInv'
  <1> DEFINE Waits == at \in {"ack", "ack2"}
             HasAck(s) == \E i \in 1..Len(s) : s[i] = KB_ACK
  <1>1. sending \in Seq(Byte)
    BY DEF RingInv
  <1>2. CASE UNCHANGED keyboardVars
    BY <1>2 DEF keyboardVars, AckInv
  <1>3. CASE FirstByte \/ SecondByte \/ NextByte
    <2>1. ASSUME NEW code, NEW e0, Translate(code, e0)
          PROVE  at' \in {"idle", "led", "key"}
      BY <2>1 DEF Translate
    <2>2. at' \in {"idle", "led", "key", "sequence", "E0"}
      BY <1>3, <2>1 DEF FirstByte, SecondByte, NextByte, MoreToCome
    <2> QED  BY <2>2 DEF AckInv
  <1>4. CASE set_leds
    <2>1. CASE kb_ack("ack", "led2") \/ kb_ack("ack2", "key")
      BY <2>1 DEF kb_ack, AckInv
    <2>2. CASE OutByte("led", "ack") \/ OutByte("led2", "ack2")
      <3>1. sending' = Append(sending, KB_ACK)
        BY <2>2 DEF OutByte
      <3>2. Append(sending, KB_ACK)[Len(sending) + 1] = KB_ACK
            /\ Len(sending) + 1 \in 1..Len(Append(sending, KB_ACK))
        BY <1>1
      <3> QED  BY <3>1, <3>2 DEF AckInv
    <2> QED  BY <1>4, <2>1, <2>2 DEF set_leds
  <1>5. CASE KeyTaken /\ UNCHANGED <<kb_in, modifiers, locks, got, scan_code, rest, deviceVars>>
    BY <1>5 DEF KeyTaken, AckInv
  <1>6. CASE ByteComes
    <2>1. /\ sending # <<>> /\ sending' = Tail(sending) /\ port' = Head(sending) /\ at' = at
          /\ overtaken' = (overtaken \/ (Waits /\ port = KB_ACK /\ port' # KB_ACK))
      BY <1>6 DEF ByteComes, readerVars
    <2>2. ASSUME NEW i \in 1..Len(sending), sending[i] = KB_ACK, port' # KB_ACK
          PROVE  HasAck(sending')
      <3>1. i # 1
        BY <1>1, <2>1, <2>2
      <3>2. i - 1 \in 1..Len(Tail(sending)) /\ Tail(sending)[i - 1] = sending[i]
        BY <1>1, <2>1, <3>1
      <3> QED  BY <2>1, <2>2, <3>2
    <2>3. CASE Waits /\ port' # KB_ACK
      <3>1. port = KB_ACK \/ overtaken \/ HasAck(sending)
        BY <2>3 DEF AckInv
      <3> QED  BY <2>1, <2>2, <2>3, <3>1 DEF AckInv
    <2> QED  BY <2>1, <2>3 DEF AckInv
  <1>7. CASE Type
    <2>1. PICK bytes \in Seq(Byte) : sending' = sending \o bytes /\ UNCHANGED readerVars
      BY <1>7, StrokeLeads
    <2>2. UNCHANGED <<at, port, overtaken>>
      BY <1>7, <2>1 DEF Type, Press, Release, Stroke, readerVars
    <2>3. \A i \in 1..Len(sending) : i \in 1..Len(sending \o bytes) /\ (sending \o bytes)[i] = sending[i]
      BY <1>1
    <2> QED  BY <2>1, <2>2, <2>3 DEF AckInv
  <1> QED  BY <1>2, <1>3, <1>4, <1>5, <1>6, <1>7, KeyboardActions DEF Device, keyboard_read_on

LEMMA KeysStart ==
    ASSUME TerminalInit
    PROVE  RingInv /\ LeadsInv /\ AckInv
  <1>1. KB_IN_BYTES \in Nat \ {0} /\ 0 \in Byte
    BY KeyboardAssumption DEF Byte
  <1>2. RingInv /\ RingItems(kb_in, KB_IN_BYTES) = <<>>
    BY <1>1, EmptyHasNone DEF TerminalInit, KeyboardInit, RingInv
  <1>3. Coming = <<>>
    BY <1>2 DEF Coming, TerminalInit, KeyboardInit
  <1>4. Now = Goal
    BY DEF Now, Goal, At, TerminalInit, KeyboardInit
  <1>5. Leads(Now, Coming, Goal)
    BY <1>3, <1>4, LeadsNowhere
  <1> QED  BY <1>2, <1>5 DEF LeadsInv, AckInv, TerminalInit, KeyboardInit, Locks

\* When nothing is to be read any more, it has been led to where it is.
LEMMA QuietIsThere ==
    ASSUME RingInv, LeadsInv, Quiet, ~dropped
    PROVE  Now = Goal
  <1>1. RingItems(kb_in, KB_IN_BYTES) = <<>>
    <2>1. Len(RingItems(kb_in, KB_IN_BYTES)) = 0 /\ RingItems(kb_in, KB_IN_BYTES) \in Seq(Byte)
      BY KeyboardAssumption, ItemsOf DEF RingInv, Quiet
    <2> QED  BY <2>1
  <1>2. Coming = <<>>
    BY <1>1 DEF Coming, Quiet
  <1> QED  BY <1>2, LeadsNowhere DEF LeadsInv

\* When all that was typed is read, the keys that keyboard.c takes to be down (its
\* shift_l, ctrl_l, ...) are those that are, and its locks are on that the typist
\* wants on, unless a code was dropped: for any number of strokes, a ring of any size
\* and any keys that send what keymap knows.
THEOREM ModifiersAlwaysTrue == TerminalSpec => []ModifiersTrue
  <1> DEFINE Inv == RingInv /\ LeadsInv
  <1>1. TerminalInit => Inv
    BY KeysStart
  <1>2. Inv /\ [TerminalNext]_terminalVars => Inv'
    BY RingStep, LeadsStep
  <1>3. Inv => ModifiersTrue
    <2> SUFFICES ASSUME Inv, Quiet, ~dropped
                 PROVE  modifiers = down \cap Modifiers /\ locks = lamps
      BY DEF ModifiersTrue
    <2>1. Now = Goal
      BY QuietIsThere
    <2> QED  BY <2>1 DEF Now, Goal, At
  <1> QED  BY <1>1, <1>2, <1>3, PTL DEF TerminalSpec

\* TASK_TTY stays in the middle of a sequence of codes only if one was dropped, and
\* waits in kb_ack for an ACK that has come and gone only if a code overtook it.
THEOREM StuckAlwaysCaused == TerminalSpec => []StuckCause
  <1> DEFINE Inv == RingInv /\ LeadsInv /\ AckInv
  <1>1. TerminalInit => Inv
    BY KeysStart
  <1>2. Inv /\ [TerminalNext]_terminalVars => Inv'
    BY RingStep, LeadsStep, AckStep
  <1>3. Inv => StuckCause
    <2>1. ASSUME Inv, Quiet, at \in {"E0", "sequence"}, ~dropped
          PROVE  FALSE
      <3>1. Now = Goal
        BY <2>1, QuietIsThere
      <3> QED  BY <2>1, <3>1 DEF Now, Goal, At
    <2>2. ASSUME Inv, sending = <<>>, at \in {"ack", "ack2"}, port # KB_ACK
          PROVE  overtaken
      BY <2>2 DEF AckInv
    <2> QED  BY <2>1, <2>2 DEF StuckCause
  <1> QED  BY <1>1, <1>2, <1>3, PTL DEF TerminalSpec
=============================================================================
