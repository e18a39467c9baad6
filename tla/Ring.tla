-------------------------------- MODULE Ring --------------------------------
(***************************************************************************)
(* A ring of n places: an array, the place to write next (head), the place *)
(* to read next (tail) and a count, as kernel/keyboard.c keeps the scan    *)
(* codes and kernel/tty.c the keys of a terminal.  Whether there is room,  *)
(* or something to take, is for the caller to ask.                         *)
(***************************************************************************)
EXTENDS Integers, Sequences

Ring(n, S) == [buf : [0..(n - 1) -> S], head : 0..(n - 1), tail : 0..(n - 1), count : 0..n]

EmptyRing(n, x) == [buf |-> [i \in 0..(n - 1) |-> x], head |-> 0, tail |-> 0, count |-> 0]

\* Mutant: no return to the beginning.
RingNextOn(i, n) == i + 1

RingNext(i, n) == IF i + 1 = n THEN 0 ELSE i + 1

RingPut(r, n, x) ==
    [buf |-> [r.buf EXCEPT ![r.head] = x], head |-> RingNext(r.head, n),
     tail |-> r.tail, count |-> r.count + 1]

RingFirst(r) == r.buf[r.tail]

RingTake(r, n) ==
    [buf |-> r.buf, head |-> r.head, tail |-> RingNext(r.tail, n), count |-> r.count - 1]

-----------------------------------------------------------------------------
\* The place that is i behind place t, for i up to n.
Place(t, i, n) == IF t + i < n THEN t + i ELSE t + i - n

\* What is in the ring, the first to be taken first.
RingItems(r, n) == [i \in 1..r.count |-> r.buf[Place(r.tail, i - 1, n)]]

\* head, tail and count tell the same.
RingAgrees(r, n) == r.head = Place(r.tail, r.count, n)
=============================================================================
