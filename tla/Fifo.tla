-------------------------------- MODULE Fifo --------------------------------
(***************************************************************************)
(* What the keyboard's ring promises: the codes that come while there is   *)
(* room are read once each and in the order in which they came; a code     *)
(* that comes while there is none is dropped, and nothing else is.         *)
(***************************************************************************)
EXTENDS Naturals, Sequences

CONSTANTS Size, Code

VARIABLES queue, got

FifoInit == queue = <<>>

Come(c) ==
    /\ queue' = IF Len(queue) < Size THEN Append(queue, c) ELSE queue
    /\ UNCHANGED got

Go ==
    /\ queue # <<>>
    /\ got' = Head(queue)
    /\ queue' = Tail(queue)

FifoNext == (\E c \in Code : Come(c)) \/ Go

FifoSpec == FifoInit /\ [][FifoNext]_<<queue, got>>
=============================================================================
