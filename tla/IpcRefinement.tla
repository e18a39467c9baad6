---------------------------- MODULE IpcRefinement ----------------------------
(***************************************************************************)
(* How the linked lists and pointers of Ipc implement the queues and the   *)
(* waiting processes of Rendezvous.                                        *)
(***************************************************************************)
EXTENDS Ipc, SequencesExt

\* proc_table has NR_TASKS + NR_PROCS entries.
ASSUME ProcsFinite == IsFiniteSet(Procs)

\* The sequence q holds what a walk from h along the links f meets.
Lists(q, f, h) ==
    /\ q = <<>> <=> h = NULL
    /\ q # <<>> => q[1] = h
    /\ \A i \in 1..Len(q) : f[q[i]] = IF i < Len(q) THEN q[i + 1] ELSE NULL

ListFrom(S, f, h) == CHOOSE q \in SeqOf(S, Cardinality(S)) : Lists(q, f, h)

\* The processes blocked sending to d, in the order of their list.
QueueOf(d) == ListFrom(Senders(d), next_sending, q_sending[d])

Inbox(d) == [i \in 1..Len(QueueOf(d)) |-> mem[QueueOf(d)[i]][p_msg[QueueOf(d)[i]]]]

WaitOf(p) == IF SENDING \in p_flags[p] THEN [op |-> "send", to |-> p_sendto[p]]
             ELSE IF RECEIVING \in p_flags[p]
             THEN [op |-> "receive", from |-> p_recvfrom[p], buf |-> p_msg[p]]
             ELSE [op |-> "run"]

Abstract == INSTANCE Rendezvous WITH
    Process <- Procs,
    IntProcess <- IntTasks,
    Buffer <- Bufs,
    IntMessage <- [source |-> INTERRUPT, type |-> HARD_INT],
    Anyone <- ANY,
    Interrupt <- INTERRUPT,
    waits <- [p \in Procs |-> WaitOf(p)],
    inbox <- [d \in Procs |-> Inbox(d)],
    flagged <- has_int_msg,
    memory <- [p \in Procs |-> [b \in Bufs |-> mem[p][b]]],
    running <- (kernel = "up")

\* Every step of the kernel is a step of Rendezvous or changes nothing there:
\* messages to a process arrive in the order they were sent, each once, whole
\* and with the name of their sender (msg_send, msg_receive, sys_sendint).
ImplementsRendezvous == Abstract!Spec
=============================================================================
