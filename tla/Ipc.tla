------------------------------- MODULE Ipc -------------------------------
(***************************************************************************)
(* The message passing of the kernel: sendrec (SEND and RECEIVE) and       *)
(* sendint, i.e. kernel/ipc.c and the two system calls around it in        *)
(* kernel/system_calls.c.                                                  *)
(*                                                                         *)
(* A process that runs may make any legal call (TestA and the tasks make   *)
(* some of them, module Tasks); a process whose p_flags is not 0 is        *)
(* blocked and makes none.  sys_sendrec disables interrupts for its whole  *)
(* length, so a call is one step; a disk interrupt falls between calls.    *)
(*                                                                         *)
(* The queue of blocked senders is the linked list of the code: a head     *)
(* q_sending in the receiver, a link next_sending in each sender.          *)
(***************************************************************************)

CONSTANTS
    Procs,      \* proc_table, users and tasks
    Tasks,      \* the processes whose proc_type is PROC_TYPE_TASK
    IntTasks,   \* the destinations of inform_int (TASK_HD in this system)
    Bufs,       \* addresses a process passes as the MESSAGE* of a call
    Types,      \* what a message may say (type and payload together)
    NULL,       \* the pointer 0
    NO_TASK, ANY, INTERRUPT,    \* -1, -2 and -3 in ipc.h
    HARD_INT,   \* the type of the message inform_int builds
    JUNK        \* the bytes found at address 0 of a process

ASSUME IpcAssumption ==
    /\ Tasks \subseteq Procs
    /\ IntTasks \subseteq Tasks
    /\ NULL \notin Procs \cup Bufs
    /\ {NO_TASK, ANY, INTERRUPT} \cap Procs = {}
    /\ NO_TASK # ANY /\ NO_TASK # INTERRUPT /\ ANY # INTERRUPT

VARIABLES
    p_flags,        \* p_flags[p]: the set of bits that are on
    p_msg,          \* p_msg[p]: where p's message is, or must go; NULL if 0
    p_recvfrom,     \* p_recvfrom[p]: whom p waits for while RECEIVING
    p_sendto,       \* p_sendto[p]: whom p waits for while SENDING
    has_int_msg,    \* has_int_msg[p]: an interrupt came while p did not wait
    q_sending,      \* q_sending[p]: first process blocked sending to p
    next_sending,   \* next_sending[p]: the one after p in the same queue
    mem,            \* mem[p][b]: the MESSAGE at address b of process p
    kernel,         \* whether the kernel still runs
    reported        \* whether ">>DEADLOCK<<" has been printed

procVars == <<p_flags, p_msg, p_recvfrom, p_sendto, has_int_msg>>
queueVars == <<q_sending, next_sending>>
vars == <<procVars, queueVars, mem, kernel, reported>>

SENDING == "SENDING"
RECEIVING == "RECEIVING"

Message == [source : Procs \cup {INTERRUPT, NO_TASK},
            type : Types \cup {HARD_INT, JUNK}]

\* "halted": a task called panic, hlt with interrupts off.  "wedged": an
\* assertion of the kernel failed, the same for a task and while (1) for a user.
\* "spinning": a walk over the process table never ends.
KernelState == {"up", "halted", "wedged", "spinning"}

TypeOK ==
    /\ p_flags \in [Procs -> SUBSET {SENDING, RECEIVING}]
    /\ p_msg \in [Procs -> Bufs \cup {NULL}]
    /\ p_recvfrom \in [Procs -> Procs \cup {ANY, INTERRUPT, NO_TASK}]
    /\ p_sendto \in [Procs -> Procs \cup {NO_TASK}]
    /\ has_int_msg \in [Procs -> BOOLEAN]
    /\ q_sending \in [Procs -> Procs \cup {NULL}]
    /\ next_sending \in [Procs -> Procs \cup {NULL}]
    /\ mem \in [Procs -> [Bufs \cup {NULL} -> Message]]
    /\ kernel \in KernelState
    /\ reported \in BOOLEAN

Init ==
    /\ p_flags = [p \in Procs |-> {}]
    /\ p_msg = [p \in Procs |-> NULL]
    /\ p_recvfrom = [p \in Procs |-> NO_TASK]
    /\ p_sendto = [p \in Procs |-> NO_TASK]
    /\ has_int_msg = [p \in Procs |-> FALSE]
    /\ q_sending = [p \in Procs |-> NULL]
    /\ next_sending = [p \in Procs |-> NULL]
    /\ mem = [p \in Procs |->
                [b \in Bufs \cup {NULL} |-> [source |-> NO_TASK, type |-> JUNK]]]
    /\ kernel = "up"
    /\ reported = FALSE

-----------------------------------------------------------------------------
\* The processes a walk from h along the links f visits: the least set that
\* holds h and the link of each of its members.
Orbit(f, h) ==
    {q \in Procs : \A S \in SUBSET Procs :
        (h \in S /\ \A r \in S : f[r] \in Procs => f[r] \in S) => q \in S}

SendsTo(s, d) == SENDING \in p_flags[s] /\ p_sendto[s] = d

\* The link deadlock() follows, from a blocked sender to its destination.
SendEdge == [r \in Procs |-> IF SENDING \in p_flags[r] THEN p_sendto[r] ELSE NO_TASK]

\* Mutant: only the destination itself is looked at.
DeadlockOfTwo(src, dest) == SendsTo(dest, src)

deadlock(src, dest) ==
    SENDING \in p_flags[dest] /\ \E r \in Orbit(SendEdge, dest) : SendsTo(r, src)

\* The while (1) of deadlock() leaves at a process that is not SENDING or
\* sends to src; on a cycle of senders without src it meets neither.
WalkSpins(src, dest) ==
    /\ SENDING \in p_flags[dest]
    /\ ~deadlock(src, dest)
    /\ \A r \in Orbit(SendEdge, dest) : SENDING \in p_flags[r]

\* The walk along a queue; QueueInv below says that it ends, at LastQueued, and
\* that it meets every process blocked sending to d.
Queued(d) == Orbit(next_sending, q_sending[d])
LastQueued(d) == CHOOSE t \in Queued(d) : next_sending[t] = NULL
QueuedBefore(d, s) == CHOOSE t \in Queued(d) : next_sending[t] = s

Running(p) == kernel = "up" /\ p_flags[p] = {}

WaitsFor(d, s) == RECEIVING \in p_flags[d] /\ p_recvfrom[d] \in {s, ANY}
WaitsForInterrupt(d) == RECEIVING \in p_flags[d] /\ p_recvfrom[d] \in {INTERRUPT, ANY}

-----------------------------------------------------------------------------
\* An assertion: when it fails the kernel never leaves assertion_failure.
KernelAssert(c) == kernel' = IF c THEN kernel ELSE "wedged"

\* The caller writes its message at m, sys_sendrec its number into source.
Sent(p, x) == [source |-> p, type |-> x]

\* deadlock() never returns, with interrupts off.
SendSpins(p, d, m, x) ==
    /\ WalkSpins(p, d)
    /\ kernel' = "spinning"
    /\ mem' = [mem EXCEPT ![p][m] = Sent(p, x)]
    /\ UNCHANGED <<procVars, queueVars, reported>>

\* panic(">>DEADLOCK<<") on behalf of a task: sys_printx halts the system.
SendHalts(p, d, m, x) ==
    /\ deadlock(p, d)
    /\ p \in Tasks
    /\ kernel' = "halted"
    /\ reported' = TRUE
    /\ mem' = [mem EXCEPT ![p][m] = Sent(p, x)]
    /\ UNCHANGED <<procVars, queueVars>>

\* Mutant: p_recvfrom of the receiver is not reset.
SendDeliversKeepsRecvfrom(p, d, m, x) ==
    /\ ~WalkSpins(p, d)
    /\ ~(deadlock(p, d) /\ p \in Tasks)
    /\ WaitsFor(d, p)
    /\ mem' = [mem EXCEPT ![p][m] = Sent(p, x), ![d][p_msg[d]] = Sent(p, x)]
    /\ p_msg' = [p_msg EXCEPT ![p] = NULL, ![d] = NULL]
    /\ p_flags' = [p_flags EXCEPT ![d] = @ \ {RECEIVING}]
    /\ reported' = (reported \/ deadlock(p, d))
    /\ UNCHANGED <<p_recvfrom, p_sendto, has_int_msg, kernel, queueVars>>

\* Mutant: p_msg of the sender is not reset.
SendDeliversKeepsMsg(p, d, m, x) ==
    /\ ~WalkSpins(p, d)
    /\ ~(deadlock(p, d) /\ p \in Tasks)
    /\ WaitsFor(d, p)
    /\ mem' = [mem EXCEPT ![p][m] = Sent(p, x), ![d][p_msg[d]] = Sent(p, x)]
    /\ p_msg' = [p_msg EXCEPT ![d] = NULL]
    /\ p_flags' = [p_flags EXCEPT ![d] = @ \ {RECEIVING}]
    /\ p_recvfrom' = [p_recvfrom EXCEPT ![d] = NO_TASK]
    /\ reported' = (reported \/ deadlock(p, d))
    /\ UNCHANGED <<p_sendto, has_int_msg, kernel, queueVars>>

\* d waits for p: the message is copied and d runs again.
SendDelivers(p, d, m, x) ==
    /\ ~WalkSpins(p, d)
    /\ ~(deadlock(p, d) /\ p \in Tasks)
    /\ WaitsFor(d, p)
    /\ mem' = [mem EXCEPT ![p][m] = Sent(p, x), ![d][p_msg[d]] = Sent(p, x)]
    /\ p_msg' = [p_msg EXCEPT ![p] = NULL, ![d] = NULL]
    /\ p_flags' = [p_flags EXCEPT ![d] = @ \ {RECEIVING}]
    /\ p_recvfrom' = [p_recvfrom EXCEPT ![d] = NO_TASK]
    /\ KernelAssert(/\ p_msg[d] # NULL
              /\ p_flags[d] = {RECEIVING}
              /\ p_sendto[d] = NO_TASK
              /\ p_recvfrom[p] = NO_TASK
              /\ p_sendto[p] = NO_TASK)
    /\ reported' = (reported \/ deadlock(p, d))
    /\ UNCHANGED <<p_sendto, has_int_msg, queueVars>>

\* Mutant: a sender blocks at the head of the queue.
SendBlocksFirst(p, d, m, x) ==
    /\ ~WalkSpins(p, d)
    /\ ~(deadlock(p, d) /\ p \in Tasks)
    /\ ~WaitsFor(d, p)
    /\ mem' = [mem EXCEPT ![p][m] = Sent(p, x)]
    /\ p_flags' = [p_flags EXCEPT ![p] = @ \cup {SENDING}]
    /\ p_sendto' = [p_sendto EXCEPT ![p] = d]
    /\ p_msg' = [p_msg EXCEPT ![p] = m]
    /\ q_sending' = [q_sending EXCEPT ![d] = p]
    /\ next_sending' = [next_sending EXCEPT ![p] = q_sending[d]]
    /\ reported' = (reported \/ deadlock(p, d))
    /\ UNCHANGED <<p_recvfrom, has_int_msg, kernel>>

\* d does not wait for p: p blocks at the end of d's queue.  The panic of a
\* user process only prints, so a reported deadlock goes ahead as well.
SendBlocks(p, d, m, x) ==
    /\ ~WalkSpins(p, d)
    /\ ~(deadlock(p, d) /\ p \in Tasks)
    /\ ~WaitsFor(d, p)
    /\ mem' = [mem EXCEPT ![p][m] = Sent(p, x)]
    /\ p_flags' = [p_flags EXCEPT ![p] = @ \cup {SENDING}]
    /\ p_sendto' = [p_sendto EXCEPT ![p] = d]
    /\ p_msg' = [p_msg EXCEPT ![p] = m]
    /\ IF q_sending[d] = NULL
       THEN /\ q_sending' = [q_sending EXCEPT ![d] = p]
            /\ next_sending' = [next_sending EXCEPT ![p] = NULL]
       ELSE /\ next_sending' = [next_sending EXCEPT ![LastQueued(d)] = p, ![p] = NULL]
            /\ q_sending' = q_sending
    /\ KernelAssert(p_recvfrom[p] = NO_TASK)
    /\ reported' = (reported \/ deadlock(p, d))
    /\ UNCHANGED <<p_recvfrom, has_int_msg>>

\* sendrec(SEND, d, m) with message x.
Send(p, d, m, x) ==
    /\ Running(p)
    /\ p # d
    /\ \/ SendSpins(p, d, m, x)
       \/ SendHalts(p, d, m, x)
       \/ SendDelivers(p, d, m, x)
       \/ SendBlocks(p, d, m, x)

-----------------------------------------------------------------------------
\* A message of the caller's own choosing stays at m, but for its source.
Stamped(p, m) == [mem EXCEPT ![p][m] = [source |-> p, type |-> @.type]]

PendingInterrupt(p, src) == has_int_msg[p] /\ src \in {ANY, INTERRUPT}

\* The interrupt that came earlier.  Its message was not kept: what is copied
\* is whatever p_msg points to.
ReceivePending(p, src, m) ==
    /\ PendingInterrupt(p, src)
    /\ mem' = [Stamped(p, m) EXCEPT ![p][m] = Stamped(p, m)[p][p_msg[p]]]
    /\ has_int_msg' = [has_int_msg EXCEPT ![p] = FALSE]
    /\ p_msg' = [p_msg EXCEPT ![p] = NULL]
    /\ KernelAssert(p_sendto[p] = NO_TASK)
    /\ UNCHANGED <<p_flags, p_recvfrom, p_sendto, queueVars, reported>>

\* Mutants: ANY overlooks the queue; ANY takes the last of the queue.
OffersNobodyToAny(p, src, s) == src = s /\ SendsTo(s, p)
OffersLast(p, src, s) == IF src = ANY THEN q_sending[p] # NULL /\ s = LastQueued(p)
                                      ELSE src = s /\ SendsTo(s, p)

\* s is the sender msg_receive settles on (p_from, with copyok).
Offers(p, src, s) == IF src = ANY THEN q_sending[p] = s
                                  ELSE src = s /\ SendsTo(s, p)

\* The assertions msg_receive makes before it takes the message of s.
TakeAssertions(p, s) ==
    /\ p_msg[p] = NULL
    /\ p_recvfrom[p] = NO_TASK
    /\ p_sendto[p] = NO_TASK
    /\ q_sending[p] # NULL
    /\ p_flags[s] = {SENDING}
    /\ p_msg[s] # NULL
    /\ p_recvfrom[s] = NO_TASK
    /\ p_sendto[s] = p

\* Mutants: the head is unlinked whoever is taken; a link is cleared with -1.
UnlinkHead(p, s) ==
    /\ q_sending' = [q_sending EXCEPT ![p] = next_sending[q_sending[p]]]
    /\ next_sending' = [next_sending EXCEPT ![s] = NULL]
UnlinkToNoTask(p, s) ==
    IF q_sending[p] = s
    THEN /\ q_sending' = [q_sending EXCEPT ![p] = next_sending[s]]
         /\ next_sending' = [next_sending EXCEPT ![s] = NO_TASK]
    ELSE /\ next_sending' = [next_sending EXCEPT ![QueuedBefore(p, s)] = next_sending[s],
                                                 ![s] = NO_TASK]
         /\ q_sending' = q_sending

Unlink(p, s) ==
    IF q_sending[p] = s
    THEN /\ q_sending' = [q_sending EXCEPT ![p] = next_sending[s]]
         /\ next_sending' = [next_sending EXCEPT ![s] = NULL]
    ELSE /\ next_sending' = [next_sending EXCEPT ![QueuedBefore(p, s)] = next_sending[s],
                                                 ![s] = NULL]
         /\ q_sending' = q_sending

\* Mutant: the sender is released, its message is not copied.
ReceiveTakesNothing(p, src, s, m) ==
    /\ ~PendingInterrupt(p, src)
    /\ Offers(p, src, s)
    /\ TakeAssertions(p, s)
    /\ Unlink(p, s)
    /\ mem' = Stamped(p, m)
    /\ p_msg' = [p_msg EXCEPT ![s] = NULL]
    /\ p_sendto' = [p_sendto EXCEPT ![s] = NO_TASK]
    /\ p_flags' = [p_flags EXCEPT ![s] = @ \ {SENDING}]
    /\ UNCHANGED <<p_recvfrom, has_int_msg, kernel, reported>>

\* A sender is there: its message is copied and it runs again.
ReceiveTakes(p, src, s, m) ==
    /\ ~PendingInterrupt(p, src)
    /\ Offers(p, src, s)
    /\ TakeAssertions(p, s)
    /\ Unlink(p, s)
    /\ mem' = [Stamped(p, m) EXCEPT ![p][m] = mem[s][p_msg[s]]]
    /\ p_msg' = [p_msg EXCEPT ![s] = NULL]
    /\ p_sendto' = [p_sendto EXCEPT ![s] = NO_TASK]
    /\ p_flags' = [p_flags EXCEPT ![s] = @ \ {SENDING}]
    /\ UNCHANGED <<p_recvfrom, has_int_msg, kernel, reported>>

ReceiveFails(p, src, s, m) ==
    /\ ~PendingInterrupt(p, src)
    /\ Offers(p, src, s)
    /\ ~TakeAssertions(p, s)
    /\ kernel' = "wedged"
    /\ mem' = Stamped(p, m)
    /\ UNCHANGED <<procVars, queueVars, reported>>

\* Nobody to receive from: p blocks.  The last assertion of msg_receive
\* demands that no interrupt is pending by then.
ReceiveBlocks(p, src, m) ==
    /\ ~PendingInterrupt(p, src)
    /\ \A s \in Procs : ~Offers(p, src, s)
    /\ mem' = Stamped(p, m)
    /\ p_flags' = [p_flags EXCEPT ![p] = @ \cup {RECEIVING}]
    /\ p_msg' = [p_msg EXCEPT ![p] = m]
    /\ p_recvfrom' = [p_recvfrom EXCEPT ![p] = src]
    /\ KernelAssert(p_sendto[p] = NO_TASK /\ ~has_int_msg[p])
    /\ UNCHANGED <<p_sendto, has_int_msg, queueVars, reported>>

\* sendrec(RECEIVE, src, m).
Receive(p, src, m) ==
    /\ Running(p)
    /\ p # src
    /\ \/ ReceivePending(p, src, m)
       \/ \E s \in Procs : ReceiveTakes(p, src, s, m)
       \/ \E s \in Procs : ReceiveFails(p, src, s, m)
       \/ ReceiveBlocks(p, src, m)

-----------------------------------------------------------------------------
\* inform_int(d): a waiting task gets the message and keeps its p_msg; for
\* any other the message is dropped and only the flag remains.
SendintDelivers(d) ==
    /\ WaitsForInterrupt(d)
    /\ mem' = [mem EXCEPT ![d][p_msg[d]] = [source |-> INTERRUPT, type |-> HARD_INT]]
    /\ has_int_msg' = [has_int_msg EXCEPT ![d] = FALSE]
    /\ p_flags' = [p_flags EXCEPT ![d] = @ \ {RECEIVING}]
    /\ p_recvfrom' = [p_recvfrom EXCEPT ![d] = NO_TASK]
    /\ KernelAssert(p_flags[d] = {RECEIVING} /\ p_sendto[d] = NO_TASK)
    /\ UNCHANGED <<p_msg, p_sendto, queueVars, reported>>

SendintMarks(d) ==
    /\ ~WaitsForInterrupt(d)
    /\ has_int_msg' = [has_int_msg EXCEPT ![d] = TRUE]
    /\ UNCHANGED <<p_flags, p_msg, p_recvfrom, p_sendto, queueVars, mem, kernel, reported>>

sys_sendint(d) == kernel = "up" /\ (SendintDelivers(d) \/ SendintMarks(d))

Next ==
    \/ \E p, d \in Procs, m \in Bufs, x \in Types : Send(p, d, m, x)
    \/ \E p \in Procs, src \in Procs \cup {ANY, INTERRUPT}, m \in Bufs : Receive(p, src, m)
    \/ \E d \in IntTasks : sys_sendint(d)

Spec == Init /\ [][Next]_vars

-----------------------------------------------------------------------------
\* The fields of one process agree with its flags: a process is running,
\* sending or receiving, never two at once, and only a task that takes
\* interrupts can run with a p_msg left over from an earlier call.
FieldsOf(p) ==
    /\ p_flags[p] \in {{}, {SENDING}, {RECEIVING}}
    /\ p_sendto[p] # NO_TASK <=> p_flags[p] = {SENDING}
    /\ p_recvfrom[p] # NO_TASK <=> p_flags[p] = {RECEIVING}
    /\ p_sendto[p] # p
    /\ p_recvfrom[p] # p
    /\ p_flags[p] # {} => p_msg[p] # NULL
    /\ p_flags[p] = {} /\ p_msg[p] # NULL => p \in IntTasks
    /\ has_int_msg[p] => p \in IntTasks
FieldsInv == \A p \in Procs : FieldsOf(p)

Senders(d) == {s \in Procs : SendsTo(s, d)}

\* The list that starts at q_sending[d] and follows next_sending holds the
\* processes blocked sending to d, each once, and ends.  msg_send walks it to
\* append, msg_receive to unlink from the middle.
HeadInv ==
    \A d \in Procs :
        /\ q_sending[d] \in Senders(d) \cup {NULL}
        /\ q_sending[d] = NULL => Senders(d) = {}
LinkInv ==
    \A s \in Procs : next_sending[s] # NULL =>
        /\ SENDING \in p_flags[s]
        /\ next_sending[s] \in Senders(p_sendto[s])
        /\ next_sending[s] # q_sending[p_sendto[s]]
        /\ \A t \in Procs : next_sending[t] = next_sending[s] => t = s
\* Every blocked sender but the head is the link of another.
LinkedInv ==
    \A d \in Procs : \A s \in Senders(d) :
        s = q_sending[d] \/ \E t \in Senders(d) : next_sending[t] = s
\* No cycle: every set of senders has a last and a first element.
EndsInv ==
    \A d \in Procs : \A S \in SUBSET Senders(d) : S # {} =>
        /\ \E s \in S : next_sending[s] \notin S
        /\ \E s \in S : \A t \in S : next_sending[t] # s
QueueInv == HeadInv /\ LinkInv /\ LinkedInv /\ EndsInv

NoMissedRendezvous ==
    \A s, d \in Procs : SendsTo(s, d) => ~WaitsFor(d, s)

NoMissedInterrupt ==
    kernel = "up" => \A d \in Procs : has_int_msg[d] => ~WaitsForInterrupt(d)
\* No sender stays blocked on a process that waits for its message, and no
\* task waiting for an interrupt that has already come: neither msg_send nor
\* msg_receive may block when the other side of the rendezvous is there.
NoLostWakeup == NoMissedRendezvous /\ NoMissedInterrupt

\* A set of processes each blocked sending to another of them.
SendCycle ==
    \E S \in SUBSET Procs : S # {} /\ \A s \in S : \E d \in S : SendsTo(s, d)

DeadlockReported == kernel # "halted" => (reported <=> SendCycle)
SpinCause == kernel = "spinning" => reported
\* deadlock() announces a cycle of senders in the very call that closes it,
\* and announces none that is not there (a task halts before it closes one);
\* only what was announced before can trap a later call in deadlock()'s loop.
DeadlockExact == DeadlockReported /\ SpinCause

\* Of all the assertions of the two calls, the only ones that can fail are
\* p_msg == 0 and has_int_msg == 0, of a task that takes interrupts.
WedgeCause ==
    kernel = "wedged" =>
        \E p \in IntTasks :
            \/ p_flags[p] = {} /\ p_msg[p] # NULL
            \/ p_flags[p] = {RECEIVING} /\ has_int_msg[p]

DeliveryStep ==
    \A s, d \in Procs : SendsTo(s, d) /\ ~SendsTo(s, d)' =>
        \E b \in Bufs : mem' = [mem EXCEPT ![d][b] = mem[s][p_msg[s]]]
SourceStep ==
    \A d, s \in Procs :
        p_flags[d] = {RECEIVING} /\ p_recvfrom[d] = s /\ p_flags'[d] = {} =>
            mem'[d][p_msg[d]].source = s
\* A process blocked in sendrec runs again only in the step that it waits for:
\* a sender in the one that copies its message, and nothing else, into the
\* memory of the process it was sent to; a receiver that waits for one process
\* in a step that leaves it a message which names that process as the source.
ReleasedByPartner == [][DeliveryStep /\ SourceStep]_vars
=============================================================================
