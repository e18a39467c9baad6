--------------------------- MODULE TasksProofs ---------------------------
(***************************************************************************)
(* Theorems about Tasks, for any number of users, any sizes of requests    *)
(* and any number of partition tables: no message stops the machine, and   *)
(* each process gets what it waits for.                                    *)
(***************************************************************************)
EXTENDS Tasks, IpcProofs

USE DEF SENDING, RECEIVING

(* The inductive invariant: what each process is doing at each label.      *)

\* The labels of a process whose request has been taken, before it receives.
AskedSys == {"tick_answer", "wait_t0_answer", "wait_poll_answer"}
AskedHd == {"fs_open_answer", "fs_geo_answer", "fs_driver_answer"}
AskedFs == {"fs_answer"}

\* The request of c has been taken by d and the answer has not come yet.
Awaits(c, d, asked) ==
    \/ p_flags[c] = {} /\ pc[c] \in asked
    \/ p_flags[c] = {RECEIVING} /\ p_recvfrom[c] = d
AwaitsSys(c) == Awaits(c, TASK_SYS, AskedSys)
AwaitsFs(u) == Awaits(u, TASK_FS, AskedFs)
AwaitsHd == Awaits(TASK_FS, TASK_HD, AskedHd)

\* p is blocked in sendrec(SEND, d, m), or in sendrec(RECEIVE, src, m).
InSend(p, d, m) == p_sendto[p] = d /\ p_msg[p] = m
InReceive(p, src, m) == p_recvfrom[p] = src /\ p_msg[p] = m

UserInv(u) ==
    /\ pc[u] \in {"run", "fs_answer", "fs_return", "tick_answer"}
    /\ p_flags[u] = {SENDING} =>
         \/ /\ pc[u] = "fs_answer" /\ InSend(u, TASK_FS, "msg")
            /\ mem[u]["msg"] = Sent(u, Says("OPEN", u, 0))
         \/ /\ pc[u] = "tick_answer" /\ InSend(u, TASK_SYS, "tick_msg")
            /\ mem[u]["tick_msg"] = Sent(u, Says("GET_TICKS", u, 0))
    /\ p_flags[u] = {RECEIVING} =>
         \/ pc[u] = "fs_return" /\ InReceive(u, TASK_FS, "msg")
         \/ pc[u] = "run" /\ InReceive(u, TASK_SYS, "tick_msg")
    /\ p_flags[u] = {} /\ pc[u] = "fs_return" =>
         mem[u]["msg"] = Sent(TASK_FS, Says("SYSCALL_RET", u, 0))

SysClients == Users \cup {TASK_HD}
SysInv ==
    /\ pc[TASK_SYS] \in {"sys_receive", "sys_reply"}
    /\ p_flags[TASK_SYS] = {SENDING} =>
         /\ pc[TASK_SYS] = "sys_receive" /\ p_msg[TASK_SYS] = "msg"
         /\ p_sendto[TASK_SYS] \in SysClients /\ AwaitsSys(p_sendto[TASK_SYS])
    /\ p_flags[TASK_SYS] = {RECEIVING} =>
         pc[TASK_SYS] = "sys_reply" /\ InReceive(TASK_SYS, ANY, "msg")
    /\ p_flags[TASK_SYS] = {} /\ pc[TASK_SYS] = "sys_reply" =>
         \E c \in SysClients : /\ mem[TASK_SYS]["msg"] = Sent(c, Says("GET_TICKS", c, 0))
                               /\ AwaitsSys(c)

HdRequests == {Says(k, TASK_FS, 0) : k \in {"DEV_OPEN", "DEV_IOCTL"}}
                \cup {Says(k, TASK_FS, n) : k \in {"DEV_READ", "DEV_WRITE"}, n \in 1..MaxSectors}
WaitLabels == {"wait_t0", "wait_t0_answer", "wait_poll", "wait_poll_answer", "wait_test",
               "hd_error"}
HdLabels == WaitLabels \cup {"hd_receive", "hd_dispatch", "hd_command", "hd_transfer",
              "hd_interrupt", "hd_port_read", "hd_port_write", "hd_written", "hd_reply"}

\* Between the request it has taken and the end of the answer.
HdBusy == ~ \/ p_flags[TASK_HD] = {} /\ pc[TASK_HD] = "hd_receive"
            \/ p_flags[TASK_HD] = {RECEIVING} /\ pc[TASK_HD] = "hd_dispatch"

HdInv ==
    /\ pc[TASK_HD] \in HdLabels
    /\ p_flags[TASK_HD] = {SENDING} =>
         \/ pc[TASK_HD] = "hd_receive" /\ InSend(TASK_HD, TASK_FS, "msg")
         \/ /\ pc[TASK_HD] \in AskedSys /\ InSend(TASK_HD, TASK_SYS, "tick_msg")
            /\ mem[TASK_HD]["tick_msg"] = Sent(TASK_HD, Says("GET_TICKS", TASK_HD, 0))
    /\ p_flags[TASK_HD] = {RECEIVING} =>
         \/ pc[TASK_HD] = "hd_dispatch" /\ InReceive(TASK_HD, ANY, "msg")
         \/ pc[TASK_HD] \in {"wait_poll", "wait_test"} /\ InReceive(TASK_HD, TASK_SYS, "tick_msg")
         \/ pc[TASK_HD] \in {"hd_port_read", "hd_written"} /\ InReceive(TASK_HD, INTERRUPT, "int_msg")
    /\ p_flags[TASK_HD] = {} /\ pc[TASK_HD] \in AskedSys \cup {"hd_receive"} =>
         p_msg[TASK_HD] = NULL
    /\ HdBusy =>
         /\ AwaitsHd
         /\ pc[TASK_HD] # "hd_receive" =>
              \E x \in HdRequests : mem[TASK_HD]["msg"] = Sent(TASK_FS, x)

FsInv ==
    /\ pc[TASK_FS] \in AskedHd \cup {"fs_open", "fs_geo", "fs_receive", "fs_dispatch",
                                     "fs_work", "fs_tty_answer", "fs_panic"}
    /\ p_flags[TASK_FS] = {SENDING} =>
         \/ /\ pc[TASK_FS] = "fs_receive" /\ InSend(TASK_FS, fs.src, "msg")
            /\ mem[TASK_FS]["msg"] = Sent(TASK_FS, Says("SYSCALL_RET", fs.src, 0))
            /\ fs.src \in Users /\ AwaitsFs(fs.src)
         \/ /\ pc[TASK_FS] \in AskedHd /\ InSend(TASK_FS, TASK_HD, "driver_msg")
            /\ \E x \in HdRequests : mem[TASK_FS]["driver_msg"] = Sent(TASK_FS, x)
         \/ pc[TASK_FS] = "fs_tty_answer" /\ InSend(TASK_FS, TASK_TTY, "driver_msg")
    /\ p_flags[TASK_FS] = {RECEIVING} =>
         \/ pc[TASK_FS] = "fs_dispatch" /\ InReceive(TASK_FS, ANY, "msg")
         \/ pc[TASK_FS] \in {"fs_geo", "fs_work"} /\ InReceive(TASK_FS, TASK_HD, "driver_msg")
    /\ p_flags[TASK_FS] = {} /\ pc[TASK_FS] = "fs_dispatch" =>
         \E u \in Users : mem[TASK_FS]["msg"] = Sent(u, Says("OPEN", u, 0)) /\ AwaitsFs(u)
    /\ pc[TASK_FS] \in {"fs_work", "fs_driver_answer", "fs_tty_answer"} =>
         \/ fs.src = NO_TASK
         \/ /\ fs.src \in Users /\ AwaitsFs(fs.src)
            /\ mem[TASK_FS]["msg"].type = Says("OPEN", fs.src, 0)
    /\ pc[TASK_FS] \in {"fs_open", "fs_open_answer", "fs_geo", "fs_geo_answer"} =>
         fs.src = NO_TASK

TtyInv == pc[TASK_TTY] = "tty" /\ p_flags[TASK_TTY] = {}

\* The interrupt of the drive: none, or one, on the line or noted by sendint.
Quiet == ~irq /\ ~has_int_msg[TASK_HD]
Raised == irq <=> ~has_int_msg[TASK_HD]
DriveIdle == disk = [state |-> "idle", left |-> 0] /\ Quiet
\* The drive reads the next sector, has data to take, has a sector to store.
Incoming ==
    /\ hd.left > 0 /\ disk.left = hd.left
    /\ \/ disk.state = "busy_in" /\ Quiet
       \/ disk.state = "data_in" /\ Raised
Outgoing ==
    /\ hd.left > 0 /\ disk.left = hd.left /\ disk.state \in {"busy_first", "data_out"}
    /\ Quiet
Stored ==
    /\ hd.left > 0 /\ disk.left = hd.left - 1
    /\ disk.state = IF hd.left = 1 THEN "idle" ELSE "data_out"
Storing ==
    /\ hd.left > 0
    /\ \/ disk.state = "busy_out" /\ disk.left = hd.left /\ Quiet
       \/ Stored /\ Raised

DriveInv ==
    LET label == pc[TASK_HD]
    IN  /\ label \in {"hd_receive", "hd_dispatch", "hd_reply"} => DriveIdle
        /\ label \in WaitLabels =>
             \/ hd.return = "hd_command" /\ DriveIdle /\ hd.left > 0 /\ hd.commands > 0
             \/ hd.return = "hd_port_write" /\ hd.op = "out" /\ Outgoing
        /\ label = "hd_command" => DriveIdle /\ hd.left > 0 /\ hd.commands > 0
        /\ label = "hd_transfer" =>
             \/ hd.left = 0 /\ DriveIdle
             \/ hd.op = "in" /\ Incoming
             \/ hd.op = "out" /\ Outgoing
        /\ label = "hd_interrupt" => \/ hd.op = "in" /\ Incoming
                                     \/ hd.op = "out" /\ Storing
        /\ label = "hd_port_read" =>
             /\ hd.op = "in"
             /\ \/ /\ p_flags[TASK_HD] = {} /\ Quiet
                   /\ hd.left > 0 /\ disk.left = hd.left /\ disk.state = "data_in"
                \/ p_flags[TASK_HD] = {RECEIVING} /\ Incoming /\ ~has_int_msg[TASK_HD]
        /\ label = "hd_port_write" => hd.op = "out" /\ Outgoing /\ disk.state = "data_out"
        /\ label = "hd_written" =>
             /\ hd.op = "out"
             /\ \/ p_flags[TASK_HD] = {} /\ Quiet /\ Stored
                \/ p_flags[TASK_HD] = {RECEIVING} /\ Storing /\ ~has_int_msg[TASK_HD]

\* What the processes do to one another and to the drive, with the types of
\* the variables of Tasks.
KernelUp == kernel = "up" /\ ~reported
ProtocolInv ==
    /\ TasksTypeOK /\ KernelUp
    /\ \A u \in Users : UserInv(u)
    /\ SysInv /\ HdInv /\ FsInv /\ TtyInv /\ DriveInv

TasksInv == IpcInv /\ ProtocolInv

-----------------------------------------------------------------------------
(* What a call does, process by process.                                   *)

Untouched(r) ==
    /\ pc'[r] = pc[r] /\ p_flags'[r] = p_flags[r] /\ p_msg'[r] = p_msg[r]
    /\ p_recvfrom'[r] = p_recvfrom[r] /\ p_sendto'[r] = p_sendto[r]
    /\ mem'[r] = mem[r]

\* p goes on to label, and of its memory only m changes.
Moves(p, m, label) ==
    /\ pc'[p] = label
    /\ \A b \in Bufs \ {m} : mem'[p][b] = mem[p][b]

StaysUp == kernel' = "up" /\ ~reported'

\* sendrec(SEND, d, m) of p finds d waiting, or waits for it.
Delivers(p, d, x) ==
    /\ WaitsFor(d, p) /\ pc'[d] = pc[d]
    /\ p_flags'[p] = {} /\ p_msg'[p] = NULL
    /\ p_flags'[d] = {} /\ p_msg'[d] = NULL
    /\ mem'[d][p_msg[d]] = Sent(p, x)
    /\ \A b \in Bufs \ {p_msg[d]} : mem'[d][b] = mem[d][b]
Blocks(p, d, m) ==
    /\ ~WaitsFor(d, p)
    /\ p_flags'[p] = {SENDING} /\ p_sendto'[p] = d /\ p_msg'[p] = m
    /\ Untouched(d)
Sends(p, d, m, x, label) ==
    /\ StaysUp /\ has_int_msg' = has_int_msg
    /\ p # d /\ p_flags[p] = {} /\ Moves(p, m, label) /\ mem'[p][m] = Sent(p, x)
    /\ \A r \in Procs \ {p, d} : Untouched(r)
    /\ Delivers(p, d, x) \/ Blocks(p, d, m)

\* sendrec(RECEIVE, src, m) of p finds the sender s, or waits.
Takes(p, s, src, m) ==
    /\ SendsTo(s, p) /\ src \in {ANY, s}
    /\ p_flags'[p] = {} /\ p_msg'[p] = NULL /\ mem'[p][m] = mem[s][p_msg[s]]
    /\ p_flags'[s] = {} /\ p_msg'[s] = NULL /\ pc'[s] = pc[s] /\ mem'[s] = mem[s]
    /\ \A r \in Procs \ {p, s} : Untouched(r)
Waits(p, src, m) ==
    /\ p_flags'[p] = {RECEIVING} /\ p_recvfrom'[p] = src /\ p_msg'[p] = m
    /\ \A r \in Procs \ {p} : Untouched(r)
Receives(p, src, m, label) ==
    /\ StaysUp /\ has_int_msg' = has_int_msg
    /\ p_flags[p] = {} /\ Moves(p, m, label)
    /\ (\E s \in Procs \ {p} : Takes(p, s, src, m)) \/ Waits(p, src, m)

\* A message that closes no cycle of senders is delivered or queued, and no
\* assertion fails.
LEMMA SendEffect ==
  ASSUME TasksInv, NEW p \in Procs, NEW d \in Procs, NEW m \in Bufs, NEW x \in Types,
         NEW label, SendThen(p, d, m, x, label),
         SENDING \in p_flags[d] => \A r \in Procs : ~SendsTo(r, p)
  PROVE  Sends(p, d, m, x, label)
<1> USE DEF TasksInv, IpcInv
<1>1. /\ kernel = "up" /\ ~reported /\ p_flags[p] = {} /\ p # d /\ Send(p, d, m, x)
      /\ pc' = [pc EXCEPT ![p] = label] /\ DOMAIN pc = Procs
  BY DEF SendThen, Send, Running, Goto, ProtocolInv, KernelUp, TasksTypeOK
<1>2. p_sendto[p] = NO_TASK /\ p_recvfrom[p] = NO_TASK
  BY <1>1 DEF FieldsInv, FieldsOf
<1>3. ~deadlock(p, d)
  BY <1>1 DEF deadlock, Orbit
<1>4. ~WalkSpins(p, d)
  BY <1>1, SpinningMeansCycle DEF DeadlockReported
<1>5. /\ \A r \in Procs \ {p} : pc'[r] = pc[r]
      /\ pc'[p] = label
  BY <1>1
<1>6. CASE SendDelivers(p, d, m, x)
  <2>1. /\ p_msg[d] # NULL /\ p_msg[d] \in Bufs /\ p_flags[d] = {RECEIVING}
        /\ p_sendto[d] = NO_TASK /\ WaitsFor(d, p)
    <3>1. RECEIVING \in p_flags[d] /\ WaitsFor(d, p)
      BY <1>6 DEF SendDelivers, WaitsFor
    <3>2. p_flags[d] = {RECEIVING}
      BY <3>1 DEF FieldsInv, FieldsOf
    <3> QED
      BY <3>1, <3>2 DEF FieldsInv, FieldsOf, TypeOK
  <2>2. StaysUp /\ has_int_msg' = has_int_msg
    BY <1>1, <1>2, <1>3, <1>6, <2>1 DEF SendDelivers, KernelAssert, StaysUp
  <2>3. /\ p_flags' = [p_flags EXCEPT ![d] = @ \ {RECEIVING}] /\ DOMAIN p_flags = Procs
        /\ p_msg' = [p_msg EXCEPT ![p] = NULL, ![d] = NULL] /\ DOMAIN p_msg = Procs
        /\ p_recvfrom' = [p_recvfrom EXCEPT ![d] = NO_TASK] /\ DOMAIN p_recvfrom = Procs
        /\ p_sendto' = p_sendto
    BY <1>6 DEF SendDelivers, TypeOK
  <2>4. /\ mem' = [mem EXCEPT ![p][m] = Sent(p, x), ![d][p_msg[d]] = Sent(p, x)]
        /\ mem \in [Procs -> [Bufs \cup {NULL} -> Message]]
    BY <1>6 DEF SendDelivers, TypeOK
  <2>5. /\ mem'[p] = [mem[p] EXCEPT ![m] = Sent(p, x)]
        /\ mem'[d] = [mem[d] EXCEPT ![p_msg[d]] = Sent(p, x)]
        /\ \A r \in Procs \ {p, d} : mem'[r] = mem[r]
    BY <1>1, <2>4
  <2>6. /\ mem'[p][m] = Sent(p, x) /\ \A b \in Bufs \ {m} : mem'[p][b] = mem[p][b]
        /\ mem'[d][p_msg[d]] = Sent(p, x)
        /\ \A b \in Bufs \ {p_msg[d]} : mem'[d][b] = mem[d][b]
    BY <2>1, <2>4, <2>5
  <2>7. \A r \in Procs \ {p, d} : Untouched(r)
    BY <1>5, <2>3, <2>5 DEF Untouched
  <2>8. p_flags'[p] = {} /\ p_msg'[p] = NULL /\ p_flags'[d] = {} /\ p_msg'[d] = NULL
    BY <1>1, <2>1, <2>3
  <2> QED
    BY <1>1, <1>5, <2>1, <2>2, <2>6, <2>7, <2>8 DEF Sends, Delivers, Moves
<1>7. CASE SendBlocks(p, d, m, x)
  <2>1. StaysUp /\ has_int_msg' = has_int_msg /\ ~WaitsFor(d, p)
    BY <1>1, <1>2, <1>3, <1>7 DEF SendBlocks, KernelAssert, StaysUp
  <2>2. /\ p_flags' = [p_flags EXCEPT ![p] = @ \cup {SENDING}] /\ DOMAIN p_flags = Procs
        /\ p_msg' = [p_msg EXCEPT ![p] = m] /\ DOMAIN p_msg = Procs
        /\ p_sendto' = [p_sendto EXCEPT ![p] = d] /\ DOMAIN p_sendto = Procs
        /\ p_recvfrom' = p_recvfrom
    BY <1>7 DEF SendBlocks, TypeOK
  <2>3. /\ mem' = [mem EXCEPT ![p][m] = Sent(p, x)]
        /\ mem \in [Procs -> [Bufs \cup {NULL} -> Message]]
    BY <1>7 DEF SendBlocks, TypeOK
  <2>4. \A r \in Procs \ {p} : Untouched(r)
    BY <1>5, <2>2, <2>3 DEF Untouched
  <2>5. /\ mem'[p][m] = Sent(p, x) /\ \A b \in Bufs \ {m} : mem'[p][b] = mem[p][b]
        /\ p_flags'[p] = {SENDING} /\ p_sendto'[p] = d /\ p_msg'[p] = m
    BY <1>1, <2>2, <2>3
  <2> QED
    BY <1>1, <1>5, <2>1, <2>4, <2>5 DEF Sends, Blocks, Moves
<1> QED
  BY <1>1, <1>3, <1>4, <1>6, <1>7 DEF Send, SendSpins, SendHalts

\* A process without a message left over, and without an interrupt, takes the
\* message of a sender or waits, and no assertion fails.
LEMMA ReceiveEffect ==
  ASSUME TasksInv, NEW p \in Procs, NEW src \in Procs \cup {ANY, INTERRUPT}, NEW m \in Bufs,
         NEW label, ReceiveThen(p, src, m, label), ~has_int_msg[p],
         p_msg[p] = NULL \/ src = INTERRUPT
  PROVE  Receives(p, src, m, label)
<1> USE DEF TasksInv, IpcInv
<1>1. /\ kernel = "up" /\ ~reported /\ p_flags[p] = {} /\ Receive(p, src, m)
      /\ pc' = [pc EXCEPT ![p] = label] /\ DOMAIN pc = Procs
  BY DEF ReceiveThen, Receive, Running, Goto, ProtocolInv, KernelUp, TasksTypeOK
<1>2. p_sendto[p] = NO_TASK /\ p_recvfrom[p] = NO_TASK
  BY <1>1 DEF FieldsInv, FieldsOf
<1>3. /\ \A r \in Procs \ {p} : pc'[r] = pc[r]
      /\ pc'[p] = label
  BY <1>1
<1>4. ASSUME NEW s \in Procs, Offers(p, src, s)
      PROVE  /\ SendsTo(s, p) /\ src \in {ANY, s} /\ s # p /\ TakeAssertions(p, s)
  <2>1. SendsTo(s, p) /\ src \in {ANY, s} /\ q_sending[p] # NULL
    BY <1>4, IpcAssumption DEF Offers, QueueInv, HeadInv, Senders
  <2>2. src # INTERRUPT
    BY <2>1, IpcAssumption
  <2>3. s # p /\ p_flags[s] = {SENDING} /\ p_msg[s] # NULL /\ p_recvfrom[s] = NO_TASK
    BY <2>1, SenderFacts
  <2> QED
    BY <1>2, <2>1, <2>2, <2>3 DEF TakeAssertions, SendsTo
<1>5. /\ Stamped(p, m) \in [Procs -> [Bufs \cup {NULL} -> Message]]
      /\ \A r \in Procs \ {p} : Stamped(p, m)[r] = mem[r]
      /\ \A b \in Bufs \ {m} : Stamped(p, m)[p][b] = mem[p][b]
  <2>1. [source |-> p, type |-> mem[p][m].type] \in Message
    BY DEF Message, TypeOK
  <2> QED
    BY <2>1 DEF Stamped, TypeOK
<1>6. ASSUME NEW s \in Procs, ReceiveTakes(p, src, s, m)
      PROVE  Receives(p, src, m, label)
  <2>1. SendsTo(s, p) /\ src \in {ANY, s} /\ s # p /\ TakeAssertions(p, s)
    BY <1>4, <1>6 DEF ReceiveTakes
  <2>2. /\ p_flags' = [p_flags EXCEPT ![s] = @ \ {SENDING}] /\ DOMAIN p_flags = Procs
        /\ p_msg' = [p_msg EXCEPT ![s] = NULL] /\ DOMAIN p_msg = Procs
        /\ p_sendto' = [p_sendto EXCEPT ![s] = NO_TASK] /\ DOMAIN p_sendto = Procs
        /\ UNCHANGED <<p_recvfrom, has_int_msg, kernel, reported>>
    BY <1>6 DEF ReceiveTakes, TypeOK
  <2>3. mem' = [Stamped(p, m) EXCEPT ![p][m] = mem[s][p_msg[s]]]
    BY <1>6 DEF ReceiveTakes
  <2>4. /\ mem'[p][m] = mem[s][p_msg[s]] /\ mem'[s] = mem[s]
        /\ \A b \in Bufs \ {m} : mem'[p][b] = mem[p][b]
        /\ \A r \in Procs \ {p} : mem'[r] = mem[r]
    BY <1>5, <2>1, <2>3
  <2>5. \A r \in Procs \ {p, s} : Untouched(r)
    BY <1>3, <2>2, <2>4 DEF Untouched
  <2>6. p_msg[p] = NULL /\ p_flags[s] = {SENDING}
    BY <2>1 DEF TakeAssertions
  <2>7. /\ p_flags'[p] = {} /\ p_msg'[p] = NULL /\ p_flags'[s] = {} /\ p_msg'[s] = NULL
        /\ pc'[s] = pc[s]
    BY <1>1, <1>3, <2>1, <2>2, <2>6
  <2>8. Takes(p, s, src, m)
    BY <2>1, <2>4, <2>5, <2>7 DEF Takes
  <2> QED
    BY <1>1, <1>3, <2>1, <2>2, <2>4, <2>8 DEF Receives, StaysUp, Moves
<1>7. CASE ReceiveBlocks(p, src, m)
  <2>1. /\ p_flags' = [p_flags EXCEPT ![p] = @ \cup {RECEIVING}] /\ DOMAIN p_flags = Procs
        /\ p_msg' = [p_msg EXCEPT ![p] = m] /\ DOMAIN p_msg = Procs
        /\ p_recvfrom' = [p_recvfrom EXCEPT ![p] = src] /\ DOMAIN p_recvfrom = Procs
        /\ UNCHANGED <<p_sendto, has_int_msg, reported>> /\ mem' = Stamped(p, m)
    BY <1>7 DEF ReceiveBlocks, TypeOK
  <2>2. kernel' = "up"
    BY <1>1, <1>2, <1>7 DEF ReceiveBlocks, KernelAssert
  <2>3. \A r \in Procs \ {p} : Untouched(r)
    BY <1>3, <1>5, <2>1 DEF Untouched
  <2>4. p_flags'[p] = {RECEIVING} /\ p_recvfrom'[p] = src /\ p_msg'[p] = m
    BY <1>1, <2>1
  <2> QED
    BY <1>1, <1>3, <1>5, <2>1, <2>2, <2>3, <2>4 DEF Receives, Waits, StaysUp, Moves
<1> QED
  BY <1>1, <1>4, <1>6, <1>7 DEF Receive, ReceivePending, PendingInterrupt, ReceiveFails

-----------------------------------------------------------------------------
(* The cast.                                                               *)

LEMMA Cast ==
  /\ Procs = Users \cup {TASK_TTY, TASK_SYS, TASK_HD, TASK_FS}
  /\ Users \cap {TASK_TTY, TASK_SYS, TASK_HD, TASK_FS} = {}
  /\ TASK_TTY # TASK_SYS /\ TASK_TTY # TASK_HD /\ TASK_TTY # TASK_FS
  /\ TASK_SYS # TASK_HD /\ TASK_SYS # TASK_FS /\ TASK_HD # TASK_FS
  /\ NULL \notin Procs /\ NULL \notin Bufs
  /\ ANY \notin Procs /\ INTERRUPT \notin Procs /\ NO_TASK \notin Procs
  /\ ANY # INTERRUPT /\ Bufs = {"msg", "driver_msg", "tick_msg", "int_msg"}
  /\ IntTasks = {TASK_HD}
BY TasksAssumption, IpcAssumption

LEMMA SentFields ==
  ASSUME NEW p, NEW x
  PROVE  Sent(p, x).source = p /\ Sent(p, x).type = x
BY DEF Sent

LEMMA SaysFields ==
  ASSUME NEW k, NEW p, NEW n
  PROVE  Says(k, p, n).k = k /\ Says(k, p, n).of = p /\ Says(k, p, n).n = n
BY DEF Says

\* A request to TASK_HD is one of four kinds, and a transfer has a length.
LEMMA RequestKinds ==
  ASSUME NEW x \in HdRequests
  PROVE  /\ x \in Types
         /\ x.k \in {"DEV_OPEN", "DEV_READ", "DEV_WRITE", "DEV_IOCTL"}
         /\ x.k \in {"DEV_READ", "DEV_WRITE"} => x.n \in 1..MaxSectors
BY TypesAssumption, SaysFields DEF HdRequests

\* What a process that is not blocked has in its fields, and what one is.
LEMMA Flags ==
  ASSUME TasksInv, NEW p \in Procs
  PROVE  /\ p_flags[p] \in {{}, {SENDING}, {RECEIVING}}
         /\ p_flags[p] = {} /\ p # TASK_HD => p_msg[p] = NULL
         /\ p # TASK_HD => ~has_int_msg[p]
         /\ \A d : SendsTo(p, d) <=> p_flags[p] = {SENDING} /\ p_sendto[p] = d
         /\ \A s : WaitsFor(p, s) <=> p_flags[p] = {RECEIVING} /\ p_recvfrom[p] \in {s, ANY}
BY Cast DEF TasksInv, IpcInv, FieldsInv, FieldsOf, SendsTo, WaitsFor

\* Everyone who can be blocked sending to d.
UserSends(r, d) ==
    \/ /\ pc[r] = "fs_answer" /\ d = TASK_FS /\ p_msg[r] = "msg"
       /\ mem[r]["msg"] = Sent(r, Says("OPEN", r, 0))
    \/ /\ pc[r] = "tick_answer" /\ d = TASK_SYS /\ p_msg[r] = "tick_msg"
       /\ mem[r]["tick_msg"] = Sent(r, Says("GET_TICKS", r, 0))
HdSends(d) ==
    \/ pc[TASK_HD] = "hd_receive" /\ d = TASK_FS /\ p_msg[TASK_HD] = "msg" /\ AwaitsHd
    \/ /\ pc[TASK_HD] \in AskedSys /\ d = TASK_SYS /\ p_msg[TASK_HD] = "tick_msg"
       /\ mem[TASK_HD]["tick_msg"] = Sent(TASK_HD, Says("GET_TICKS", TASK_HD, 0)) /\ AwaitsHd
FsSends(d) ==
    \/ /\ pc[TASK_FS] = "fs_receive" /\ d \in Users /\ d = fs.src /\ p_msg[TASK_FS] = "msg"
       /\ mem[TASK_FS]["msg"] = Sent(TASK_FS, Says("SYSCALL_RET", d, 0))
       /\ AwaitsFs(d)
    \/ /\ pc[TASK_FS] \in AskedHd /\ d = TASK_HD /\ p_msg[TASK_FS] = "driver_msg"
       /\ \E x \in HdRequests : mem[TASK_FS]["driver_msg"] = Sent(TASK_FS, x)
    \/ pc[TASK_FS] = "fs_tty_answer" /\ d = TASK_TTY
LEMMA SenderKinds ==
  ASSUME TasksInv, NEW r \in Procs, NEW d \in Procs, SendsTo(r, d)
  PROVE  \/ r \in Users /\ UserSends(r, d)
         \/ /\ r = TASK_SYS /\ pc[r] = "sys_receive" /\ p_msg[r] = "msg"
            /\ d \in SysClients /\ AwaitsSys(d)
         \/ r = TASK_HD /\ HdSends(d)
         \/ r = TASK_FS /\ FsSends(d)
<1>1. p_flags[r] = {SENDING} /\ p_sendto[r] = d
  BY Flags
<1>2. CASE r \in Users
  BY <1>1, <1>2 DEF TasksInv, ProtocolInv, UserInv, UserSends, InSend
<1>3. CASE r = TASK_SYS
  BY <1>1, <1>3 DEF TasksInv, ProtocolInv, SysInv
<1>4. CASE r = TASK_HD
  BY <1>1, <1>4 DEF TasksInv, ProtocolInv, HdInv, HdSends, InSend, HdBusy
<1>5. CASE r = TASK_FS
  BY <1>1, <1>5 DEF TasksInv, ProtocolInv, FsInv, FsSends, InSend
<1>6. CASE r = TASK_TTY
  BY <1>1, <1>6 DEF TasksInv, ProtocolInv, TtyInv
<1> QED
  BY <1>2, <1>3, <1>4, <1>5, <1>6, Cast

\* Everyone who can be blocked until p sends it a message.
LEMMA ReceiverKinds ==
  ASSUME TasksInv, NEW p \in Procs, NEW d \in Procs, WaitsFor(d, p)
  PROVE  \/ /\ d \in Users
            /\ \/ pc[d] = "fs_return" /\ p = TASK_FS /\ p_msg[d] = "msg"
               \/ pc[d] = "run" /\ p = TASK_SYS /\ p_msg[d] = "tick_msg"
         \/ d = TASK_SYS /\ pc[d] = "sys_reply" /\ p_recvfrom[d] = ANY /\ p_msg[d] = "msg"
         \/ /\ d = TASK_HD
            /\ \/ pc[d] = "hd_dispatch" /\ p_recvfrom[d] = ANY /\ p_msg[d] = "msg"
               \/ pc[d] \in {"wait_poll", "wait_test"} /\ p = TASK_SYS /\ p_msg[d] = "tick_msg"
         \/ /\ d = TASK_FS
            /\ \/ pc[d] = "fs_dispatch" /\ p_recvfrom[d] = ANY /\ p_msg[d] = "msg"
               \/ /\ pc[d] \in {"fs_geo", "fs_work"} /\ p = TASK_HD
                  /\ p_recvfrom[d] = TASK_HD /\ p_msg[d] = "driver_msg"
<1>1. p_flags[d] = {RECEIVING} /\ p_recvfrom[d] \in {p, ANY}
  BY Flags
<1>2. CASE d \in Users
  BY <1>1, <1>2, Cast DEF TasksInv, ProtocolInv, UserInv, InReceive
<1>3. CASE d = TASK_SYS
  BY <1>1, <1>3 DEF TasksInv, ProtocolInv, SysInv, InReceive
<1>4. CASE d = TASK_HD
  BY <1>1, <1>4, Cast DEF TasksInv, ProtocolInv, HdInv, InReceive
<1>5. CASE d = TASK_FS
  BY <1>1, <1>5, Cast DEF TasksInv, ProtocolInv, FsInv, InReceive
<1>6. CASE d = TASK_TTY
  BY <1>1, <1>6 DEF TasksInv, ProtocolInv, TtyInv
<1> QED
  BY <1>2, <1>3, <1>4, <1>5, <1>6, Cast

-----------------------------------------------------------------------------
(* What a step that leaves a process alone keeps.                          *)

LEMMA UserFrame ==
  ASSUME NEW u \in Users, UserInv(u), Untouched(u)
  PROVE  UserInv(u)'
BY DEF UserInv, Untouched, InSend, InReceive

LEMMA AwaitsFrame ==
  ASSUME NEW c, Untouched(c)
  PROVE  (AwaitsSys(c)' <=> AwaitsSys(c)) /\ (AwaitsFs(c)' <=> AwaitsFs(c))
BY DEF Untouched, AwaitsSys, AwaitsFs, Awaits

LEMMA AwaitsHdFrame ==
  ASSUME Untouched(TASK_FS)
  PROVE  AwaitsHd' <=> AwaitsHd
BY DEF Untouched, AwaitsHd, Awaits

LEMMA SysFrame ==
  ASSUME SysInv, Untouched(TASK_SYS), \A c \in SysClients : AwaitsSys(c) => AwaitsSys(c)'
  PROVE  SysInv'
<1>1. /\ pc'[TASK_SYS] = pc[TASK_SYS] /\ p_flags'[TASK_SYS] = p_flags[TASK_SYS]
      /\ p_sendto'[TASK_SYS] = p_sendto[TASK_SYS] /\ mem'[TASK_SYS] = mem[TASK_SYS]
      /\ p_msg'[TASK_SYS] = p_msg[TASK_SYS] /\ p_recvfrom'[TASK_SYS] = p_recvfrom[TASK_SYS]
  BY DEF Untouched
<1> QED
  BY <1>1 DEF SysInv, InReceive

LEMMA HdFrame ==
  ASSUME HdInv, Untouched(TASK_HD), HdBusy /\ AwaitsHd => AwaitsHd'
  PROVE  HdInv'
<1>1. /\ pc'[TASK_HD] = pc[TASK_HD] /\ p_flags'[TASK_HD] = p_flags[TASK_HD]
      /\ p_sendto'[TASK_HD] = p_sendto[TASK_HD] /\ mem'[TASK_HD] = mem[TASK_HD]
      /\ p_msg'[TASK_HD] = p_msg[TASK_HD] /\ p_recvfrom'[TASK_HD] = p_recvfrom[TASK_HD]
  BY DEF Untouched
<1>2. HdBusy' <=> HdBusy
  BY <1>1 DEF HdBusy
<1> QED
  BY <1>1, <1>2 DEF HdInv, InReceive, InSend

LEMMA FsFrame ==
  ASSUME FsInv, Untouched(TASK_FS), fs' = fs, \A u \in Users : AwaitsFs(u) => AwaitsFs(u)'
  PROVE  FsInv'
<1>1. /\ pc'[TASK_FS] = pc[TASK_FS] /\ p_flags'[TASK_FS] = p_flags[TASK_FS]
      /\ p_sendto'[TASK_FS] = p_sendto[TASK_FS] /\ mem'[TASK_FS] = mem[TASK_FS]
      /\ p_msg'[TASK_FS] = p_msg[TASK_FS] /\ p_recvfrom'[TASK_FS] = p_recvfrom[TASK_FS]
  BY DEF Untouched
<1> QED
  BY <1>1 DEF FsInv, InReceive, InSend

LEMMA TtyFrame ==
  ASSUME TtyInv, Untouched(TASK_TTY)
  PROVE  TtyInv'
BY DEF TtyInv, Untouched

\* The drive does not care whom TASK_HD talks to before a command, or which
\* request it is about to take or has answered.
LEMMA DriveFrame ==
  ASSUME DriveInv, UNCHANGED <<hd, disk, irq>>, has_int_msg' = has_int_msg,
         \/ pc'[TASK_HD] = pc[TASK_HD] /\ p_flags'[TASK_HD] = p_flags[TASK_HD]
         \/ pc[TASK_HD] \in WaitLabels /\ pc'[TASK_HD] \in WaitLabels
         \/ /\ pc[TASK_HD] \in {"hd_receive", "hd_dispatch", "hd_reply"}
            /\ pc'[TASK_HD] \in {"hd_receive", "hd_dispatch", "hd_reply"}
  PROVE  DriveInv'
<1>1. /\ Quiet' <=> Quiet
      /\ Raised' <=> Raised
      /\ Stored' <=> Stored
  BY DEF Quiet, Raised, Stored
<1>2. /\ DriveIdle' <=> DriveIdle
      /\ Incoming' <=> Incoming
      /\ Outgoing' <=> Outgoing
      /\ Storing' <=> Storing
  BY <1>1 DEF DriveIdle, Incoming, Outgoing, Storing
<1>3. CASE pc'[TASK_HD] = pc[TASK_HD] /\ p_flags'[TASK_HD] = p_flags[TASK_HD]
  BY <1>1, <1>2, <1>3 DEF DriveInv
<1>4. CASE pc[TASK_HD] \in WaitLabels /\ pc'[TASK_HD] \in WaitLabels
  BY <1>1, <1>2, <1>4 DEF DriveInv, WaitLabels
<1>5. CASE /\ pc[TASK_HD] \in {"hd_receive", "hd_dispatch", "hd_reply"}
           /\ pc'[TASK_HD] \in {"hd_receive", "hd_dispatch", "hd_reply"}
  BY <1>1, <1>2, <1>5 DEF DriveInv, WaitLabels
<1> QED
  BY <1>3, <1>4, <1>5

\* A call of Tasks is a call of Ipc.
LEMMA SendIsStep ==
  ASSUME NEW p \in Procs, NEW d \in Procs, NEW m \in Bufs, NEW x \in Types, NEW label,
         SendThen(p, d, m, x, label)
  PROVE  [Next]_vars
BY DEF SendThen, Next

LEMMA ReceiveIsStep ==
  ASSUME NEW p \in Procs, NEW src \in Procs \cup {ANY, INTERRUPT}, NEW m \in Bufs, NEW label,
         ReceiveThen(p, src, m, label)
  PROVE  [Next]_vars
BY DEF ReceiveThen, Next

LEMMA CallKeepsTypes ==
  ASSUME TasksInv, [Next]_vars, NEW p \in Procs, NEW label \in Labels, Goto(p, label),
         hd' \in [op : {"in", "out"}, left : 0..MaxSectors, commands : 0..Tables + 1,
                  return : {"hd_command", "hd_port_write"}],
         fs' \in [src : Procs \cup {NO_TASK}, budget : 0..MaxRequests],
         disk' \in [state : DriveState, left : 0..MaxSectors], irq' \in BOOLEAN,
         opened' \in BOOLEAN
  PROVE  TasksTypeOK'
<1>1. TypeOK'
  BY IpcInvKept DEF TasksInv, IpcInv
<1>2. pc' \in [Procs -> Labels]
  BY DEF TasksInv, ProtocolInv, TasksTypeOK, Goto
<1> QED
  BY <1>1, <1>2 DEF TasksTypeOK

-----------------------------------------------------------------------------
(* A user process.                                                         *)

\* Nobody sends to a user that has asked for nothing.
LEMMA NobodySendsToRunner ==
  ASSUME TasksInv, NEW u \in Users, p_flags[u] = {}, pc[u] = "run"
  PROVE  /\ ~AwaitsSys(u) /\ ~AwaitsFs(u)
         /\ \A r \in Procs : ~SendsTo(r, u)
<1>1. ~AwaitsSys(u) /\ ~AwaitsFs(u)
  BY DEF AwaitsSys, AwaitsFs, Awaits, AskedSys, AskedFs
<1>2. ASSUME NEW r \in Procs, SendsTo(r, u) PROVE FALSE
  BY <1>1, <1>2, SenderKinds, Cast DEF UserSends, HdSends, FsSends
<1> QED
  BY <1>1, <1>2

LEMMA AskFsKeeps ==
  ASSUME TasksInv, NEW u \in Users, AskFs(u), UNCHANGED <<hd, opened, fs, disk, irq>>
  PROVE  ProtocolInv' /\ [Next]_vars
<1> USE DEF ProtocolInv
<1>1. /\ u \in Procs /\ TASK_FS \in Procs /\ "msg" \in Bufs /\ Says("OPEN", u, 0) \in Types
      /\ p_flags[u] = {} /\ pc[u] = "run"
      /\ SendThen(u, TASK_FS, "msg", Says("OPEN", u, 0), "fs_answer")
  BY Cast, TypesAssumption DEF AskFs, At, Running
<1>2. ~AwaitsSys(u) /\ ~AwaitsFs(u) /\ \A r \in Procs : ~SendsTo(r, u)
  BY <1>1, NobodySendsToRunner
<1>3. [Next]_vars
  BY <1>1, SendIsStep
<1>4. Sends(u, TASK_FS, "msg", Says("OPEN", u, 0), "fs_answer")
  BY <1>1, <1>2, SendEffect
<1>5. TasksTypeOK' /\ KernelUp'
  BY <1>1, <1>3, <1>4, CallKeepsTypes
     DEF TasksInv, TasksTypeOK, KernelUp, Sends, StaysUp, SendThen, Labels
<1>6. /\ \A r \in Procs \ {u, TASK_FS} : Untouched(r)
      /\ pc'[u] = "fs_answer" /\ pc'[TASK_FS] = pc[TASK_FS]
      /\ mem'[u]["msg"] = Sent(u, Says("OPEN", u, 0))
  BY <1>4 DEF Sends, Moves, Delivers, Blocks, Untouched
<1>7. SysInv'
  BY <1>2, <1>6, Cast, SysFrame, AwaitsFrame DEF TasksInv, SysClients
<1>8. TtyInv' /\ DriveInv'
  <2>1. Untouched(TASK_TTY) /\ Untouched(TASK_HD) /\ has_int_msg' = has_int_msg
    BY <1>4, <1>6, Cast DEF Sends
  <2> QED
    BY <2>1, TtyFrame, DriveFrame DEF TasksInv, Untouched
<1>9. CASE Delivers(u, TASK_FS, Says("OPEN", u, 0))
  <2>1. /\ pc[TASK_FS] = "fs_dispatch" /\ p_recvfrom[TASK_FS] = ANY
        /\ p_msg[TASK_FS] = "msg" /\ p_flags[TASK_FS] = {RECEIVING}
    BY <1>1, <1>9, ReceiverKinds, Flags, Cast DEF Delivers
  <2>2. ~AwaitsHd
    BY <2>1, Cast DEF AwaitsHd, Awaits
  <2>3. \A v \in Users : UserInv(v)'
    <3>1. UserInv(u)'
      BY <1>6, <1>9 DEF UserInv, Delivers
    <3> QED
      BY <1>6, <3>1, UserFrame, Cast DEF TasksInv
  <2>4. HdInv'
    BY <1>6, <2>2, HdFrame, Cast DEF TasksInv
  <2>5. FsInv'
    <3>1. AwaitsFs(u)'
      BY <1>6, <1>9 DEF AwaitsFs, Awaits, AskedFs, Delivers
    <3>2. /\ p_flags'[TASK_FS] = {} /\ pc'[TASK_FS] = "fs_dispatch"
          /\ mem'[TASK_FS]["msg"] = Sent(u, Says("OPEN", u, 0))
      BY <1>9, <2>1 DEF Delivers
    <3> QED
      BY <3>1, <3>2 DEF FsInv, AskedHd
  <2> QED
    BY <1>3, <1>5, <1>7, <1>8, <2>3, <2>4, <2>5
<1>10. CASE Blocks(u, TASK_FS, "msg")
  <2>1. Untouched(TASK_FS) /\ Untouched(TASK_HD)
    BY <1>6, <1>10, Cast DEF Blocks
  <2>2. \A v \in Users : UserInv(v)'
    <3>1. UserInv(u)'
      BY <1>6, <1>10 DEF UserInv, Blocks, InSend
    <3> QED
      BY <1>6, <3>1, UserFrame, Cast DEF TasksInv
  <2>3. HdInv' /\ FsInv'
    BY <1>2, <1>6, <2>1, HdFrame, FsFrame, AwaitsHdFrame, AwaitsFrame, Cast DEF TasksInv
  <2> QED
    BY <1>3, <1>5, <1>7, <1>8, <2>2, <2>3
<1> QED
  BY <1>4, <1>9, <1>10 DEF Sends

LEMMA AskTicksKeeps ==
  ASSUME TasksInv, NEW u \in Users, AskTicks(u), UNCHANGED <<hd, opened, fs, disk, irq>>
  PROVE  ProtocolInv' /\ [Next]_vars
<1> USE DEF ProtocolInv
<1>1. /\ u \in Procs /\ TASK_SYS \in Procs /\ "tick_msg" \in Bufs
      /\ Says("GET_TICKS", u, 0) \in Types /\ p_flags[u] = {} /\ pc[u] = "run"
      /\ SendThen(u, TASK_SYS, "tick_msg", Says("GET_TICKS", u, 0), "tick_answer")
  BY Cast, TypesAssumption DEF AskTicks, At, Running
<1>2. ~AwaitsSys(u) /\ ~AwaitsFs(u) /\ \A r \in Procs : ~SendsTo(r, u)
  BY <1>1, NobodySendsToRunner
<1>3. [Next]_vars
  BY <1>1, SendIsStep
<1>4. Sends(u, TASK_SYS, "tick_msg", Says("GET_TICKS", u, 0), "tick_answer")
  BY <1>1, <1>2, SendEffect
<1>5. TasksTypeOK' /\ KernelUp'
  BY <1>1, <1>3, <1>4, CallKeepsTypes
     DEF TasksInv, TasksTypeOK, KernelUp, Sends, StaysUp, SendThen, Labels
<1>6. /\ \A r \in Procs \ {u, TASK_SYS} : Untouched(r)
      /\ pc'[u] = "tick_answer" /\ pc'[TASK_SYS] = pc[TASK_SYS]
      /\ mem'[u]["tick_msg"] = Sent(u, Says("GET_TICKS", u, 0))
  BY <1>4 DEF Sends, Moves, Delivers, Blocks, Untouched
<1>7. TtyInv' /\ DriveInv' /\ HdInv' /\ FsInv'
  <2>1. /\ Untouched(TASK_TTY) /\ Untouched(TASK_HD) /\ Untouched(TASK_FS)
        /\ has_int_msg' = has_int_msg
    BY <1>4, <1>6, Cast DEF Sends
  <2>2. \A v \in Users : AwaitsFs(v) => AwaitsFs(v)'
    BY <1>2, <1>6, AwaitsFrame, Cast
  <2> QED
    BY <2>1, <2>2, TtyFrame, HdFrame, AwaitsHdFrame, FsFrame, DriveFrame DEF TasksInv, Untouched
<1>8. UserInv(u)'
  BY <1>4, <1>6 DEF UserInv, Sends, Delivers, Blocks, InSend
<1>9. \A v \in Users : UserInv(v)'
  BY <1>6, <1>8, UserFrame, Cast DEF TasksInv
<1>10. SysInv'
  <2>1. CASE Delivers(u, TASK_SYS, Says("GET_TICKS", u, 0))
    <3>1. pc[TASK_SYS] = "sys_reply" /\ p_msg[TASK_SYS] = "msg"
      BY <1>1, <2>1, ReceiverKinds, Cast DEF Delivers
    <3>2. AwaitsSys(u)'
      BY <1>6, <2>1 DEF AwaitsSys, Awaits, AskedSys, Delivers
    <3>3. /\ p_flags'[TASK_SYS] = {} /\ pc'[TASK_SYS] = "sys_reply"
          /\ mem'[TASK_SYS]["msg"] = Sent(u, Says("GET_TICKS", u, 0))
      BY <2>1, <3>1 DEF Delivers
    <3> QED
      BY <3>2, <3>3 DEF SysInv, SysClients
  <2>2. CASE Blocks(u, TASK_SYS, "tick_msg")
    <3>1. Untouched(TASK_SYS)
      BY <2>2 DEF Blocks
    <3>2. \A c \in SysClients : AwaitsSys(c) => AwaitsSys(c)'
      BY <1>2, <1>6, AwaitsFrame, Cast DEF SysClients
    <3> QED
      BY <3>1, <3>2, SysFrame DEF TasksInv
  <2> QED
    BY <1>4, <2>1, <2>2 DEF Sends
<1> QED
  BY <1>3, <1>5, <1>7, <1>9, <1>10

LEMMA FsAnswerKeeps ==
  ASSUME TasksInv, NEW u \in Users, FsAnswer(u), UNCHANGED <<hd, opened, fs, disk, irq>>
  PROVE  ProtocolInv' /\ [Next]_vars
<1> USE DEF ProtocolInv
<1>1. /\ u \in Procs /\ TASK_FS \in Procs /\ "msg" \in Bufs
      /\ p_flags[u] = {} /\ pc[u] = "fs_answer" /\ p_msg[u] = NULL /\ ~has_int_msg[u]
      /\ ReceiveThen(u, TASK_FS, "msg", "fs_return")
  BY Cast, Flags DEF FsAnswer, At, Running
<1>2. ~AwaitsSys(u)
  BY <1>1 DEF AwaitsSys, Awaits, AskedSys
<1>3. [Next]_vars
  BY <1>1, ReceiveIsStep
<1>4. Receives(u, TASK_FS, "msg", "fs_return")
  BY <1>1, ReceiveEffect
<1>5. TasksTypeOK' /\ KernelUp'
  BY <1>1, <1>3, <1>4, CallKeepsTypes
     DEF TasksInv, TasksTypeOK, KernelUp, Receives, StaysUp, ReceiveThen, Labels
<1>6. /\ \A r \in Procs \ {u, TASK_FS} : Untouched(r)
      /\ Takes(u, TASK_FS, TASK_FS, "msg") \/ Waits(u, TASK_FS, "msg")
      /\ pc'[u] = "fs_return"
  BY <1>4, Cast DEF Receives, Takes, Waits, Moves
<1>7. SysInv' /\ TtyInv' /\ DriveInv'
  <2>1. /\ Untouched(TASK_TTY) /\ Untouched(TASK_HD) /\ Untouched(TASK_SYS)
        /\ has_int_msg' = has_int_msg
    BY <1>4, <1>6, Cast DEF Receives
  <2>2. \A c \in SysClients : AwaitsSys(c) => AwaitsSys(c)'
    BY <1>2, <1>6, AwaitsFrame, Cast DEF SysClients
  <2> QED
    BY <2>1, <2>2, TtyFrame, SysFrame, DriveFrame DEF TasksInv, Untouched
<1>8. CASE Takes(u, TASK_FS, TASK_FS, "msg")
  <2>1. /\ pc[TASK_FS] = "fs_receive" /\ p_msg[TASK_FS] = "msg" /\ p_flags[TASK_FS] = {SENDING}
        /\ mem[TASK_FS]["msg"] = Sent(TASK_FS, Says("SYSCALL_RET", u, 0))
    BY <1>1, <1>8, SenderKinds, Flags, Cast DEF Takes, FsSends
  <2>2. UserInv(u)'
    BY <1>6, <1>8, <2>1 DEF Takes, UserInv
  <2>3. \A v \in Users : UserInv(v)'
    BY <1>6, <2>2, UserFrame, Cast DEF TasksInv
  <2>4. FsInv'
    BY <1>8, <2>1 DEF Takes, FsInv, AskedHd
  <2>5. HdInv'
    BY <1>6, <2>1, HdFrame, Cast DEF TasksInv, AwaitsHd, Awaits
  <2> QED
    BY <1>3, <1>5, <1>7, <2>3, <2>4, <2>5
<1>9. CASE Waits(u, TASK_FS, "msg")
  <2>1. Untouched(TASK_FS) /\ Untouched(TASK_HD)
    BY <1>9, Cast DEF Waits
  <2>2. UserInv(u)'
    BY <1>6, <1>9 DEF Waits, UserInv, InReceive
  <2>3. \A v \in Users : UserInv(v)'
    BY <1>6, <2>2, UserFrame, Cast DEF TasksInv
  <2>4. AwaitsFs(u)'
    BY <1>9 DEF Waits, AwaitsFs, Awaits
  <2>5. \A v \in Users : AwaitsFs(v) => AwaitsFs(v)'
    BY <1>6, <2>4, AwaitsFrame, Cast
  <2>6. HdInv' /\ FsInv'
    BY <2>1, <2>5, HdFrame, FsFrame, AwaitsHdFrame DEF TasksInv
  <2> QED
    BY <1>3, <1>5, <1>7, <2>3, <2>6
<1> QED
  BY <1>6, <1>8, <1>9

LEMMA FsReturnKeeps ==
  ASSUME TasksInv, NEW u \in Users, FsReturn(u), UNCHANGED <<hd, opened, fs, disk, irq>>
  PROVE  ProtocolInv' /\ [Next]_vars
<1> USE DEF ProtocolInv
<1>1. /\ u \in Procs /\ p_flags[u] = {} /\ pc[u] = "fs_return" /\ Goto(u, "run")
      /\ UNCHANGED vars
  BY Cast DEF FsReturn, At, Running
<1>2. TasksTypeOK' /\ KernelUp' /\ [Next]_vars
  BY <1>1, CallKeepsTypes DEF TasksInv, TasksTypeOK, KernelUp, Labels, vars
<1>3. \A r \in Procs \ {u} : Untouched(r)
  BY <1>1 DEF Untouched, Goto, vars, procVars, TasksInv, TasksTypeOK
<1>4. UserInv(u)'
  BY <1>1 DEF UserInv, Goto, vars, procVars, TasksInv, TasksTypeOK
<1>5. \A v \in Users : UserInv(v)'
  BY <1>3, <1>4, UserFrame, Cast DEF TasksInv
<1>6. ~AwaitsSys(u) /\ ~AwaitsFs(u)
  BY <1>1 DEF AwaitsSys, AwaitsFs, Awaits, AskedSys, AskedFs
<1>7. \A c \in SysClients : AwaitsSys(c) => AwaitsSys(c)'
  BY <1>3, <1>6, AwaitsFrame, Cast DEF SysClients
<1>8. \A v \in Users : AwaitsFs(v) => AwaitsFs(v)'
  BY <1>3, <1>6, AwaitsFrame, Cast
<1>9. /\ Untouched(TASK_TTY) /\ Untouched(TASK_HD) /\ Untouched(TASK_SYS) /\ Untouched(TASK_FS)
      /\ has_int_msg' = has_int_msg
  BY <1>1, <1>3, Cast DEF vars, procVars
<1>10. SysInv' /\ HdInv' /\ FsInv' /\ TtyInv' /\ DriveInv'
  BY <1>7, <1>8, <1>9, SysFrame, HdFrame, AwaitsHdFrame, FsFrame, TtyFrame, DriveFrame
     DEF TasksInv, Untouched
<1> QED
  BY <1>2, <1>5, <1>10

LEMMA TickAnswerKeeps ==
  ASSUME TasksInv, NEW u \in Users, TickAnswer(u), UNCHANGED <<hd, opened, fs, disk, irq>>
  PROVE  ProtocolInv' /\ [Next]_vars
<1> USE DEF ProtocolInv
<1>1. /\ u \in Procs /\ TASK_SYS \in Procs /\ "tick_msg" \in Bufs
      /\ p_flags[u] = {} /\ pc[u] = "tick_answer" /\ p_msg[u] = NULL /\ ~has_int_msg[u]
      /\ ReceiveThen(u, TASK_SYS, "tick_msg", "run")
  BY Cast, Flags DEF TickAnswer, At, Running
<1>2. ~AwaitsFs(u)
  BY <1>1 DEF AwaitsFs, Awaits, AskedFs
<1>3. [Next]_vars
  BY <1>1, ReceiveIsStep
<1>4. Receives(u, TASK_SYS, "tick_msg", "run")
  BY <1>1, ReceiveEffect
<1>5. TasksTypeOK' /\ KernelUp'
  BY <1>1, <1>3, <1>4, CallKeepsTypes
     DEF TasksInv, TasksTypeOK, KernelUp, Receives, StaysUp, ReceiveThen, Labels
<1>6. /\ \A r \in Procs \ {u, TASK_SYS} : Untouched(r)
      /\ Takes(u, TASK_SYS, TASK_SYS, "tick_msg") \/ Waits(u, TASK_SYS, "tick_msg")
      /\ pc'[u] = "run"
  BY <1>4, Cast DEF Receives, Takes, Waits, Moves
<1>7. TtyInv' /\ DriveInv' /\ HdInv' /\ FsInv'
  <2>1. /\ Untouched(TASK_TTY) /\ Untouched(TASK_HD) /\ Untouched(TASK_FS)
        /\ has_int_msg' = has_int_msg
    BY <1>4, <1>6, Cast DEF Receives
  <2>2. \A v \in Users : AwaitsFs(v) => AwaitsFs(v)'
    BY <1>2, <1>6, AwaitsFrame, Cast
  <2> QED
    BY <2>1, <2>2, TtyFrame, HdFrame, AwaitsHdFrame, FsFrame, DriveFrame DEF TasksInv, Untouched
<1>8. UserInv(u)'
  BY <1>6 DEF Takes, Waits, UserInv, InReceive
<1>9. \A v \in Users : UserInv(v)'
  BY <1>6, <1>8, UserFrame, Cast DEF TasksInv
<1>10. SysInv'
  <2>1. CASE Takes(u, TASK_SYS, TASK_SYS, "tick_msg")
    <3>1. pc[TASK_SYS] = "sys_receive"
      BY <1>1, <2>1, SenderKinds, Cast DEF Takes
    <3> QED
      BY <2>1, <3>1 DEF Takes, SysInv
  <2>2. CASE Waits(u, TASK_SYS, "tick_msg")
    <3>1. Untouched(TASK_SYS)
      BY <2>2, Cast DEF Waits
    <3>2. AwaitsSys(u)'
      BY <2>2 DEF Waits, AwaitsSys, Awaits
    <3>3. \A c \in SysClients : AwaitsSys(c) => AwaitsSys(c)'
      BY <1>6, <3>2, AwaitsFrame, Cast DEF SysClients
    <3> QED
      BY <3>1, <3>3, SysFrame DEF TasksInv
  <2> QED
    BY <1>6, <2>1, <2>2
<1> QED
  BY <1>3, <1>5, <1>7, <1>9, <1>10

-----------------------------------------------------------------------------
(* TASK_SYS.                                                               *)

\* TASK_HD stays in its request while its call of TASK_SYS goes on.
LEMMA HdTicksOn ==
  ASSUME HdInv, HdBusy, TASK_FS # TASK_HD, Untouched(TASK_FS), "msg" \in Bufs,
         pc[TASK_HD] \in WaitLabels, pc'[TASK_HD] = pc[TASK_HD], p_flags'[TASK_HD] = {},
         p_msg'[TASK_HD] = NULL, mem'[TASK_HD]["msg"] = mem[TASK_HD]["msg"]
  PROVE  HdInv'
<1>1. AwaitsHd' /\ HdBusy'
  BY AwaitsHdFrame DEF HdInv, HdBusy, WaitLabels
<1> QED
  BY <1>1 DEF HdInv, WaitLabels

LEMMA SysReceiveKeeps ==
  ASSUME TasksInv, SysReceive, UNCHANGED <<hd, opened, fs, disk, irq>>
  PROVE  ProtocolInv' /\ [Next]_vars
<1> USE DEF ProtocolInv
<1>1. /\ TASK_SYS \in Procs /\ "msg" \in Bufs /\ ANY \in Procs \cup {ANY, INTERRUPT}
      /\ p_flags[TASK_SYS] = {} /\ p_msg[TASK_SYS] = NULL /\ ~has_int_msg[TASK_SYS]
      /\ ReceiveThen(TASK_SYS, ANY, "msg", "sys_reply")
  BY Cast, Flags DEF SysReceive, At, Running
<1>2. [Next]_vars
  BY <1>1, ReceiveIsStep
<1>3. Receives(TASK_SYS, ANY, "msg", "sys_reply")
  BY <1>1, ReceiveEffect
<1>4. TasksTypeOK' /\ KernelUp'
  BY <1>1, <1>2, <1>3, CallKeepsTypes
     DEF TasksInv, TasksTypeOK, KernelUp, Receives, StaysUp, ReceiveThen, Labels
<1>5. pc'[TASK_SYS] = "sys_reply" /\ has_int_msg' = has_int_msg
  BY <1>3 DEF Receives, Moves
<1>6. ASSUME NEW s \in Procs \ {TASK_SYS}, Takes(TASK_SYS, s, ANY, "msg")
      PROVE  ProtocolInv'
  <2>1. \/ /\ s \in Users /\ pc[s] = "tick_answer"
           /\ mem[s][p_msg[s]] = Sent(s, Says("GET_TICKS", s, 0))
        \/ /\ s = TASK_HD /\ pc[s] \in AskedSys /\ AwaitsHd /\ p_flags[s] = {SENDING}
           /\ mem[s][p_msg[s]] = Sent(s, Says("GET_TICKS", s, 0))
    BY <1>1, <1>6, SenderKinds, Flags, Cast DEF Takes, UserSends, HdSends, FsSends
  <2>2. /\ \A r \in Procs \ {TASK_SYS, s} : Untouched(r)
        /\ p_flags'[s] = {} /\ p_msg'[s] = NULL /\ pc'[s] = pc[s] /\ mem'[s] = mem[s]
    BY <1>6 DEF Takes
  <2>3. AwaitsSys(s)' /\ s \in SysClients
    BY <2>1, <2>2 DEF AwaitsSys, Awaits, AskedSys, SysClients
  <2>4. SysInv'
    <3>1. p_flags'[TASK_SYS] = {} /\ mem'[TASK_SYS]["msg"] = Sent(s, Says("GET_TICKS", s, 0))
      BY <1>6, <2>1 DEF Takes
    <3> QED
      BY <1>5, <2>3, <3>1 DEF SysInv
  <2>5. Untouched(TASK_FS) /\ Untouched(TASK_TTY)
    BY <2>1, <2>2, Cast
  <2>6. CASE s \in Users
    <3>1. UserInv(s)'
      BY <2>1, <2>2, <2>6, Cast DEF UserInv
    <3>2. \A v \in Users : UserInv(v)'
      BY <2>2, <3>1, UserFrame, Cast DEF TasksInv
    <3>3. ~AwaitsFs(s)
      BY <2>1, <2>6, <1>6, Flags, Cast DEF AwaitsFs, Awaits, AskedFs, Takes
    <3>4. \A v \in Users : AwaitsFs(v) => AwaitsFs(v)'
      BY <2>2, <3>3, AwaitsFrame, Cast
    <3>5. Untouched(TASK_HD)
      BY <2>2, <2>6, Cast
    <3>6. HdInv' /\ FsInv' /\ TtyInv' /\ DriveInv'
      BY <1>5, <2>5, <3>4, <3>5, HdFrame, AwaitsHdFrame, FsFrame, TtyFrame, DriveFrame
         DEF TasksInv, Untouched
    <3> QED
      BY <1>4, <2>4, <3>2, <3>6
  <2>7. CASE s = TASK_HD
    <3>1. \A v \in Users : UserInv(v)'
      BY <2>2, <2>7, UserFrame, Cast DEF TasksInv
    <3>2. \A v \in Users : AwaitsFs(v) => AwaitsFs(v)'
      BY <2>2, <2>7, AwaitsFrame, Cast
    <3>3. HdBusy /\ pc[TASK_HD] \in WaitLabels /\ p_flags[TASK_HD] = {SENDING}
      BY <2>1, <2>7, Cast DEF HdBusy, AskedSys, WaitLabels, TasksInv, HdInv, HdLabels
    <3>4. HdInv'
      BY <2>2, <2>5, <2>7, <3>3, HdTicksOn, Cast DEF TasksInv
    <3>5. FsInv' /\ TtyInv' /\ DriveInv'
      BY <1>5, <2>2, <2>5, <2>7, <3>2, <3>3, FsFrame, TtyFrame, DriveFrame DEF TasksInv
    <3> QED
      BY <1>4, <2>4, <3>1, <3>4, <3>5
  <2> QED
    BY <2>1, <2>6, <2>7
<1>7. CASE Waits(TASK_SYS, ANY, "msg")
  <2>1. \A r \in Procs \ {TASK_SYS} : Untouched(r)
    BY <1>7 DEF Waits
  <2>2. SysInv'
    BY <1>5, <1>7 DEF Waits, SysInv, InReceive
  <2>3. Untouched(TASK_FS) /\ Untouched(TASK_TTY) /\ Untouched(TASK_HD)
    BY <2>1, Cast
  <2>4. (\A v \in Users : UserInv(v)') /\ (\A v \in Users : AwaitsFs(v) => AwaitsFs(v)')
    BY <2>1, UserFrame, AwaitsFrame, Cast DEF TasksInv
  <2>5. HdInv' /\ FsInv' /\ TtyInv' /\ DriveInv'
    BY <1>5, <2>3, <2>4, HdFrame, AwaitsHdFrame, FsFrame, TtyFrame, DriveFrame
       DEF TasksInv, Untouched
  <2> QED
    BY <1>2, <1>4, <2>2, <2>4, <2>5
<1> QED
  BY <1>2, <1>3, <1>6, <1>7 DEF Receives

LEMMA SysReplyKeeps ==
  ASSUME TasksInv, SysReply, UNCHANGED <<hd, opened, fs, disk, irq>>
  PROVE  ProtocolInv' /\ [Next]_vars
<1> USE DEF ProtocolInv
<1>1. TASK_SYS \in Procs /\ "msg" \in Bufs /\ p_flags[TASK_SYS] = {} /\ pc[TASK_SYS] = "sys_reply"
  BY Cast DEF SysReply, At, Running
<1>2. PICK c \in SysClients : /\ mem[TASK_SYS]["msg"] = Sent(c, Says("GET_TICKS", c, 0))
                              /\ AwaitsSys(c)
  BY <1>1 DEF TasksInv, SysInv
<1>3. c \in Procs /\ c # TASK_SYS /\ c # TASK_FS /\ c # TASK_TTY
      /\ Says("GET_TICKS", c, 0) \in Types /\ SENDING \notin p_flags[c]
      /\ (c \in Users \/ c = TASK_HD)
  BY <1>2, Cast, TypesAssumption DEF SysClients, AwaitsSys, Awaits
<1>4. SendThen(TASK_SYS, c, "msg", Says("GET_TICKS", c, 0), "sys_receive")
  BY <1>2, SentFields, SaysFields DEF SysReply, Type, Source
<1>5. [Next]_vars
  BY <1>1, <1>3, <1>4, SendIsStep
<1>6. Sends(TASK_SYS, c, "msg", Says("GET_TICKS", c, 0), "sys_receive")
  BY <1>1, <1>3, <1>4, SendEffect
<1>7. TasksTypeOK' /\ KernelUp'
  BY <1>1, <1>4, <1>5, <1>6, CallKeepsTypes
     DEF TasksInv, TasksTypeOK, KernelUp, Sends, StaysUp, SendThen, Labels
<1>8. /\ \A r \in Procs \ {TASK_SYS, c} : Untouched(r)
      /\ pc'[TASK_SYS] = "sys_receive" /\ has_int_msg' = has_int_msg
  BY <1>6 DEF Sends, Moves
<1>9. Untouched(TASK_FS) /\ Untouched(TASK_TTY)
  BY <1>3, <1>8, Cast
<1>10. c \in Users => ~AwaitsFs(c)
  BY <1>2, Cast DEF AwaitsSys, AwaitsFs, Awaits, AskedSys, AskedFs
<1>11. \A v \in Users : AwaitsFs(v) => AwaitsFs(v)'
  BY <1>8, <1>10, AwaitsFrame, Cast
<1>12. FsInv' /\ TtyInv'
  BY <1>9, <1>11, FsFrame, TtyFrame DEF TasksInv
<1>13. CASE Delivers(TASK_SYS, c, Says("GET_TICKS", c, 0))
  <2>1. SysInv'
    BY <1>8, <1>13 DEF Delivers, SysInv
  <2>2. CASE c \in Users
    <3>1. pc[c] = "run"
      BY <1>1, <1>3, <1>13, <2>2, ReceiverKinds, Cast DEF Delivers
    <3>2. UserInv(c)'
      BY <1>13, <3>1 DEF Delivers, UserInv
    <3>3. (\A v \in Users : UserInv(v)') /\ Untouched(TASK_HD)
      BY <1>8, <2>2, <3>2, UserFrame, Cast DEF TasksInv
    <3>4. HdInv' /\ DriveInv'
      BY <1>8, <1>9, <3>3, HdFrame, AwaitsHdFrame, DriveFrame DEF TasksInv, Untouched
    <3> QED
      BY <1>5, <1>7, <1>12, <2>1, <3>3, <3>4
  <2>3. CASE c = TASK_HD
    <3>1. \A v \in Users : UserInv(v)'
      BY <1>8, <2>3, UserFrame, Cast DEF TasksInv
    <3>2. pc[TASK_HD] \in {"wait_poll", "wait_test"} /\ p_msg[TASK_HD] = "tick_msg"
      <4>1. AwaitsSys(TASK_HD) /\ WaitsFor(TASK_HD, TASK_SYS)
        BY <1>2, <1>13, <2>3 DEF Delivers
      <4>2. p_recvfrom[TASK_HD] = TASK_SYS
        BY <4>1, Flags, Cast DEF AwaitsSys, Awaits
      <4> QED
        BY <1>1, <4>1, <4>2, ReceiverKinds, Cast
    <3>3. HdBusy /\ pc[TASK_HD] \in WaitLabels
      BY <3>2 DEF HdBusy, WaitLabels
    <3>4. HdInv'
      BY <1>9, <1>13, <2>3, <3>2, <3>3, HdTicksOn, Cast DEF TasksInv, Delivers
    <3>5. DriveInv'
      BY <1>8, <1>13, <2>3, <3>3, DriveFrame DEF TasksInv, Delivers
    <3> QED
      BY <1>5, <1>7, <1>12, <2>1, <3>1, <3>4, <3>5
  <2> QED
    BY <1>3, <2>2, <2>3
<1>14. CASE Blocks(TASK_SYS, c, "msg")
  <2>1. Untouched(c)
    BY <1>14 DEF Blocks
  <2>2. SysInv'
    BY <1>2, <1>8, <1>14, <2>1, AwaitsFrame DEF Blocks, SysInv
  <2>3. \A r \in Procs \ {TASK_SYS} : Untouched(r)
    BY <1>8, <2>1
  <2>4. (\A v \in Users : UserInv(v)') /\ Untouched(TASK_HD)
    BY <2>3, UserFrame, Cast DEF TasksInv
  <2>5. HdInv' /\ DriveInv'
    BY <1>8, <1>9, <2>4, HdFrame, AwaitsHdFrame, DriveFrame DEF TasksInv, Untouched
  <2> QED
    BY <1>5, <1>7, <1>12, <2>2, <2>4, <2>5
<1> QED
  BY <1>6, <1>13, <1>14 DEF Sends

-----------------------------------------------------------------------------
(* TASK_FS.                                                                *)

\* TASK_HD is free when TASK_FS awaits nothing of it.
LEMMA HdFree ==
  ASSUME TasksInv, ~AwaitsHd
  PROVE  ~HdBusy /\ SENDING \notin p_flags[TASK_HD]
BY DEF TasksInv, ProtocolInv, HdInv, HdBusy

\* A call of TASK_HD: open and ioctl of init_fs and mkfs, and rw_sector.
LEMMA CallHdKeeps ==
  ASSUME TasksInv, NEW from \in {"fs_open", "fs_geo", "fs_work"}, NEW x \in HdRequests,
         NEW to \in AskedHd, CallHd(from, x, to),
         from = "fs_work" <=> to = "fs_driver_answer",
         UNCHANGED <<hd, opened, disk, irq>>, fs'.src = fs.src,
         fs' \in [src : Procs \cup {NO_TASK}, budget : 0..MaxRequests]
  PROVE  ProtocolInv' /\ [Next]_vars
<1> USE DEF ProtocolInv
<1>1. /\ TASK_FS \in Procs /\ TASK_HD \in Procs /\ "driver_msg" \in Bufs /\ x \in Types
      /\ p_flags[TASK_FS] = {} /\ pc[TASK_FS] = from
      /\ SendThen(TASK_FS, TASK_HD, "driver_msg", x, to)
  BY Cast, RequestKinds DEF CallHd, At, Running
<1>2. ~AwaitsHd /\ ~HdBusy /\ SENDING \notin p_flags[TASK_HD]
  BY <1>1, HdFree DEF AwaitsHd, Awaits, AskedHd
<1>3. [Next]_vars
  BY <1>1, SendIsStep
<1>4. Sends(TASK_FS, TASK_HD, "driver_msg", x, to)
  BY <1>1, <1>2, SendEffect
<1>5. TasksTypeOK' /\ KernelUp'
  <2>1. to \in Labels
    BY DEF AskedHd, Labels
  <2> QED
    BY <1>1, <1>3, <1>4, <2>1, CallKeepsTypes
       DEF TasksInv, TasksTypeOK, KernelUp, Sends, StaysUp, SendThen
<1>6. /\ \A r \in Procs \ {TASK_FS, TASK_HD} : Untouched(r)
      /\ pc'[TASK_FS] = to /\ pc'[TASK_HD] = pc[TASK_HD] /\ has_int_msg' = has_int_msg
      /\ mem'[TASK_FS]["driver_msg"] = Sent(TASK_FS, x)
      /\ mem'[TASK_FS]["msg"] = mem[TASK_FS]["msg"]
  BY <1>4, Cast DEF Sends, Moves, Delivers, Blocks, Untouched
<1>7. /\ \A u \in Users : UserInv(u)' /\ (AwaitsFs(u) => AwaitsFs(u)')
      /\ Untouched(TASK_SYS) /\ Untouched(TASK_TTY)
  BY <1>6, UserFrame, AwaitsFrame, Cast DEF TasksInv
<1>8. /\ to = "fs_driver_answer" =>
           \/ fs'.src = NO_TASK
           \/ /\ fs'.src \in Users /\ AwaitsFs(fs.src)'
              /\ mem'[TASK_FS]["msg"].type = Says("OPEN", fs'.src, 0)
      /\ to # "fs_driver_answer" => fs'.src = NO_TASK
  BY <1>1, <1>6, <1>7 DEF TasksInv, FsInv, AskedHd
<1>9. CASE Delivers(TASK_FS, TASK_HD, x)
  <2>1. /\ pc[TASK_HD] = "hd_dispatch" /\ p_recvfrom[TASK_HD] = ANY /\ p_msg[TASK_HD] = "msg"
    BY <1>1, <1>9, ReceiverKinds, Cast DEF Delivers
  <2>2. FsInv'
    BY <1>6, <1>8, <1>9 DEF FsInv, AskedHd, Delivers
  <2>3. AwaitsHd'
    BY <1>6, <1>9 DEF AwaitsHd, Awaits, Delivers
  <2>4. HdInv'
    <3>1. /\ p_flags'[TASK_HD] = {} /\ pc'[TASK_HD] = "hd_dispatch"
          /\ mem'[TASK_HD]["msg"] = Sent(TASK_FS, x)
      BY <1>6, <1>9, <2>1 DEF Delivers
    <3> QED
      BY <2>3, <3>1 DEF HdInv, HdLabels, WaitLabels, AskedSys
  <2>5. ~AwaitsSys(TASK_HD)
    BY <1>9, <2>1, <1>1, Flags, Cast DEF AwaitsSys, Awaits, Delivers, AskedSys
  <2>6. \A c \in SysClients : AwaitsSys(c) => AwaitsSys(c)'
    BY <1>6, <2>5, AwaitsFrame, Cast DEF SysClients
  <2>7. SysInv' /\ TtyInv'
    BY <1>7, <2>6, SysFrame, TtyFrame DEF TasksInv
  <2>8. DriveInv'
    BY <1>6, <2>1, DriveFrame DEF TasksInv
  <2> QED
    BY <1>3, <1>5, <1>7, <2>2, <2>4, <2>7, <2>8
<1>10. CASE Blocks(TASK_FS, TASK_HD, "driver_msg")
  <2>1. Untouched(TASK_HD)
    BY <1>10 DEF Blocks
  <2>2. FsInv'
    <3>1. p_flags'[TASK_FS] = {SENDING} /\ p_sendto'[TASK_FS] = TASK_HD /\ p_msg'[TASK_FS] = "driver_msg"
      BY <1>10 DEF Blocks
    <3> QED
      BY <1>6, <1>8, <3>1 DEF FsInv, AskedHd, InSend
  <2>3. HdInv' /\ DriveInv'
    BY <1>2, <1>6, <2>1, HdFrame, DriveFrame DEF TasksInv, Untouched
  <2>4. \A c \in SysClients : AwaitsSys(c) => AwaitsSys(c)'
    BY <1>6, <2>1, AwaitsFrame, Cast DEF SysClients
  <2>5. SysInv' /\ TtyInv'
    BY <1>7, <2>4, SysFrame, TtyFrame DEF TasksInv
  <2> QED
    BY <1>3, <1>5, <1>7, <2>2, <2>3, <2>5
<1> QED
  BY <1>4, <1>9, <1>10 DEF Sends

LEMMA HdAnswerKeeps ==
  ASSUME TasksInv, NEW from \in AskedHd, NEW to \in {"fs_geo", "fs_work"},
         HdAnswer(from, to), to = "fs_geo" => from = "fs_open_answer",
         UNCHANGED <<hd, opened, fs, disk, irq>>
  PROVE  ProtocolInv' /\ [Next]_vars
<1> USE DEF ProtocolInv
<1>1. /\ TASK_FS \in Procs /\ TASK_HD \in Procs /\ "driver_msg" \in Bufs
      /\ p_flags[TASK_FS] = {} /\ pc[TASK_FS] = from
      /\ p_msg[TASK_FS] = NULL /\ ~has_int_msg[TASK_FS]
      /\ ReceiveThen(TASK_FS, TASK_HD, "driver_msg", to)
  BY Cast, Flags DEF HdAnswer, At, Running
<1>2. [Next]_vars
  BY <1>1, ReceiveIsStep
<1>3. Receives(TASK_FS, TASK_HD, "driver_msg", to)
  BY <1>1, ReceiveEffect
<1>4. TasksTypeOK' /\ KernelUp'
  <2>1. to \in Labels
    BY DEF Labels
  <2> QED
    BY <1>1, <1>2, <1>3, <2>1, CallKeepsTypes
       DEF TasksInv, TasksTypeOK, KernelUp, Receives, StaysUp, ReceiveThen
<1>5. /\ pc'[TASK_FS] = to /\ has_int_msg' = has_int_msg
      /\ mem'[TASK_FS]["msg"] = mem[TASK_FS]["msg"]
      /\ Takes(TASK_FS, TASK_HD, TASK_HD, "driver_msg") \/ Waits(TASK_FS, TASK_HD, "driver_msg")
      /\ \A r \in Procs \ {TASK_FS, TASK_HD} : Untouched(r)
  BY <1>3, Cast DEF Receives, Moves, Takes, Waits
<1>6. /\ \A u \in Users : UserInv(u)' /\ (AwaitsFs(u) => AwaitsFs(u)')
      /\ Untouched(TASK_SYS) /\ Untouched(TASK_TTY)
  BY <1>5, UserFrame, AwaitsFrame, Cast DEF TasksInv
<1>7. FsInv'
  <2>1. /\ to = "fs_geo" => fs.src = NO_TASK
        /\ \/ fs.src = NO_TASK
           \/ /\ fs.src \in Users /\ AwaitsFs(fs.src)'
              /\ mem'[TASK_FS]["msg"].type = Says("OPEN", fs.src, 0)
    BY <1>1, <1>5, <1>6 DEF TasksInv, FsInv, AskedHd
  <2>2. \/ p_flags'[TASK_FS] = {}
        \/ /\ p_flags'[TASK_FS] = {RECEIVING} /\ p_recvfrom'[TASK_FS] = TASK_HD
           /\ p_msg'[TASK_FS] = "driver_msg"
    BY <1>5 DEF Takes, Waits
  <2> QED
    BY <1>5, <2>1, <2>2 DEF FsInv, InReceive, AskedHd
<1>8. CASE Takes(TASK_FS, TASK_HD, TASK_HD, "driver_msg")
  <2>1. pc[TASK_HD] = "hd_receive" /\ p_flags[TASK_HD] = {SENDING}
    BY <1>1, <1>8, SenderKinds, Flags, Cast DEF Takes, HdSends
  <2>2. p_flags'[TASK_HD] = {} /\ p_msg'[TASK_HD] = NULL /\ pc'[TASK_HD] = "hd_receive"
    BY <1>8, <2>1 DEF Takes
  <2>3. HdInv'
    BY <2>2 DEF HdInv, HdBusy, HdLabels
  <2>4. DriveInv'
    BY <1>5, <2>1, <2>2, DriveFrame DEF TasksInv
  <2>5. ~AwaitsSys(TASK_HD)
    BY <2>1 DEF AwaitsSys, Awaits
  <2>6. \A c \in SysClients : AwaitsSys(c) => AwaitsSys(c)'
    BY <1>5, <2>5, AwaitsFrame, Cast DEF SysClients
  <2>7. SysInv' /\ TtyInv'
    BY <1>6, <2>6, SysFrame, TtyFrame DEF TasksInv
  <2> QED
    BY <1>2, <1>4, <1>6, <1>7, <2>3, <2>4, <2>7
<1>9. CASE Waits(TASK_FS, TASK_HD, "driver_msg")
  <2>1. Untouched(TASK_HD) /\ AwaitsHd'
    BY <1>9, Cast DEF Waits, AwaitsHd, Awaits
  <2>2. HdInv' /\ DriveInv'
    BY <1>5, <2>1, HdFrame, DriveFrame DEF TasksInv, Untouched
  <2>3. \A c \in SysClients : AwaitsSys(c) => AwaitsSys(c)'
    BY <1>5, <2>1, AwaitsFrame, Cast DEF SysClients
  <2>4. SysInv' /\ TtyInv'
    BY <1>6, <2>3, SysFrame, TtyFrame DEF TasksInv
  <2> QED
    BY <1>2, <1>4, <1>6, <1>7, <2>2, <2>4
<1> QED
  BY <1>5, <1>8, <1>9

LEMMA FsReceiveKeeps ==
  ASSUME TasksInv, FsReceive, UNCHANGED <<hd, opened, disk, irq>>
  PROVE  ProtocolInv' /\ [Next]_vars
<1> USE DEF ProtocolInv
<1>1. /\ TASK_FS \in Procs /\ "msg" \in Bufs /\ ANY \in Procs \cup {ANY, INTERRUPT}
      /\ p_flags[TASK_FS] = {} /\ pc[TASK_FS] = "fs_receive" /\ fs' = fs
      /\ p_msg[TASK_FS] = NULL /\ ~has_int_msg[TASK_FS]
      /\ ReceiveThen(TASK_FS, ANY, "msg", "fs_dispatch")
  BY Cast, Flags DEF FsReceive, At, Running
<1>2. ~AwaitsHd /\ ~HdBusy
  BY <1>1, HdFree DEF AwaitsHd, Awaits, AskedHd
<1>3. [Next]_vars
  BY <1>1, ReceiveIsStep
<1>4. Receives(TASK_FS, ANY, "msg", "fs_dispatch")
  BY <1>1, ReceiveEffect
<1>5. TasksTypeOK' /\ KernelUp'
  BY <1>1, <1>3, <1>4, CallKeepsTypes
     DEF TasksInv, TasksTypeOK, KernelUp, Receives, StaysUp, ReceiveThen, Labels
<1>6. pc'[TASK_FS] = "fs_dispatch" /\ has_int_msg' = has_int_msg
  BY <1>4 DEF Receives, Moves
<1>7. ASSUME NEW u \in Procs \ {TASK_FS}, Takes(TASK_FS, u, ANY, "msg")
      PROVE  ProtocolInv'
  <2>1. /\ u \in Users /\ pc[u] = "fs_answer"
        /\ mem[u][p_msg[u]] = Sent(u, Says("OPEN", u, 0)) /\ p_flags[u] = {SENDING}
    BY <1>1, <1>2, <1>7, SenderKinds, Flags, Cast DEF Takes, UserSends, HdSends, SysClients
  <2>2. /\ \A r \in Procs \ {TASK_FS, u} : Untouched(r)
        /\ p_flags'[u] = {} /\ p_msg'[u] = NULL /\ pc'[u] = pc[u] /\ mem'[u] = mem[u]
        /\ p_flags'[TASK_FS] = {} /\ mem'[TASK_FS]["msg"] = Sent(u, Says("OPEN", u, 0))
    BY <1>7, <2>1 DEF Takes
  <2>3. AwaitsFs(u)'
    BY <2>1, <2>2 DEF AwaitsFs, Awaits, AskedFs
  <2>4. FsInv'
    BY <1>6, <2>1, <2>2, <2>3 DEF FsInv, AskedHd
  <2>5. UserInv(u)'
    BY <2>1, <2>2 DEF UserInv
  <2>6. \A v \in Users : UserInv(v)'
    BY <2>1, <2>2, <2>5, UserFrame, Cast DEF TasksInv
  <2>7. ~AwaitsSys(u)
    BY <2>1 DEF AwaitsSys, Awaits
  <2>8. \A c \in SysClients : AwaitsSys(c) => AwaitsSys(c)'
    BY <2>1, <2>2, <2>7, AwaitsFrame, Cast DEF SysClients
  <2>9. Untouched(TASK_SYS) /\ Untouched(TASK_TTY) /\ Untouched(TASK_HD)
    BY <2>1, <2>2, Cast
  <2>10. SysInv' /\ TtyInv' /\ HdInv' /\ DriveInv'
    BY <1>2, <1>6, <2>8, <2>9, SysFrame, TtyFrame, HdFrame, DriveFrame DEF TasksInv, Untouched
  <2> QED
    BY <1>5, <2>4, <2>6, <2>10
<1>8. CASE Waits(TASK_FS, ANY, "msg")
  <2>1. /\ \A r \in Procs \ {TASK_FS} : Untouched(r)
        /\ p_flags'[TASK_FS] = {RECEIVING} /\ p_recvfrom'[TASK_FS] = ANY /\ p_msg'[TASK_FS] = "msg"
    BY <1>8 DEF Waits
  <2>2. FsInv'
    BY <1>6, <2>1 DEF FsInv, AskedHd, InReceive
  <2>3. Untouched(TASK_SYS) /\ Untouched(TASK_TTY) /\ Untouched(TASK_HD)
    BY <2>1, Cast
  <2>4. /\ \A v \in Users : UserInv(v)'
        /\ \A c \in SysClients : AwaitsSys(c) => AwaitsSys(c)'
    BY <2>1, UserFrame, AwaitsFrame, Cast DEF TasksInv, SysClients
  <2>5. SysInv' /\ TtyInv' /\ HdInv' /\ DriveInv'
    BY <1>2, <1>6, <2>3, <2>4, SysFrame, TtyFrame, HdFrame, DriveFrame DEF TasksInv, Untouched
  <2> QED
    BY <1>3, <1>5, <2>2, <2>4, <2>5
<1> QED
  BY <1>3, <1>4, <1>7, <1>8 DEF Receives

\* A step of TASK_FS that makes no call.
LEMMA FsLocalKeeps ==
  ASSUME TasksInv, UNCHANGED vars, UNCHANGED <<hd, opened, disk, irq>>,
         p_flags[TASK_FS] = {}, pc[TASK_FS] \notin AskedHd,
         NEW to \in {"fs_work", "fs_receive", "fs_panic"}, Goto(TASK_FS, to),
         fs' \in [src : Procs \cup {NO_TASK}, budget : 0..MaxRequests],
         to = "fs_work" => /\ fs'.src \in Users /\ AwaitsFs(fs'.src)
                           /\ mem[TASK_FS]["msg"].type = Says("OPEN", fs'.src, 0)
  PROVE  ProtocolInv' /\ [Next]_vars
<1> USE DEF ProtocolInv
<1>1. TASK_FS \in Procs /\ to \in Labels
  BY Cast DEF Labels
<1>2. TasksTypeOK' /\ KernelUp' /\ [Next]_vars
  BY <1>1, CallKeepsTypes DEF TasksInv, TasksTypeOK, KernelUp, vars
<1>3. /\ \A r \in Procs \ {TASK_FS} : Untouched(r)
      /\ pc'[TASK_FS] = to /\ p_flags'[TASK_FS] = {} /\ has_int_msg' = has_int_msg
      /\ mem'[TASK_FS] = mem[TASK_FS]
  BY <1>1 DEF Untouched, Goto, vars, procVars, TasksInv, TasksTypeOK
<1>4. Untouched(TASK_SYS) /\ Untouched(TASK_TTY) /\ Untouched(TASK_HD)
  BY <1>3, Cast
<1>5. /\ \A v \in Users : UserInv(v)' /\ (AwaitsFs(v) => AwaitsFs(v)')
      /\ \A c \in SysClients : AwaitsSys(c) => AwaitsSys(c)'
  BY <1>3, UserFrame, AwaitsFrame, Cast DEF TasksInv, SysClients
<1>6. FsInv'
  BY <1>3, <1>5 DEF FsInv, AskedHd
<1>7. ~HdBusy
  BY HdFree DEF AwaitsHd, Awaits
<1>8. SysInv' /\ TtyInv' /\ HdInv' /\ DriveInv'
  BY <1>3, <1>4, <1>5, <1>7, SysFrame, TtyFrame, HdFrame, DriveFrame DEF TasksInv, Untouched
<1> QED
  BY <1>2, <1>5, <1>6, <1>8

LEMMA FsDispatchKeeps ==
  ASSUME TasksInv, FsDispatch, UNCHANGED <<hd, opened, disk, irq>>
  PROVE  ProtocolInv' /\ [Next]_vars
<1>1. /\ p_flags[TASK_FS] = {} /\ pc[TASK_FS] = "fs_dispatch" /\ Goto(TASK_FS, "fs_work")
      /\ UNCHANGED vars /\ fs' = [src |-> mem[TASK_FS]["msg"].source, budget |-> MaxRequests]
  BY DEF FsDispatch, At, Running, Source
<1>2. PICK u \in Users : mem[TASK_FS]["msg"] = Sent(u, Says("OPEN", u, 0)) /\ AwaitsFs(u)
  BY <1>1 DEF TasksInv, ProtocolInv, FsInv
<1>3. /\ mem[TASK_FS]["msg"].source = u /\ mem[TASK_FS]["msg"].type = Says("OPEN", u, 0)
      /\ u \in Procs
  BY <1>2, SentFields, Cast
<1>4. fs'.src = u /\ fs' \in [src : Procs \cup {NO_TASK}, budget : 0..MaxRequests]
  BY <1>1, <1>3, TasksAssumption
<1> QED
  BY <1>1, <1>2, <1>3, <1>4, FsLocalKeeps DEF AskedHd

\* The answer goes to the user that asked, who waits for it.
LEMMA FsReplyKeeps ==
  ASSUME TasksInv, FsReply, UNCHANGED <<hd, opened, disk, irq>>
  PROVE  ProtocolInv' /\ [Next]_vars
<1> USE DEF ProtocolInv
<1>1. /\ TASK_FS \in Procs /\ "msg" \in Bufs /\ fs' = fs
      /\ p_flags[TASK_FS] = {} /\ pc[TASK_FS] = "fs_work"
  BY Cast DEF FsReply, At, Running
<1>2. ~AwaitsHd /\ ~HdBusy
  BY <1>1, HdFree DEF AwaitsHd, Awaits, AskedHd
<1>3. CASE fs.src = NO_TASK
  BY <1>1, <1>3, FsLocalKeeps DEF FsReply, AskedHd, TasksInv, TasksTypeOK
<1>4. CASE fs.src # NO_TASK
  <2>1. PICK u \in Users : u = fs.src
    BY <1>1, <1>4 DEF TasksInv, FsInv
  <2>2. AwaitsFs(u) /\ mem[TASK_FS]["msg"].type = Says("OPEN", u, 0)
    BY <1>1, <1>4, <2>1 DEF TasksInv, FsInv
  <2>3. /\ u \in Procs /\ Says("SYSCALL_RET", u, 0) \in Types /\ SENDING \notin p_flags[u]
        /\ ~AwaitsSys(u)
    BY <2>2, Cast, TypesAssumption DEF AwaitsFs, AwaitsSys, Awaits, AskedFs, AskedSys
  <2>4. SendThen(TASK_FS, u, "msg", Says("SYSCALL_RET", u, 0), "fs_receive")
    <3>1. [Says("OPEN", u, 0) EXCEPT !.k = "SYSCALL_RET"] = Says("SYSCALL_RET", u, 0)
      BY DEF Says
    <3> QED
      BY <1>4, <2>1, <2>2, <3>1 DEF FsReply, Type
  <2>5. [Next]_vars
    BY <1>1, <2>3, <2>4, SendIsStep
  <2>6. Sends(TASK_FS, u, "msg", Says("SYSCALL_RET", u, 0), "fs_receive")
    BY <1>1, <2>3, <2>4, SendEffect
  <2>7. TasksTypeOK' /\ KernelUp'
    BY <1>1, <2>4, <2>5, <2>6, CallKeepsTypes
       DEF TasksInv, TasksTypeOK, KernelUp, Sends, StaysUp, SendThen, Labels
  <2>8. /\ \A r \in Procs \ {TASK_FS, u} : Untouched(r)
        /\ pc'[TASK_FS] = "fs_receive" /\ has_int_msg' = has_int_msg
        /\ mem'[TASK_FS]["msg"] = Sent(TASK_FS, Says("SYSCALL_RET", u, 0))
    BY <2>6 DEF Sends, Moves
  <2>9. Untouched(TASK_SYS) /\ Untouched(TASK_TTY) /\ Untouched(TASK_HD)
    BY <2>8, Cast
  <2>10. \A c \in SysClients : AwaitsSys(c) => AwaitsSys(c)'
    BY <2>3, <2>8, AwaitsFrame, Cast DEF SysClients
  <2>11. SysInv' /\ TtyInv' /\ HdInv' /\ DriveInv'
    BY <1>2, <2>8, <2>9, <2>10, SysFrame, TtyFrame, HdFrame, DriveFrame DEF TasksInv, Untouched
  <2>12. UserInv(u)' /\ FsInv'
    <3>1. CASE Delivers(TASK_FS, u, Says("SYSCALL_RET", u, 0))
      <4>1. pc[u] = "fs_return" /\ p_msg[u] = "msg"
        BY <1>1, <2>3, <3>1, ReceiverKinds, Cast DEF Delivers
      <4>2. UserInv(u)'
        BY <3>1, <4>1 DEF Delivers, UserInv
      <4>3. FsInv'
        BY <2>8, <3>1 DEF Delivers, FsInv, AskedHd
      <4> QED
        BY <4>2, <4>3
    <3>2. CASE Blocks(TASK_FS, u, "msg")
      <4>1. Untouched(u)
        BY <3>2 DEF Blocks
      <4>2. AwaitsFs(u)' /\ UserInv(u)'
        BY <2>2, <4>1, AwaitsFrame, UserFrame DEF TasksInv
      <4>3. p_flags'[TASK_FS] = {SENDING} /\ p_sendto'[TASK_FS] = u /\ p_msg'[TASK_FS] = "msg"
        BY <3>2 DEF Blocks
      <4>4. FsInv'
        BY <1>1, <2>1, <2>8, <4>2, <4>3 DEF FsInv, InSend, AskedHd
      <4> QED
        BY <4>2, <4>4
    <3> QED
      BY <2>6, <3>1, <3>2 DEF Sends
  <2>13. \A v \in Users : UserInv(v)'
    BY <2>8, <2>12, UserFrame, Cast DEF TasksInv
  <2> QED
    BY <2>5, <2>7, <2>11, <2>12, <2>13
<1> QED
  BY <1>3, <1>4

\* TASK_TTY takes no message: TASK_FS stays blocked, the kernel runs on.
LEMMA FsTtyKeeps ==
  ASSUME TasksInv, FsTty, UNCHANGED <<hd, opened, disk, irq>>
  PROVE  ProtocolInv' /\ [Next]_vars
<1> USE DEF ProtocolInv
<1>1. /\ TASK_FS \in Procs /\ TASK_TTY \in Procs /\ "driver_msg" \in Bufs /\ fs' = fs
      /\ Says("DEV_OPEN", TASK_FS, 0) \in Types
      /\ p_flags[TASK_FS] = {} /\ pc[TASK_FS] = "fs_work" /\ p_flags[TASK_TTY] = {}
      /\ SendThen(TASK_FS, TASK_TTY, "driver_msg", Says("DEV_OPEN", TASK_FS, 0), "fs_tty_answer")
  BY Cast, TypesAssumption DEF FsTty, At, Running, TasksInv, TtyInv
<1>2. ~AwaitsHd /\ ~HdBusy
  BY <1>1, HdFree DEF AwaitsHd, Awaits, AskedHd
<1>3. [Next]_vars
  BY <1>1, SendIsStep
<1>4. Sends(TASK_FS, TASK_TTY, "driver_msg", Says("DEV_OPEN", TASK_FS, 0), "fs_tty_answer")
  BY <1>1, SendEffect
<1>5. TasksTypeOK' /\ KernelUp'
  BY <1>1, <1>3, <1>4, CallKeepsTypes
     DEF TasksInv, TasksTypeOK, KernelUp, Sends, StaysUp, SendThen, Labels
<1>6. ~WaitsFor(TASK_TTY, TASK_FS)
  BY <1>1 DEF WaitsFor
<1>7. /\ \A r \in Procs \ {TASK_FS} : Untouched(r)
      /\ pc'[TASK_FS] = "fs_tty_answer" /\ has_int_msg' = has_int_msg
      /\ mem'[TASK_FS]["msg"] = mem[TASK_FS]["msg"]
      /\ p_flags'[TASK_FS] = {SENDING} /\ p_sendto'[TASK_FS] = TASK_TTY
      /\ p_msg'[TASK_FS] = "driver_msg"
  BY <1>4, <1>6, Cast DEF Sends, Moves, Delivers, Blocks
<1>8. Untouched(TASK_SYS) /\ Untouched(TASK_TTY) /\ Untouched(TASK_HD)
  BY <1>7, Cast
<1>9. /\ \A v \in Users : UserInv(v)' /\ (AwaitsFs(v) => AwaitsFs(v)')
      /\ \A c \in SysClients : AwaitsSys(c) => AwaitsSys(c)'
  BY <1>7, UserFrame, AwaitsFrame, Cast DEF TasksInv, SysClients
<1>10. FsInv'
  <2>1. \/ fs.src = NO_TASK
        \/ /\ fs.src \in Users /\ AwaitsFs(fs.src)'
           /\ mem'[TASK_FS]["msg"].type = Says("OPEN", fs.src, 0)
    BY <1>1, <1>7, <1>9 DEF TasksInv, FsInv
  <2> QED
    BY <1>1, <1>7, <2>1 DEF FsInv, AskedHd, InSend
<1>11. SysInv' /\ TtyInv' /\ HdInv' /\ DriveInv'
  BY <1>2, <1>7, <1>8, <1>9, SysFrame, TtyFrame, HdFrame, DriveFrame DEF TasksInv, Untouched
<1> QED
  BY <1>3, <1>5, <1>9, <1>10, <1>11

-----------------------------------------------------------------------------
(* TASK_HD and its calls.                                                  *)

\* While a request is served, only the answer of TASK_SYS is sent to TASK_HD.
LEMMA NobodySendsToBusyHd ==
  ASSUME TasksInv, HdBusy, ~AwaitsSys(TASK_HD)
  PROVE  \A r \in Procs : ~SendsTo(r, TASK_HD)
<1>1. AwaitsHd /\ p_flags[TASK_FS] # {SENDING}
  BY DEF TasksInv, ProtocolInv, HdInv, AwaitsHd, Awaits
<1>2. ASSUME NEW r \in Procs, SendsTo(r, TASK_HD) PROVE FALSE
  BY <1>1, <1>2, SenderKinds, Flags, Cast DEF UserSends, HdSends
<1> QED
  BY <1>2

LEMMA HdReceiveKeeps ==
  ASSUME TasksInv, HdReceive, UNCHANGED <<fs, irq>>
  PROVE  ProtocolInv' /\ [Next]_vars
<1> USE DEF ProtocolInv
<1>1. /\ TASK_HD \in Procs /\ TASK_FS \in Procs /\ "msg" \in Bufs
      /\ ANY \in Procs \cup {ANY, INTERRUPT} /\ UNCHANGED <<hd, opened, disk>>
      /\ p_flags[TASK_HD] = {} /\ pc[TASK_HD] = "hd_receive"
      /\ ReceiveThen(TASK_HD, ANY, "msg", "hd_dispatch")
  BY Cast DEF HdReceive, At, Running
<1>2. ~has_int_msg[TASK_HD] /\ p_msg[TASK_HD] = NULL
  BY <1>1 DEF TasksInv, HdInv, DriveInv, DriveIdle, Quiet
<1>3. [Next]_vars
  BY <1>1, ReceiveIsStep
<1>4. Receives(TASK_HD, ANY, "msg", "hd_dispatch")
  BY <1>1, <1>2, ReceiveEffect
<1>5. TasksTypeOK' /\ KernelUp'
  BY <1>1, <1>3, <1>4, CallKeepsTypes
     DEF TasksInv, TasksTypeOK, KernelUp, Receives, StaysUp, ReceiveThen, Labels
<1>6. pc'[TASK_HD] = "hd_dispatch" /\ has_int_msg' = has_int_msg
  BY <1>4 DEF Receives, Moves
<1>7. DriveInv'
  BY <1>1, <1>6, DriveFrame DEF TasksInv
<1>8. ~AwaitsSys(TASK_HD)
  BY <1>1 DEF AwaitsSys, Awaits, AskedSys
<1>9. ASSUME NEW s \in Procs \ {TASK_HD}, Takes(TASK_HD, s, ANY, "msg")
      PROVE  ProtocolInv'
  <2>1. /\ s = TASK_FS /\ pc[s] \in AskedHd /\ p_flags[s] = {SENDING}
        /\ \E x \in HdRequests : mem[s][p_msg[s]] = Sent(TASK_FS, x)
    BY <1>1, <1>8, <1>9, SenderKinds, Flags, Cast DEF Takes, UserSends, FsSends
  <2>2. /\ \A r \in Procs \ {TASK_HD, TASK_FS} : Untouched(r)
        /\ p_flags'[TASK_FS] = {} /\ pc'[TASK_FS] = pc[TASK_FS] /\ mem'[TASK_FS] = mem[TASK_FS]
        /\ p_flags'[TASK_HD] = {} /\ \E x \in HdRequests : mem'[TASK_HD]["msg"] = Sent(TASK_FS, x)
    BY <1>9, <2>1 DEF Takes
  <2>3. AwaitsHd'
    BY <2>1, <2>2 DEF AwaitsHd, Awaits
  <2>4. HdInv'
    BY <1>6, <2>2, <2>3 DEF HdInv, HdLabels, AskedSys
  <2>5. /\ \A v \in Users : UserInv(v)' /\ (AwaitsFs(v) => AwaitsFs(v)')
        /\ \A c \in SysClients : AwaitsSys(c) => AwaitsSys(c)'
        /\ Untouched(TASK_SYS) /\ Untouched(TASK_TTY)
    BY <1>8, <2>2, UserFrame, AwaitsFrame, Cast DEF TasksInv, SysClients
  <2>6. FsInv'
    BY <1>1, <2>1, <2>2, <2>5 DEF TasksInv, FsInv, AskedHd
  <2>7. SysInv' /\ TtyInv'
    BY <2>5, SysFrame, TtyFrame DEF TasksInv
  <2> QED
    BY <1>5, <1>7, <2>4, <2>5, <2>6, <2>7
<1>10. CASE Waits(TASK_HD, ANY, "msg")
  <2>1. \A r \in Procs \ {TASK_HD} : Untouched(r)
    BY <1>10 DEF Waits
  <2>2. HdInv'
    BY <1>6, <1>10 DEF Waits, HdInv, HdLabels, HdBusy, InReceive
  <2>3. /\ \A v \in Users : UserInv(v)' /\ (AwaitsFs(v) => AwaitsFs(v)')
        /\ \A c \in SysClients : AwaitsSys(c) => AwaitsSys(c)'
        /\ Untouched(TASK_SYS) /\ Untouched(TASK_TTY) /\ Untouched(TASK_FS)
    BY <1>8, <2>1, UserFrame, AwaitsFrame, Cast DEF TasksInv, SysClients
  <2>4. SysInv' /\ TtyInv' /\ FsInv'
    BY <2>3, SysFrame, TtyFrame, FsFrame DEF TasksInv
  <2> QED
    BY <1>3, <1>5, <1>7, <2>2, <2>3, <2>4
<1> QED
  BY <1>3, <1>4, <1>9, <1>10 DEF Receives

LEMMA AskTimeKeeps ==
  ASSUME TasksInv, NEW from \in {"wait_t0", "wait_poll"}, NEW to \in AskedSys,
         to # "tick_answer", AskTime(from, to), UNCHANGED <<hd, opened, fs, disk, irq>>
  PROVE  ProtocolInv' /\ [Next]_vars
<1> USE DEF ProtocolInv
<1>1. /\ TASK_HD \in Procs /\ TASK_SYS \in Procs /\ "tick_msg" \in Bufs
      /\ Says("GET_TICKS", TASK_HD, 0) \in Types /\ to \in Labels \cap WaitLabels
      /\ p_flags[TASK_HD] = {} /\ pc[TASK_HD] = from
      /\ SendThen(TASK_HD, TASK_SYS, "tick_msg", Says("GET_TICKS", TASK_HD, 0), to)
  BY Cast, TypesAssumption DEF AskTime, At, Running, AskedSys, Labels, WaitLabels
<1>2. ~AwaitsSys(TASK_HD) /\ HdBusy
  BY <1>1 DEF AwaitsSys, Awaits, AskedSys, HdBusy
<1>3. [Next]_vars
  BY <1>1, SendIsStep
<1>4. Sends(TASK_HD, TASK_SYS, "tick_msg", Says("GET_TICKS", TASK_HD, 0), to)
  BY <1>1, <1>2, NobodySendsToBusyHd, SendEffect
<1>5. TasksTypeOK' /\ KernelUp'
  BY <1>1, <1>3, <1>4, CallKeepsTypes
     DEF TasksInv, TasksTypeOK, KernelUp, Sends, StaysUp, SendThen
<1>6. /\ \A r \in Procs \ {TASK_HD, TASK_SYS} : Untouched(r)
      /\ pc'[TASK_HD] = to /\ has_int_msg' = has_int_msg
      /\ mem'[TASK_HD]["tick_msg"] = Sent(TASK_HD, Says("GET_TICKS", TASK_HD, 0))
      /\ mem'[TASK_HD]["msg"] = mem[TASK_HD]["msg"]
      /\ pc'[TASK_SYS] = pc[TASK_SYS]
  BY <1>4, Cast DEF Sends, Moves, Delivers, Blocks, Untouched
<1>7. DriveInv'
  BY <1>1, <1>6, DriveFrame DEF TasksInv, WaitLabels
<1>8. /\ \A v \in Users : UserInv(v)' /\ (AwaitsFs(v) => AwaitsFs(v)')
      /\ Untouched(TASK_FS) /\ Untouched(TASK_TTY)
  BY <1>6, UserFrame, AwaitsFrame, Cast DEF TasksInv
<1>9. FsInv' /\ TtyInv' /\ AwaitsHd'
  BY <1>2, <1>8, FsFrame, TtyFrame, AwaitsHdFrame DEF TasksInv, HdInv
<1>10. HdInv'
  <2>1. \E x \in HdRequests : mem'[TASK_HD]["msg"] = Sent(TASK_FS, x)
    BY <1>1, <1>2, <1>6 DEF TasksInv, HdInv
  <2>2. \/ p_flags'[TASK_HD] = {} /\ p_msg'[TASK_HD] = NULL
        \/ /\ p_flags'[TASK_HD] = {SENDING} /\ p_sendto'[TASK_HD] = TASK_SYS
           /\ p_msg'[TASK_HD] = "tick_msg"
    BY <1>4 DEF Sends, Delivers, Blocks
  <2> QED
    BY <1>1, <1>6, <1>9, <2>1, <2>2 DEF HdInv, HdLabels, InSend
<1>11. SysInv'
  <2>1. CASE Delivers(TASK_HD, TASK_SYS, Says("GET_TICKS", TASK_HD, 0))
    <3>1. pc[TASK_SYS] = "sys_reply" /\ p_msg[TASK_SYS] = "msg"
      BY <1>1, <2>1, ReceiverKinds, Cast DEF Delivers
    <3>2. AwaitsSys(TASK_HD)'
      BY <1>6, <2>1 DEF AwaitsSys, Awaits, Delivers
    <3>3. /\ p_flags'[TASK_SYS] = {} /\ pc'[TASK_SYS] = "sys_reply"
          /\ mem'[TASK_SYS]["msg"] = Sent(TASK_HD, Says("GET_TICKS", TASK_HD, 0))
      BY <2>1, <3>1 DEF Delivers
    <3> QED
      BY <3>2, <3>3 DEF SysInv, SysClients
  <2>2. CASE Blocks(TASK_HD, TASK_SYS, "tick_msg")
    <3>1. Untouched(TASK_SYS)
      BY <2>2 DEF Blocks
    <3>2. \A c \in SysClients : AwaitsSys(c) => AwaitsSys(c)'
      BY <1>2, <1>6, AwaitsFrame, Cast DEF SysClients
    <3> QED
      BY <3>1, <3>2, SysFrame DEF TasksInv
  <2> QED
    BY <1>4, <2>1, <2>2 DEF Sends
<1> QED
  BY <1>3, <1>5, <1>7, <1>8, <1>9, <1>10, <1>11

LEMMA TakeTimeKeeps ==
  ASSUME TasksInv, NEW from \in AskedSys, from # "tick_answer",
         NEW to \in {"wait_poll", "wait_test"},
         TakeTime(from, to), UNCHANGED <<hd, opened, fs, disk, irq>>
  PROVE  ProtocolInv' /\ [Next]_vars
<1> USE DEF ProtocolInv
<1>1. /\ TASK_HD \in Procs /\ TASK_SYS \in Procs /\ "tick_msg" \in Bufs
      /\ to \in Labels /\ from \in WaitLabels
      /\ p_flags[TASK_HD] = {} /\ pc[TASK_HD] = from
      /\ ReceiveThen(TASK_HD, TASK_SYS, "tick_msg", to)
  BY Cast DEF TakeTime, At, Running, AskedSys, Labels, WaitLabels
<1>2. ~has_int_msg[TASK_HD] /\ p_msg[TASK_HD] = NULL /\ HdBusy
  BY <1>1 DEF TasksInv, HdInv, DriveInv, DriveIdle, Outgoing, Quiet, HdBusy, AskedSys
<1>3. [Next]_vars
  BY <1>1, ReceiveIsStep
<1>4. Receives(TASK_HD, TASK_SYS, "tick_msg", to)
  BY <1>1, <1>2, ReceiveEffect
<1>5. TasksTypeOK' /\ KernelUp'
  BY <1>1, <1>3, <1>4, CallKeepsTypes
     DEF TasksInv, TasksTypeOK, KernelUp, Receives, StaysUp, ReceiveThen
<1>6. /\ \A r \in Procs \ {TASK_HD, TASK_SYS} : Untouched(r)
      /\ pc'[TASK_HD] = to /\ has_int_msg' = has_int_msg
      /\ mem'[TASK_HD]["msg"] = mem[TASK_HD]["msg"]
      /\ \/ Takes(TASK_HD, TASK_SYS, TASK_SYS, "tick_msg")
         \/ Waits(TASK_HD, TASK_SYS, "tick_msg")
  BY <1>4, Cast DEF Receives, Moves, Takes, Waits
<1>7. DriveInv'
  BY <1>1, <1>6, DriveFrame DEF TasksInv, WaitLabels
<1>8. /\ \A v \in Users : UserInv(v)' /\ (AwaitsFs(v) => AwaitsFs(v)')
      /\ Untouched(TASK_FS) /\ Untouched(TASK_TTY)
  BY <1>6, UserFrame, AwaitsFrame, Cast DEF TasksInv
<1>9. FsInv' /\ TtyInv' /\ AwaitsHd'
  BY <1>2, <1>8, FsFrame, TtyFrame, AwaitsHdFrame DEF TasksInv, HdInv
<1>10. HdInv'
  <2>1. \E x \in HdRequests : mem'[TASK_HD]["msg"] = Sent(TASK_FS, x)
    BY <1>1, <1>2, <1>6 DEF TasksInv, HdInv, AskedSys
  <2>2. \/ p_flags'[TASK_HD] = {} /\ p_msg'[TASK_HD] = NULL
        \/ /\ p_flags'[TASK_HD] = {RECEIVING} /\ p_recvfrom'[TASK_HD] = TASK_SYS
           /\ p_msg'[TASK_HD] = "tick_msg"
    BY <1>6 DEF Takes, Waits
  <2> QED
    BY <1>6, <1>9, <2>1, <2>2 DEF HdInv, HdLabels, WaitLabels, InReceive
<1>11. SysInv'
  <2>1. CASE Takes(TASK_HD, TASK_SYS, TASK_SYS, "tick_msg")
    <3>1. pc[TASK_SYS] = "sys_receive"
      BY <1>1, <2>1, SenderKinds, Cast DEF Takes
    <3> QED
      BY <2>1, <3>1 DEF Takes, SysInv
  <2>2. CASE Waits(TASK_HD, TASK_SYS, "tick_msg")
    <3>1. Untouched(TASK_SYS)
      BY <2>2, Cast DEF Waits
    <3>2. AwaitsSys(TASK_HD)'
      BY <2>2 DEF Waits, AwaitsSys, Awaits
    <3>3. \A c \in SysClients : AwaitsSys(c) => AwaitsSys(c)'
      BY <1>6, <3>2, AwaitsFrame, Cast DEF SysClients
    <3> QED
      BY <3>1, <3>3, SysFrame DEF TasksInv
  <2> QED
    BY <1>6, <2>1, <2>2
<1> QED
  BY <1>3, <1>5, <1>7, <1>8, <1>9, <1>10, <1>11

LEMMA HdReplyKeeps ==
  ASSUME TasksInv, HdReply, UNCHANGED <<fs, irq>>
  PROVE  ProtocolInv' /\ [Next]_vars
<1> USE DEF ProtocolInv
<1>1. /\ TASK_HD \in Procs /\ TASK_FS \in Procs /\ "msg" \in Bufs
      /\ UNCHANGED <<hd, opened, disk>> /\ p_flags[TASK_HD] = {} /\ pc[TASK_HD] = "hd_reply"
  BY Cast DEF HdReply, At, Running
<1>2. HdBusy /\ AwaitsHd /\ ~AwaitsSys(TASK_HD) /\ SENDING \notin p_flags[TASK_FS]
  BY <1>1 DEF HdBusy, TasksInv, HdInv, AwaitsHd, AwaitsSys, Awaits, AskedSys
<1>3. PICK x \in HdRequests : mem[TASK_HD]["msg"] = Sent(TASK_FS, x)
  BY <1>1, <1>2 DEF TasksInv, HdInv
<1>4. SendThen(TASK_HD, TASK_FS, "msg", x, "hd_receive") /\ x \in Types
  BY <1>3, SentFields, RequestKinds DEF HdReply, Source, Type
<1>5. [Next]_vars
  BY <1>1, <1>4, SendIsStep
<1>6. Sends(TASK_HD, TASK_FS, "msg", x, "hd_receive")
  BY <1>1, <1>2, <1>4, SendEffect
<1>7. TasksTypeOK' /\ KernelUp'
  BY <1>1, <1>4, <1>5, <1>6, CallKeepsTypes
     DEF TasksInv, TasksTypeOK, KernelUp, Sends, StaysUp, SendThen, Labels
<1>8. /\ \A r \in Procs \ {TASK_HD, TASK_FS} : Untouched(r)
      /\ pc'[TASK_HD] = "hd_receive" /\ has_int_msg' = has_int_msg
  BY <1>6 DEF Sends, Moves
<1>9. DriveInv'
  BY <1>1, <1>8, DriveFrame DEF TasksInv
<1>10. /\ \A v \in Users : UserInv(v)' /\ (AwaitsFs(v) => AwaitsFs(v)')
       /\ \A c \in SysClients : AwaitsSys(c) => AwaitsSys(c)'
       /\ Untouched(TASK_SYS) /\ Untouched(TASK_TTY)
  BY <1>2, <1>8, UserFrame, AwaitsFrame, Cast DEF TasksInv, SysClients
<1>11. SysInv' /\ TtyInv'
  BY <1>10, SysFrame, TtyFrame DEF TasksInv
<1>12. CASE Delivers(TASK_HD, TASK_FS, x)
  <2>1. p_flags[TASK_FS] = {RECEIVING} /\ p_recvfrom[TASK_FS] = TASK_HD
    BY <1>1, <1>2, <1>12, Flags, Cast DEF Delivers, AwaitsHd, Awaits
  <2>2. pc[TASK_FS] \in {"fs_geo", "fs_work"} /\ p_msg[TASK_FS] = "driver_msg"
    BY <1>1, <1>12, <2>1, ReceiverKinds, Cast DEF Delivers
  <2>3. /\ p_flags'[TASK_FS] = {} /\ pc'[TASK_FS] = pc[TASK_FS]
        /\ mem'[TASK_FS]["msg"] = mem[TASK_FS]["msg"]
    BY <1>12, <2>2, Cast DEF Delivers
  <2>4. FsInv'
    BY <1>1, <1>10, <2>2, <2>3 DEF TasksInv, FsInv, AskedHd
  <2>5. HdInv'
    BY <1>8, <1>12 DEF Delivers, HdInv, HdBusy, HdLabels
  <2> QED
    BY <1>5, <1>7, <1>9, <1>10, <1>11, <2>4, <2>5
<1>13. CASE Blocks(TASK_HD, TASK_FS, "msg")
  <2>1. Untouched(TASK_FS)
    BY <1>13 DEF Blocks
  <2>2. FsInv' /\ AwaitsHd'
    BY <1>2, <1>10, <2>1, FsFrame, AwaitsHdFrame DEF TasksInv
  <2>3. HdInv'
    BY <1>8, <1>13, <2>2 DEF Blocks, HdInv, HdLabels, InSend
  <2> QED
    BY <1>5, <1>7, <1>9, <1>10, <1>11, <2>2, <2>3
<1> QED
  BY <1>6, <1>12, <1>13 DEF Sends

\* A step that leaves all but TASK_HD alone while it serves a request.
LEMMA OthersKeep ==
  ASSUME TasksInv, \A r \in Procs \ {TASK_HD} : Untouched(r), fs' = fs,
         HdBusy, ~AwaitsSys(TASK_HD)
  PROVE  (\A u \in Users : UserInv(u)') /\ SysInv' /\ FsInv' /\ TtyInv' /\ AwaitsHd'
<1> USE DEF ProtocolInv
<1>1. /\ \A v \in Users : UserInv(v)' /\ (AwaitsFs(v) => AwaitsFs(v)')
      /\ \A c \in SysClients : AwaitsSys(c) => AwaitsSys(c)'
      /\ Untouched(TASK_SYS) /\ Untouched(TASK_TTY) /\ Untouched(TASK_FS)
  BY UserFrame, AwaitsFrame, Cast DEF TasksInv, SysClients
<1>2. SysInv' /\ TtyInv' /\ FsInv'
  BY <1>1, SysFrame, TtyFrame, FsFrame DEF TasksInv
<1>3. AwaitsHd'
  BY <1>1, AwaitsHdFrame DEF TasksInv, HdInv
<1> QED
  BY <1>1, <1>2, <1>3

\* What remains of HdInv is the request that TASK_HD serves.
LEMMA HdServes ==
  ASSUME TasksInv, HdBusy, pc[TASK_HD] # "hd_receive", AwaitsHd', p_flags'[TASK_HD] = {},
         pc'[TASK_HD] \in HdLabels \ (AskedSys \cup {"hd_receive"}),
         mem'[TASK_HD]["msg"] = mem[TASK_HD]["msg"]
  PROVE  HdInv'
<1>1. \E x \in HdRequests : mem'[TASK_HD]["msg"] = Sent(TASK_FS, x)
  BY DEF TasksInv, ProtocolInv, HdInv
<1> QED
  BY <1>1 DEF HdInv, AskedSys

\* A step of TASK_HD that makes no call.
LEMMA HdLocalKeeps ==
  ASSUME TasksInv, UNCHANGED vars, fs' = fs, irq' = irq, p_flags[TASK_HD] = {},
         pc[TASK_HD] \in HdLabels \ (AskedSys \cup {"hd_receive"}),
         NEW to \in HdLabels \ (AskedSys \cup {"hd_receive"}), Goto(TASK_HD, to),
         hd' \in [op : {"in", "out"}, left : 0..MaxSectors, commands : 0..Tables + 1,
                  return : {"hd_command", "hd_port_write"}],
         disk' \in [state : DriveState, left : 0..MaxSectors], opened' \in BOOLEAN, DriveInv'
  PROVE  ProtocolInv' /\ [Next]_vars
<1> USE DEF ProtocolInv
<1>1. TASK_HD \in Procs /\ to \in Labels
  BY Cast DEF Labels, HdLabels, WaitLabels
<1>2. TasksTypeOK' /\ KernelUp' /\ [Next]_vars
  BY <1>1, CallKeepsTypes DEF TasksInv, TasksTypeOK, KernelUp, vars
<1>3. /\ \A r \in Procs \ {TASK_HD} : Untouched(r)
      /\ pc'[TASK_HD] = to /\ p_flags'[TASK_HD] = {} /\ mem'[TASK_HD] = mem[TASK_HD]
  BY <1>1 DEF Untouched, Goto, vars, procVars, TasksInv, TasksTypeOK
<1>4. HdBusy /\ ~AwaitsSys(TASK_HD)
  BY DEF HdBusy, AwaitsSys, Awaits
<1>5. (\A u \in Users : UserInv(u)') /\ SysInv' /\ FsInv' /\ TtyInv' /\ AwaitsHd'
  BY <1>3, <1>4, OthersKeep
<1>6. HdInv'
  BY <1>3, <1>4, <1>5, HdServes
<1> QED
  BY <1>2, <1>5, <1>6

\* The types of the record of the command, field by field.
LEMMA HdTyped ==
  ASSUME TasksInv
  PROVE  /\ hd \in [op : {"in", "out"}, left : 0..MaxSectors, commands : 0..Tables + 1,
                    return : {"hd_command", "hd_port_write"}]
         /\ disk \in [state : DriveState, left : 0..MaxSectors]
         /\ hd.op \in {"in", "out"} /\ hd.left \in Nat /\ hd.commands \in Nat
         /\ hd.return \in {"hd_command", "hd_port_write"}
         /\ disk.state \in DriveState /\ disk.left \in Nat
         /\ irq \in BOOLEAN /\ opened \in BOOLEAN
         /\ MaxSectors \in Nat \ {0} /\ Tables \in Nat \ {0}
BY TasksAssumption DEF TasksInv, ProtocolInv, TasksTypeOK

LEMMA HdDispatchKeeps ==
  ASSUME TasksInv, HdDispatch, UNCHANGED <<fs, irq>>
  PROVE  ProtocolInv' /\ [Next]_vars
<1> USE DEF ProtocolInv
<1>1. p_flags[TASK_HD] = {} /\ pc[TASK_HD] = "hd_dispatch" /\ UNCHANGED disk
  BY DEF HdDispatch, At, Running
<1>2. HdBusy /\ DriveIdle /\ has_int_msg' = has_int_msg
  BY <1>1 DEF HdBusy, TasksInv, DriveInv, HdDispatch, vars, procVars
<1>3. PICK x \in HdRequests : mem[TASK_HD]["msg"] = Sent(TASK_FS, x)
  BY <1>1, <1>2 DEF TasksInv, HdInv
<1>4. /\ Type(TASK_HD, "msg") = x
      /\ x.k \in {"DEV_OPEN", "DEV_READ", "DEV_WRITE", "DEV_IOCTL"}
      /\ x.k \in {"DEV_READ", "DEV_WRITE"} => x.n \in 1..MaxSectors
  BY <1>3, SentFields, RequestKinds DEF Type
<1>5. /\ UNCHANGED vars /\ opened' = (opened \/ x.k = "DEV_OPEN")
      /\ Goto(TASK_HD, IF x.k = "DEV_IOCTL" THEN "hd_reply" ELSE "wait_t0")
  BY <1>4 DEF HdDispatch
<1>6. /\ x.k = "DEV_OPEN" => hd' = [op |-> "in", left |-> 1,
                                   commands |-> IF opened THEN 1 ELSE 1 + Tables,
                                   return |-> "hd_command"]
      /\ x.k = "DEV_READ" => hd' = [op |-> "in", left |-> x.n, commands |-> 1,
                                   return |-> "hd_command"]
      /\ x.k = "DEV_WRITE" => hd' = [op |-> "out", left |-> x.n, commands |-> 1,
                                    return |-> "hd_command"]
      /\ x.k = "DEV_IOCTL" => hd' = hd
  BY <1>4 DEF HdDispatch
<1>7. hd' \in [op : {"in", "out"}, left : 0..MaxSectors, commands : 0..Tables + 1,
               return : {"hd_command", "hd_port_write"}]
  BY <1>4, <1>6, HdTyped
<1>8. DriveIdle'
  BY <1>1, <1>2 DEF DriveIdle, Quiet
<1>9. TASK_HD \in Procs /\ opened' \in BOOLEAN
  BY <1>5, Cast
<1>10. CASE x.k = "DEV_IOCTL"
  <2>1. pc'[TASK_HD] = "hd_reply" /\ Goto(TASK_HD, "hd_reply")
    BY <1>5, <1>9, <1>10 DEF Goto, TasksInv, TasksTypeOK
  <2>2. DriveInv'
    BY <1>8, <2>1 DEF DriveInv, WaitLabels
  <2> QED
    BY <1>1, <1>5, <1>7, <1>9, <2>1, <2>2, HdTyped, HdLocalKeeps DEF HdLabels, WaitLabels, AskedSys
<1>11. CASE x.k # "DEV_IOCTL"
  <2>1. pc'[TASK_HD] = "wait_t0" /\ Goto(TASK_HD, "wait_t0")
    BY <1>5, <1>9, <1>11 DEF Goto, TasksInv, TasksTypeOK
  <2>2. hd'.return = "hd_command" /\ hd'.left > 0 /\ hd'.commands > 0
    BY <1>4, <1>6, <1>11, HdTyped
  <2>3. DriveInv'
    BY <1>8, <2>1, <2>2 DEF DriveInv, WaitLabels
  <2> QED
    BY <1>1, <1>5, <1>7, <1>9, <2>1, <2>3, HdTyped, HdLocalKeeps DEF HdLabels, WaitLabels, AskedSys
<1> QED
  BY <1>10, <1>11

\* waitfor goes on when the drive is ready: idle for a command, with its
\* buffer free for data.
LEMMA WaitforTestKeeps ==
  ASSUME TasksInv, WaitforTest, UNCHANGED <<fs, irq>>
  PROVE  ProtocolInv' /\ [Next]_vars
<1> USE DEF ProtocolInv
<1>1. /\ p_flags[TASK_HD] = {} /\ pc[TASK_HD] = "wait_test" /\ TASK_HD \in Procs
      /\ UNCHANGED <<vars, hd, opened, disk>>
      /\ Goto(TASK_HD, IF Awaited THEN hd.return ELSE "wait_poll")
  BY Cast DEF WaitforTest, At, Running
<1>2. has_int_msg' = has_int_msg /\ hd.return \in {"hd_command", "hd_port_write"}
  BY <1>1, HdTyped DEF vars, procVars
<1>3. /\ Quiet' <=> Quiet
      /\ DriveIdle' <=> DriveIdle
      /\ Outgoing' <=> Outgoing
  BY <1>1, <1>2 DEF Quiet, DriveIdle, Outgoing
<1>4. \/ hd.return = "hd_command" /\ DriveIdle /\ hd.left > 0 /\ hd.commands > 0
      \/ hd.return = "hd_port_write" /\ hd.op = "out" /\ Outgoing
  BY <1>1 DEF TasksInv, DriveInv, WaitLabels
<1>5. PICK to \in {"hd_command", "hd_port_write", "wait_poll"} :
         Goto(TASK_HD, to) /\ (to = "wait_poll" \/ (to = hd.return /\ Awaited))
  <2>1. CASE Awaited
    BY <1>1, <1>2, <2>1
  <2>2. CASE ~Awaited
    BY <1>1, <2>2
  <2> QED
    BY <2>1, <2>2
<1>6. pc'[TASK_HD] = to
  BY <1>1, <1>5 DEF Goto, TasksInv, TasksTypeOK
<1>7. DriveInv'
  <2>1. CASE to = "wait_poll"
    BY <1>1, <1>3, <1>4, <1>6, <2>1 DEF DriveInv, WaitLabels
  <2>2. CASE to = "hd_command"
    BY <1>1, <1>3, <1>4, <1>5, <1>6, <2>2 DEF DriveInv, WaitLabels
  <2>3. CASE to = "hd_port_write"
    <3>1. disk.state = "data_out"
      BY <1>4, <1>5, <2>3 DEF Awaited, Outgoing
    <3> QED
      BY <1>1, <1>3, <1>4, <1>5, <1>6, <2>3, <3>1 DEF DriveInv, WaitLabels
  <2> QED
    BY <1>5, <2>1, <2>2, <2>3
<1> QED
  BY <1>1, <1>5, <1>7, HdTyped, HdLocalKeeps DEF HdLabels, WaitLabels, AskedSys

\* A time-out leaves everything as the poll found it, but for TASK_HD.
LEMMA WaitforTimeoutKeeps ==
  ASSUME TasksInv, WaitforTimeout, UNCHANGED <<fs, irq>>
  PROVE  ProtocolInv' /\ [Next]_vars
<1> USE DEF ProtocolInv
<1>1. /\ p_flags[TASK_HD] = {} /\ pc[TASK_HD] = "wait_test" /\ TASK_HD \in Procs
      /\ UNCHANGED <<vars, hd, opened, disk>> /\ Goto(TASK_HD, "hd_error")
  BY Cast DEF WaitforTimeout, At, Running
<1>2. has_int_msg' = has_int_msg /\ pc'[TASK_HD] = "hd_error"
  BY <1>1 DEF vars, procVars, Goto, TasksInv, TasksTypeOK
<1>3. /\ DriveIdle' <=> DriveIdle
      /\ Outgoing' <=> Outgoing
  BY <1>1, <1>2 DEF Quiet, DriveIdle, Outgoing
<1>4. DriveInv'
  BY <1>1, <1>2, <1>3 DEF TasksInv, DriveInv, WaitLabels
<1> QED
  BY <1>1, <1>4, HdTyped, HdLocalKeeps DEF HdLabels, WaitLabels, AskedSys

LEMMA HdCommandKeeps ==
  ASSUME TasksInv, HdCommand, UNCHANGED <<fs, irq>>
  PROVE  ProtocolInv' /\ [Next]_vars
<1> USE DEF ProtocolInv
<1>1. /\ p_flags[TASK_HD] = {} /\ pc[TASK_HD] = "hd_command" /\ TASK_HD \in Procs
      /\ UNCHANGED <<vars, opened>> /\ Goto(TASK_HD, "hd_transfer")
      /\ disk' = [state |-> IF hd.op = "in" THEN "busy_in" ELSE "busy_first", left |-> hd.left]
      /\ hd' = [hd EXCEPT !.commands = hd.commands - 1]
  BY Cast DEF HdCommand, At, Running
<1>2. DriveIdle /\ hd.left > 0 /\ hd.commands > 0
  BY <1>1 DEF TasksInv, DriveInv
<1>3. /\ hd' \in [op : {"in", "out"}, left : 0..MaxSectors, commands : 0..Tables + 1,
                  return : {"hd_command", "hd_port_write"}]
      /\ hd'.op = hd.op /\ hd'.left = hd.left
  BY <1>1, <1>2, HdTyped
<1>4. disk' \in [state : DriveState, left : 0..MaxSectors]
  BY <1>1, HdTyped DEF DriveState
<1>5. Quiet' /\ pc'[TASK_HD] = "hd_transfer"
  BY <1>1, <1>2 DEF DriveIdle, Quiet, vars, procVars, Goto, TasksInv, TasksTypeOK
<1>6. DriveInv'
  <2>1. CASE hd.op = "in"
    BY <1>1, <1>2, <1>3, <1>5, <2>1 DEF DriveInv, WaitLabels, Incoming
  <2>2. CASE hd.op = "out"
    BY <1>1, <1>2, <1>3, <1>5, <2>2 DEF DriveInv, WaitLabels, Outgoing
  <2> QED
    BY <2>1, <2>2, HdTyped
<1> QED
  BY <1>1, <1>3, <1>4, <1>6, HdTyped, HdLocalKeeps DEF HdLabels, WaitLabels, AskedSys

LEMMA HdTransferKeeps ==
  ASSUME TasksInv, HdTransfer, UNCHANGED <<fs, irq>>
  PROVE  ProtocolInv' /\ [Next]_vars
<1> USE DEF ProtocolInv
<1>1. /\ p_flags[TASK_HD] = {} /\ pc[TASK_HD] = "hd_transfer" /\ TASK_HD \in Procs
      /\ UNCHANGED <<vars, opened, disk>> /\ has_int_msg' = has_int_msg
  BY Cast DEF HdTransfer, At, Running, vars, procVars
<1>2. \/ hd.left = 0 /\ DriveIdle
      \/ hd.op = "in" /\ Incoming
      \/ hd.op = "out" /\ Outgoing
  BY <1>1 DEF TasksInv, DriveInv, WaitLabels
<1>3. /\ Quiet' <=> Quiet
      /\ Raised' <=> Raised
      /\ DriveIdle' <=> DriveIdle
  BY <1>1 DEF Quiet, Raised, DriveIdle
<1>4. CASE hd.left = 0
  <2>1. DriveIdle'
    BY <1>2, <1>3, <1>4 DEF Incoming, Outgoing
  <2>2. CASE hd.commands = 0
    <3>1. Goto(TASK_HD, "hd_reply") /\ hd' = hd
      BY <1>4, <2>2 DEF HdTransfer
    <3>2. pc'[TASK_HD] = "hd_reply"
      BY <1>1, <3>1 DEF Goto, TasksInv, TasksTypeOK
    <3>3. DriveInv'
      BY <2>1, <3>2 DEF DriveInv, WaitLabels
    <3> QED
      BY <1>1, <3>1, <3>3, HdTyped, HdLocalKeeps DEF HdLabels, WaitLabels, AskedSys
  <2>3. CASE hd.commands # 0
    <3>1. Goto(TASK_HD, "wait_t0") /\ hd' = [hd EXCEPT !.left = 1, !.return = "hd_command"]
      BY <1>4, <2>3 DEF HdTransfer
    <3>2. /\ hd' \in [op : {"in", "out"}, left : 0..MaxSectors, commands : 0..Tables + 1,
                      return : {"hd_command", "hd_port_write"}]
          /\ hd'.return = "hd_command" /\ hd'.left > 0 /\ hd'.commands > 0
      <4>1. hd'.left = 1 /\ hd'.return = "hd_command" /\ hd'.commands = hd.commands
        BY <3>1, HdTyped
      <4>2. hd' \in [op : {"in", "out"}, left : 0..MaxSectors, commands : 0..Tables + 1,
                      return : {"hd_command", "hd_port_write"}]
        <5>1. 1 \in 0..MaxSectors
          BY HdTyped
        <5> QED
          BY <3>1, <5>1, HdTyped, Zenon
      <4>3. hd'.left > 0 /\ hd'.commands > 0
        BY <2>3, <4>1, HdTyped
      <4> QED
        BY <4>1, <4>2, <4>3
    <3>3. pc'[TASK_HD] = "wait_t0"
      BY <1>1, <3>1 DEF Goto, TasksInv, TasksTypeOK
    <3>4. DriveInv'
      BY <2>1, <3>2, <3>3 DEF DriveInv, WaitLabels
    <3> QED
      BY <1>1, <3>1, <3>2, <3>4, HdTyped, HdLocalKeeps DEF HdLabels, WaitLabels, AskedSys
  <2> QED
    BY <2>2, <2>3
<1>5. CASE hd.left # 0 /\ hd.op = "in"
  <2>1. Goto(TASK_HD, "hd_interrupt") /\ hd' = hd
    BY <1>5 DEF HdTransfer
  <2>2. pc'[TASK_HD] = "hd_interrupt"
    BY <1>1, <2>1 DEF Goto, TasksInv, TasksTypeOK
  <2>3. Incoming'
    BY <1>1, <1>2, <1>3, <1>5, <2>1 DEF Incoming
  <2>4. DriveInv'
    BY <1>5, <2>1, <2>2, <2>3 DEF DriveInv, WaitLabels
  <2> QED
    BY <1>1, <2>1, <2>4, HdTyped, HdLocalKeeps DEF HdLabels, WaitLabels, AskedSys
<1>6. CASE hd.left # 0 /\ hd.op = "out"
  <2>1. Goto(TASK_HD, "wait_t0") /\ hd' = [hd EXCEPT !.return = "hd_port_write"]
    BY <1>6 DEF HdTransfer
  <2>2. pc'[TASK_HD] = "wait_t0"
    BY <1>1, <2>1 DEF Goto, TasksInv, TasksTypeOK
  <2>3. /\ hd' \in [op : {"in", "out"}, left : 0..MaxSectors, commands : 0..Tables + 1,
                    return : {"hd_command", "hd_port_write"}]
        /\ hd'.op = "out" /\ hd'.left = hd.left /\ hd'.return = "hd_port_write"
    BY <1>6, <2>1, HdTyped
  <2>4. Outgoing'
    BY <1>1, <1>2, <1>3, <1>6, <2>3 DEF Outgoing
  <2>5. DriveInv'
    BY <2>2, <2>3, <2>4 DEF DriveInv, WaitLabels
  <2> QED
    BY <1>1, <2>1, <2>3, <2>5, HdTyped, HdLocalKeeps DEF HdLabels, WaitLabels, AskedSys
<1> QED
  BY <1>4, <1>5, <1>6, HdTyped

LEMMA HdPortReadKeeps ==
  ASSUME TasksInv, HdPortRead, UNCHANGED <<fs, irq>>
  PROVE  ProtocolInv' /\ [Next]_vars
<1> USE DEF ProtocolInv
<1>1. /\ p_flags[TASK_HD] = {} /\ pc[TASK_HD] = "hd_port_read" /\ TASK_HD \in Procs
      /\ UNCHANGED <<vars, opened>> /\ Goto(TASK_HD, "hd_transfer")
      /\ hd' = [hd EXCEPT !.left = hd.left - 1]
  BY Cast DEF HdPortRead, At, Running
<1>2. /\ hd.op = "in" /\ Quiet /\ hd.left > 0 /\ disk.left = hd.left
      /\ disk.state = "data_in"
  BY <1>1 DEF TasksInv, DriveInv
<1>3. disk' = [state |-> IF hd.left = 1 THEN "idle" ELSE "busy_in", left |-> hd.left - 1]
  BY <1>2 DEF HdPortRead
<1>4. /\ hd' \in [op : {"in", "out"}, left : 0..MaxSectors, commands : 0..Tables + 1,
                  return : {"hd_command", "hd_port_write"}]
      /\ hd'.op = "in" /\ hd'.left = hd.left - 1
      /\ disk' \in [state : DriveState, left : 0..MaxSectors]
  BY <1>1, <1>2, <1>3, HdTyped DEF DriveState
<1>5. Quiet' /\ pc'[TASK_HD] = "hd_transfer"
  BY <1>1, <1>2 DEF Quiet, vars, procVars, Goto, TasksInv, TasksTypeOK
<1>6. DriveInv'
  <2>1. CASE hd.left = 1
    BY <1>3, <1>4, <1>5, <2>1 DEF DriveInv, WaitLabels, DriveIdle
  <2>2. CASE hd.left # 1
    BY <1>2, <1>3, <1>4, <1>5, <2>2, HdTyped DEF DriveInv, WaitLabels, Incoming
  <2> QED
    BY <2>1, <2>2
<1> QED
  BY <1>1, <1>4, <1>6, HdTyped, HdLocalKeeps DEF HdLabels, WaitLabels, AskedSys

LEMMA HdPortWriteKeeps ==
  ASSUME TasksInv, HdPortWrite, UNCHANGED <<fs, irq>>
  PROVE  ProtocolInv' /\ [Next]_vars
<1> USE DEF ProtocolInv
<1>1. /\ p_flags[TASK_HD] = {} /\ pc[TASK_HD] = "hd_port_write" /\ TASK_HD \in Procs
      /\ UNCHANGED <<vars, hd, opened>> /\ Goto(TASK_HD, "hd_interrupt")
  BY Cast DEF HdPortWrite, At, Running
<1>2. hd.op = "out" /\ Outgoing /\ disk.state = "data_out"
  BY <1>1 DEF TasksInv, DriveInv
<1>3. disk' = [disk EXCEPT !.state = "busy_out"]
  BY <1>2 DEF HdPortWrite
<1>4. /\ disk' \in [state : DriveState, left : 0..MaxSectors]
      /\ disk'.state = "busy_out" /\ disk'.left = disk.left
  BY <1>3, HdTyped DEF DriveState
<1>5. Quiet' /\ pc'[TASK_HD] = "hd_interrupt"
  BY <1>1, <1>2 DEF Outgoing, Quiet, vars, procVars, Goto, TasksInv, TasksTypeOK
<1>6. DriveInv'
  BY <1>1, <1>2, <1>4, <1>5 DEF DriveInv, WaitLabels, Outgoing, Storing
<1> QED
  BY <1>1, <1>4, <1>6, HdTyped, HdLocalKeeps DEF HdLabels, WaitLabels, AskedSys

LEMMA HdWrittenKeeps ==
  ASSUME TasksInv, HdWritten, UNCHANGED <<fs, irq>>
  PROVE  ProtocolInv' /\ [Next]_vars
<1> USE DEF ProtocolInv
<1>1. /\ p_flags[TASK_HD] = {} /\ pc[TASK_HD] = "hd_written" /\ TASK_HD \in Procs
      /\ UNCHANGED <<vars, opened, disk>> /\ Goto(TASK_HD, "hd_transfer")
      /\ hd' = [hd EXCEPT !.left = hd.left - 1]
  BY Cast DEF HdWritten, At, Running
<1>2. hd.op = "out" /\ Quiet /\ Stored
  BY <1>1 DEF TasksInv, DriveInv
<1>3. /\ hd' \in [op : {"in", "out"}, left : 0..MaxSectors, commands : 0..Tables + 1,
                  return : {"hd_command", "hd_port_write"}]
      /\ hd'.op = "out" /\ hd'.left = hd.left - 1
  BY <1>1, <1>2, HdTyped DEF Stored
<1>4. Quiet' /\ pc'[TASK_HD] = "hd_transfer"
  BY <1>1, <1>2 DEF Quiet, vars, procVars, Goto, TasksInv, TasksTypeOK
<1>5. DriveInv'
  <2>1. CASE hd.left = 1
    <3>1. disk = [state |-> "idle", left |-> 0]
      BY <1>2, <2>1, HdTyped DEF Stored
    <3> QED
      BY <1>1, <1>3, <1>4, <2>1, <3>1 DEF DriveInv, WaitLabels, DriveIdle
  <2>2. CASE hd.left # 1
    BY <1>1, <1>2, <1>3, <1>4, <2>2, HdTyped DEF DriveInv, WaitLabels, Outgoing, Stored
  <2> QED
    BY <2>1, <2>2
<1> QED
  BY <1>1, <1>3, <1>5, HdTyped, HdLocalKeeps DEF HdLabels, WaitLabels, AskedSys

\* interrupt_wait finds the interrupt noted, or waits for it.
LEMMA HdInterruptWaitKeeps ==
  ASSUME TasksInv, HdInterruptWait, UNCHANGED <<fs, irq>>
  PROVE  ProtocolInv' /\ [Next]_vars
<1> USE DEF ProtocolInv
<1>1. /\ p_flags[TASK_HD] = {} /\ pc[TASK_HD] = "hd_interrupt" /\ TASK_HD \in Procs
      /\ "int_msg" \in Bufs /\ INTERRUPT \in Procs \cup {ANY, INTERRUPT}
      /\ UNCHANGED <<hd, opened, disk>>
  BY Cast DEF HdInterruptWait, At, Running
<1>2. PICK to \in {"hd_port_read", "hd_written"} :
         /\ ReceiveThen(TASK_HD, INTERRUPT, "int_msg", to)
         /\ to = "hd_port_read" <=> hd.op = "in"
  <2>1. CASE hd.op = "in"
    BY <2>1 DEF HdInterruptWait
  <2>2. CASE hd.op # "in"
    BY <2>2 DEF HdInterruptWait
  <2> QED
    BY <2>1, <2>2
<1>3. /\ to = "hd_port_read" => hd.op = "in" /\ Incoming
      /\ to = "hd_written" => hd.op = "out" /\ Storing
  BY <1>1, <1>2 DEF TasksInv, DriveInv, WaitLabels
<1>4. HdBusy /\ ~AwaitsSys(TASK_HD)
  BY <1>1 DEF HdBusy, AwaitsSys, Awaits, AskedSys
<1>5. [Next]_vars
  BY <1>1, <1>2, ReceiveIsStep
<1>6. TasksTypeOK'
  <2>1. Goto(TASK_HD, to) /\ to \in Labels
    BY <1>2 DEF ReceiveThen, Labels
  <2>2. /\ fs' \in [src : Procs \cup {NO_TASK}, budget : 0..MaxRequests]
        /\ irq' \in BOOLEAN
    BY HdTyped DEF TasksInv, TasksTypeOK
  <2> QED
    BY <1>1, <1>5, <2>1, <2>2, HdTyped, CallKeepsTypes
<1>7. pc'[TASK_HD] = to /\ \A r \in Procs \ {TASK_HD} : pc'[r] = pc[r]
  BY <1>1, <1>2 DEF ReceiveThen, Goto, TasksInv, TasksTypeOK
<1>8. CASE has_int_msg[TASK_HD]
  <2>1. ReceivePending(TASK_HD, INTERRUPT, "int_msg")
    BY <1>2, <1>8 DEF ReceiveThen, Receive, ReceiveTakes, ReceiveFails, ReceiveBlocks,
                      PendingInterrupt
  <2>2. p_sendto[TASK_HD] = NO_TASK
    BY <1>1 DEF TasksInv, IpcInv, FieldsInv, FieldsOf
  <2>3. KernelUp'
    BY <2>1, <2>2 DEF TasksInv, KernelUp, ReceivePending, KernelAssert
  <2>4. /\ has_int_msg' = [has_int_msg EXCEPT ![TASK_HD] = FALSE]
        /\ p_msg' = [p_msg EXCEPT ![TASK_HD] = NULL]
        /\ UNCHANGED <<p_flags, p_recvfrom, p_sendto>>
        /\ DOMAIN has_int_msg = Procs /\ DOMAIN p_msg = Procs
    BY <2>1 DEF ReceivePending, TasksInv, TasksTypeOK, TypeOK
  <2>5. /\ mem' = [Stamped(TASK_HD, "int_msg") EXCEPT ![TASK_HD]["int_msg"] =
                     Stamped(TASK_HD, "int_msg")[TASK_HD][p_msg[TASK_HD]]]
        /\ mem \in [Procs -> [Bufs \cup {NULL} -> Message]]
    BY <2>1 DEF ReceivePending, TasksInv, TasksTypeOK, TypeOK
  <2>6. /\ \A r \in Procs \ {TASK_HD} : mem'[r] = mem[r]
        /\ mem'[TASK_HD]["msg"] = mem[TASK_HD]["msg"]
    BY <2>5, Cast DEF Stamped
  <2>7. \A r \in Procs \ {TASK_HD} : Untouched(r)
    BY <1>7, <2>4, <2>6 DEF Untouched
  <2>8. (\A u \in Users : UserInv(u)') /\ SysInv' /\ FsInv' /\ TtyInv' /\ AwaitsHd'
    BY <1>4, <2>7, OthersKeep
  <2>9. p_flags'[TASK_HD] = {}
    BY <1>1, <2>4
  <2>10. HdInv'
    BY <1>1, <1>4, <1>7, <2>6, <2>8, <2>9, HdServes DEF HdLabels, WaitLabels, AskedSys
  <2>11. Quiet'
    BY <1>1, <1>2, <1>3, <1>8, <2>4 DEF Quiet, Incoming, Storing, Raised
  <2>12. DriveInv'
    <3>1. CASE to = "hd_port_read"
      BY <1>1, <1>3, <1>7, <1>8, <2>9, <2>11, <3>1 DEF DriveInv, WaitLabels, Incoming, Quiet
    <3>2. CASE to = "hd_written"
      BY <1>1, <1>3, <1>7, <1>8, <2>9, <2>11, <3>2 DEF DriveInv, WaitLabels, Storing, Stored, Quiet
    <3> QED
      BY <3>1, <3>2
  <2> QED
    BY <1>5, <1>6, <2>3, <2>8, <2>10, <2>12
<1>9. CASE ~has_int_msg[TASK_HD]
  <2>1. Receives(TASK_HD, INTERRUPT, "int_msg", to)
    BY <1>1, <1>2, <1>9, ReceiveEffect
  <2>2. /\ Waits(TASK_HD, INTERRUPT, "int_msg") /\ StaysUp /\ has_int_msg' = has_int_msg
        /\ mem'[TASK_HD]["msg"] = mem[TASK_HD]["msg"]
    BY <2>1, Cast DEF Receives, Takes, Moves
  <2>3. /\ \A r \in Procs \ {TASK_HD} : Untouched(r)
        /\ p_flags'[TASK_HD] = {RECEIVING} /\ p_recvfrom'[TASK_HD] = INTERRUPT
        /\ p_msg'[TASK_HD] = "int_msg"
    BY <2>2 DEF Waits
  <2>4. (\A u \in Users : UserInv(u)') /\ SysInv' /\ FsInv' /\ TtyInv' /\ AwaitsHd'
    BY <1>4, <2>3, OthersKeep
  <2>5. \E x \in HdRequests : mem'[TASK_HD]["msg"] = Sent(TASK_FS, x)
    BY <1>1, <1>4, <2>2 DEF TasksInv, HdInv
  <2>6. HdInv'
    BY <1>7, <2>3, <2>4, <2>5 DEF HdInv, HdLabels, WaitLabels, AskedSys, InReceive
  <2>7. /\ Incoming' <=> Incoming
        /\ Storing' <=> Storing
    BY <1>1, <2>2 DEF Incoming, Storing, Stored, Quiet, Raised
  <2>8. DriveInv'
    BY <1>1, <1>3, <1>7, <1>9, <2>2, <2>3, <2>7 DEF DriveInv, WaitLabels
  <2> QED
    BY <1>5, <1>6, <2>2, <2>4, <2>6, <2>8 DEF KernelUp, StaysUp
<1> QED
  BY <1>8, <1>9

LEMMA HdKeeps ==
  ASSUME TasksInv, Hd
  PROVE  ProtocolInv' /\ [Next]_vars
<1>1. CASE WaitforTime
  <2>1. UNCHANGED <<hd, opened, fs, disk, irq>>
    BY <1>1 DEF Hd, WaitforTime
  <2>2. CASE \/ AskTime("wait_t0", "wait_t0_answer")
             \/ AskTime("wait_poll", "wait_poll_answer")
    BY <2>1, <2>2, AskTimeKeeps DEF AskedSys
  <2>3. CASE \/ TakeTime("wait_t0_answer", "wait_poll")
             \/ TakeTime("wait_poll_answer", "wait_test")
    BY <2>1, <2>3, TakeTimeKeeps DEF AskedSys
  <2> QED
    BY <1>1, <2>2, <2>3 DEF WaitforTime
<1> QED
  BY <1>1, HdReceiveKeeps, HdDispatchKeeps, WaitforTestKeeps, WaitforTimeoutKeeps,
     HdCommandKeeps, HdTransferKeeps, HdInterruptWaitKeeps, HdPortReadKeeps, HdPortWriteKeeps,
     HdWrittenKeeps, HdReplyKeeps DEF Hd

-----------------------------------------------------------------------------
(* The drive and its interrupt.                                            *)

\* A step of the drive touches no process.
LEMMA HardwareKeeps ==
  ASSUME TasksInv, UNCHANGED <<pc, p_flags, p_msg, p_recvfrom, p_sendto, mem, fs>>, DriveInv'
  PROVE  /\ \A u \in Users : UserInv(u)'
         /\ SysInv' /\ HdInv' /\ FsInv' /\ TtyInv' /\ DriveInv'
<1> USE DEF ProtocolInv
<1>1. \A r : Untouched(r)
  BY DEF Untouched
<1>2. /\ \A v \in Users : UserInv(v)' /\ (AwaitsFs(v) => AwaitsFs(v)')
      /\ \A c \in SysClients : AwaitsSys(c) => AwaitsSys(c)'
  BY <1>1, UserFrame, AwaitsFrame, Cast DEF TasksInv, SysClients
<1> QED
  BY <1>1, <1>2, SysFrame, TtyFrame, FsFrame, HdFrame, AwaitsHdFrame DEF TasksInv

LEMMA DriveReadyKeeps ==
  ASSUME TasksInv, DriveReady
  PROVE  ProtocolInv' /\ [Next]_vars
<1> USE DEF ProtocolInv
<1>1. /\ UNCHANGED <<pc, p_flags, p_msg, p_recvfrom, p_sendto, mem, fs, hd, opened>>
      /\ UNCHANGED vars /\ has_int_msg' = has_int_msg
  BY DEF DriveReady, vars, procVars
<1>2. /\ disk' \in [state : DriveState, left : 0..MaxSectors] /\ irq' \in BOOLEAN
      /\ TasksTypeOK' /\ KernelUp' /\ [Next]_vars
  <2>1. disk.state \in {"busy_out"} => disk.left > 0
    BY HdTyped DEF TasksInv, HdInv, DriveInv, DriveIdle, Incoming, Outgoing, Storing, Stored, HdLabels
  <2>2. disk' \in [state : DriveState, left : 0..MaxSectors] /\ irq' \in BOOLEAN
    <3>1. irq' \in BOOLEAN
      BY HdTyped DEF DriveReady
    <3>2. CASE disk.state = "busy_out"
      <4>1. disk.left - 1 \in 0..MaxSectors
        BY <2>1, <3>2, HdTyped
      <4> QED
        BY <3>1, <3>2, <4>1, HdTyped DEF DriveReady, DriveState
    <3>3. CASE disk.state # "busy_out"
      BY <3>1, <3>3, HdTyped DEF DriveReady, DriveState
    <3> QED
      BY <3>2, <3>3
  <2>3. [Next]_vars /\ TypeOK'
    BY <1>1, IpcInvKept DEF TasksInv, IpcInv
  <2> QED
    BY <1>1, <2>2, <2>3 DEF TasksInv, TasksTypeOK, KernelUp, vars
<1>3. DriveInv'
  <2>1. CASE disk.state = "busy_in"
    <3>1. disk'.state = "data_in" /\ disk'.left = disk.left /\ irq' = TRUE
      BY <2>1, HdTyped DEF DriveReady
    <3>2. ~DriveIdle /\ ~Outgoing /\ ~Storing /\ ~Stored
      BY <2>1, HdTyped DEF DriveIdle, Outgoing, Storing, Stored
    <3>3. Incoming => Incoming' /\ (~has_int_msg[TASK_HD])
      BY <1>1, <2>1, <3>1 DEF Incoming, Quiet, Raised
    <3> QED
      BY <1>1, <2>1, <3>2, <3>3 DEF TasksInv, DriveInv, HdInv, HdLabels, WaitLabels
  <2>2. CASE disk.state = "busy_first"
    <3>1. disk'.state = "data_out" /\ disk'.left = disk.left /\ irq' = irq
      BY <2>2, HdTyped DEF DriveReady
    <3>2. ~DriveIdle /\ ~Incoming /\ ~Storing /\ ~Stored
      BY <2>2, HdTyped DEF DriveIdle, Incoming, Storing, Stored
    <3>3. Outgoing => Outgoing'
      BY <1>1, <2>2, <3>1 DEF Outgoing, Quiet
    <3> QED
      BY <1>1, <2>2, <3>2, <3>3 DEF TasksInv, DriveInv, HdInv, HdLabels, WaitLabels
  <2>3. CASE disk.state = "busy_out"
    <3>1. /\ disk' = [state |-> IF disk.left = 1 THEN "idle" ELSE "data_out",
                      left |-> disk.left - 1]
          /\ irq' = TRUE
      BY <2>3 DEF DriveReady
    <3>2. ~DriveIdle /\ ~Incoming /\ ~Outgoing /\ ~Stored
      BY <2>3, HdTyped DEF DriveIdle, Incoming, Outgoing, Stored
    <3>3. Storing => Storing' /\ (~has_int_msg[TASK_HD])
      BY <1>1, <2>3, <3>1 DEF Storing, Stored, Quiet, Raised
    <3> QED
      BY <1>1, <2>3, <3>2, <3>3 DEF TasksInv, DriveInv, HdInv, HdLabels, WaitLabels
  <2> QED
    BY <2>1, <2>2, <2>3 DEF DriveReady
<1> QED
  BY <1>1, <1>2, <1>3, HardwareKeeps

\* The interrupt wakes TASK_HD in interrupt_wait, or is noted for it.
LEMMA HandlerKeeps ==
  ASSUME TasksInv, hd_handler
  PROVE  ProtocolInv' /\ [Next]_vars
<1> USE DEF ProtocolInv
<1>1. /\ irq /\ irq' = FALSE /\ UNCHANGED <<pc, hd, opened, fs, disk>>
      /\ sys_sendint(TASK_HD) /\ TASK_HD \in Procs /\ TASK_HD \in IntTasks
  BY Cast DEF hd_handler
<1>2. [Next]_vars
  BY <1>1 DEF Next
<1>3. TasksTypeOK'
  BY <1>1, <1>2, IpcInvKept DEF TasksInv, IpcInv, TasksTypeOK
<1>4. /\ ~Quiet /\ ~has_int_msg[TASK_HD] /\ Raised /\ ~DriveIdle /\ ~Outgoing
  <2>1. ~Quiet
    BY <1>1 DEF Quiet
  <2>2. ~DriveIdle /\ ~Outgoing
    BY <2>1 DEF DriveIdle, Outgoing
  <2>3. Incoming \/ Storing
    BY <2>1, <2>2 DEF TasksInv, DriveInv, HdInv, HdLabels, WaitLabels
  <2> QED
    BY <1>1, <2>1, <2>2, <2>3 DEF Incoming, Storing, Raised
<1>5. CASE SendintDelivers(TASK_HD)
  <2>1. p_flags[TASK_HD] = {RECEIVING} /\ p_recvfrom[TASK_HD] \in {INTERRUPT, ANY}
    BY <1>1, <1>5, Flags DEF SendintDelivers, WaitsForInterrupt
  <2>2. /\ pc[TASK_HD] \in {"hd_port_read", "hd_written"} /\ p_msg[TASK_HD] = "int_msg"
        /\ p_recvfrom[TASK_HD] = INTERRUPT /\ p_sendto[TASK_HD] = NO_TASK
    BY <1>1, <1>4, <2>1, Cast
       DEF TasksInv, HdInv, DriveInv, InReceive, IpcInv, FieldsInv, FieldsOf
  <2>3. /\ has_int_msg' = [has_int_msg EXCEPT ![TASK_HD] = FALSE]
        /\ p_flags' = [p_flags EXCEPT ![TASK_HD] = @ \ {RECEIVING}]
        /\ p_recvfrom' = [p_recvfrom EXCEPT ![TASK_HD] = NO_TASK]
        /\ UNCHANGED <<p_msg, p_sendto>>
        /\ DOMAIN p_flags = Procs /\ DOMAIN p_recvfrom = Procs /\ DOMAIN has_int_msg = Procs
    BY <1>5 DEF SendintDelivers, TasksInv, TasksTypeOK, TypeOK
  <2>4. /\ mem' = [mem EXCEPT ![TASK_HD]["int_msg"] =
                     [source |-> INTERRUPT, type |-> HARD_INT]]
        /\ mem \in [Procs -> [Bufs \cup {NULL} -> Message]]
    BY <1>5, <2>2 DEF SendintDelivers, TasksInv, TasksTypeOK, TypeOK
  <2>5. KernelUp'
    BY <1>5, <2>1, <2>2 DEF SendintDelivers, KernelAssert, TasksInv, KernelUp
  <2>6. \A r \in Procs \ {TASK_HD} : Untouched(r)
    BY <1>1, <2>3, <2>4 DEF Untouched
  <2>7. p_flags'[TASK_HD] = {} /\ ~has_int_msg'[TASK_HD]
    BY <1>1, <2>1, <2>3
  <2>8. mem'[TASK_HD]["msg"] = mem[TASK_HD]["msg"]
    BY <2>4, Cast
  <2>9. HdBusy /\ ~AwaitsSys(TASK_HD)
    BY <2>1, <2>2, Cast DEF HdBusy, AwaitsSys, Awaits
  <2>10. (\A u \in Users : UserInv(u)') /\ SysInv' /\ FsInv' /\ TtyInv' /\ AwaitsHd'
    BY <1>1, <2>6, <2>9, OthersKeep
  <2>11. HdInv'
    BY <1>1, <2>2, <2>7, <2>8, <2>9, <2>10, HdServes DEF HdLabels, WaitLabels, AskedSys
  <2>12. Quiet'
    BY <1>1, <2>7 DEF Quiet
  <2>13. DriveInv'
    <3>1. CASE pc[TASK_HD] = "hd_port_read"
      <4>1. hd.op = "in" /\ Incoming
        BY <2>1, <3>1 DEF TasksInv, DriveInv
      <4> QED
        BY <1>1, <1>4, <2>7, <2>12, <3>1, <4>1 DEF DriveInv, WaitLabels, Incoming
    <3>2. CASE pc[TASK_HD] = "hd_written"
      <4>1. hd.op = "out" /\ Storing
        BY <2>1, <3>2 DEF TasksInv, DriveInv
      <4> QED
        BY <1>1, <1>4, <2>7, <2>12, <3>2, <4>1 DEF DriveInv, WaitLabels, Storing, Stored
    <3> QED
      BY <2>2, <3>1, <3>2
  <2> QED
    BY <1>2, <1>3, <2>5, <2>10, <2>11, <2>13
<1>6. CASE SendintMarks(TASK_HD)
  <2>1. /\ UNCHANGED <<pc, p_flags, p_msg, p_recvfrom, p_sendto, mem, fs>>
        /\ kernel' = kernel /\ reported' = reported /\ has_int_msg'[TASK_HD]
        /\ ~WaitsForInterrupt(TASK_HD)
    BY <1>1, <1>6 DEF SendintMarks, TasksInv, TasksTypeOK, TypeOK
  <2>2. Raised'
    BY <1>1, <2>1 DEF Raised
  <2>3. /\ Incoming => Incoming'
        /\ Storing => Storing'
    BY <1>1, <1>4, <2>2 DEF Incoming, Storing, Stored
  <2>4. p_flags[TASK_HD] = {RECEIVING} => pc[TASK_HD] \notin {"hd_port_read", "hd_written"}
    BY <2>1, Cast DEF TasksInv, HdInv, InReceive, WaitsForInterrupt
  <2>5. DriveInv'
    BY <1>1, <1>4, <2>1, <2>3, <2>4 DEF TasksInv, DriveInv, HdInv, WaitLabels
  <2> QED
    BY <1>2, <1>3, <2>1, <2>5, HardwareKeeps DEF TasksInv, KernelUp
<1> QED
  BY <1>1, <1>5, <1>6 DEF sys_sendint

-----------------------------------------------------------------------------
(* Every step.                                                             *)

LEMMA FsKeeps ==
  ASSUME TasksInv, Fs
  PROVE  ProtocolInv' /\ [Next]_vars
<1> USE DEF ProtocolInv
<1>1. /\ UNCHANGED <<hd, opened, disk, irq>>
      /\ fs \in [src : Procs \cup {NO_TASK}, budget : 0..MaxRequests] /\ MaxRequests \in Nat
  BY TasksAssumption DEF Fs, TasksInv, TasksTypeOK
<1>2. CASE FsInit
  <2>1. fs' = fs /\ UNCHANGED <<hd, opened, fs, disk, irq>>
    BY <1>1, <1>2 DEF FsInit
  <2>2. CASE \/ CallHd("fs_open", Says("DEV_OPEN", TASK_FS, 0), "fs_open_answer")
             \/ CallHd("fs_geo", Says("DEV_IOCTL", TASK_FS, 0), "fs_geo_answer")
    <3>1. /\ Says("DEV_OPEN", TASK_FS, 0) \in HdRequests
          /\ Says("DEV_IOCTL", TASK_FS, 0) \in HdRequests
      BY DEF HdRequests
    <3> QED
      BY <1>1, <2>1, <2>2, <3>1, CallHdKeeps DEF AskedHd
  <2>3. CASE HdAnswer("fs_open_answer", "fs_geo") \/ HdAnswer("fs_geo_answer", "fs_work")
    BY <2>1, <2>3, HdAnswerKeeps DEF AskedHd
  <2> QED
    BY <1>2, <2>2, <2>3 DEF FsInit
<1>3. CASE FsDriver
  <2>1. ASSUME NEW k \in {"DEV_READ", "DEV_WRITE"}, NEW n \in 1..MaxSectors, fs.budget > 0,
               CallHd("fs_work", Says(k, TASK_FS, n), "fs_driver_answer"),
               fs' = [fs EXCEPT !.budget = @ - 1]
        PROVE  ProtocolInv' /\ [Next]_vars
    <3>1. Says(k, TASK_FS, n) \in HdRequests
      BY DEF HdRequests
    <3>2. fs.budget - 1 \in 0..MaxRequests
      BY <1>1, <2>1
    <3>3. fs'.src = fs.src /\ fs' \in [src : Procs \cup {NO_TASK}, budget : 0..MaxRequests]
      BY <1>1, <2>1, <3>2
    <3> QED
      BY <1>1, <2>1, <3>1, <3>3, CallHdKeeps DEF AskedHd
  <2>2. CASE HdAnswer("fs_driver_answer", "fs_work") /\ fs' = fs
    BY <1>1, <2>2, HdAnswerKeeps DEF AskedHd
  <2> QED
    BY <1>3, <2>1, <2>2 DEF FsDriver
<1>4. CASE FsPanic
  <2>1. /\ p_flags[TASK_FS] = {} /\ pc[TASK_FS] = "fs_work" /\ Goto(TASK_FS, "fs_panic")
        /\ UNCHANGED vars /\ fs' = fs
    BY <1>4 DEF FsPanic, At, Running
  <2> QED
    BY <1>1, <2>1, FsLocalKeeps DEF AskedHd
<1> QED
  BY <1>1, <1>2, <1>3, <1>4, FsReceiveKeeps, FsDispatchKeeps, FsTtyKeeps, FsReplyKeeps DEF Fs

LEMMA StutterKeeps ==
  ASSUME TasksInv, UNCHANGED allVars
  PROVE  ProtocolInv' /\ [Next]_vars
<1> USE DEF ProtocolInv
<1>1. /\ UNCHANGED vars /\ UNCHANGED taskVars
  BY DEF allVars
<1>2. /\ UNCHANGED <<pc, p_flags, p_msg, p_recvfrom, p_sendto, mem, hd, opened, fs, disk, irq>>
      /\ has_int_msg' = has_int_msg
  BY <1>1 DEF vars, procVars, taskVars
<1>3. DriveInv'
  BY <1>2, DriveFrame DEF TasksInv
<1>4. TasksTypeOK' /\ KernelUp'
  BY <1>1, <1>2, IpcInvKept DEF TasksInv, IpcInv, TasksTypeOK, KernelUp, vars
<1> QED
  BY <1>1, <1>2, <1>3, <1>4, HardwareKeeps

\* A step of the processes is a call of the kernel, or none, and keeps the
\* invariant.
LEMMA TasksStep == TasksInv /\ [TasksNext]_allVars => TasksInv' /\ [Next]_vars
<1> SUFFICES ASSUME TasksInv, [TasksNext]_allVars PROVE TasksInv' /\ [Next]_vars
  OBVIOUS
<1>1. ProtocolInv' /\ [Next]_vars
  <2>1. ASSUME NEW u \in Users, Asks(u) \/ Continues(u)
        PROVE  ProtocolInv' /\ [Next]_vars
    BY <2>1, AskFsKeeps, AskTicksKeeps, FsAnswerKeeps, FsReturnKeeps, TickAnswerKeeps
       DEF Asks, Continues
  <2>2. CASE Sys
    BY <2>2, SysReceiveKeeps, SysReplyKeeps DEF Sys
  <2> QED
    BY <2>1, <2>2, HdKeeps, FsKeeps, DriveReadyKeeps, HandlerKeeps, StutterKeeps DEF TasksNext
<1>2. IpcInv'
  BY <1>1, IpcInvKept DEF TasksInv
<1> QED
  BY <1>1, <1>2 DEF TasksInv

LEMMA TasksBegin == TasksInit => TasksInv
<1> SUFFICES ASSUME TasksInit PROVE TasksInv
  OBVIOUS
<1>1. Init /\ IpcInv /\ TypeOK
  BY InitTyped, InitEstablishesInv DEF TasksInit
<1>2. \A p \in Procs : p_flags[p] = {} /\ p_msg[p] = NULL /\ ~has_int_msg[p]
  BY <1>1 DEF Init
<1>3. /\ \A u \in Users : pc[u] = "run"
      /\ pc[TASK_SYS] = "sys_receive" /\ pc[TASK_HD] = "hd_receive"
      /\ pc[TASK_FS] = "fs_open" /\ pc[TASK_TTY] = "tty"
      /\ pc \in [Procs -> Labels]
  BY Cast DEF TasksInit, Labels
<1>4. TasksTypeOK /\ KernelUp
  <2>1. 0 \in 0..MaxSectors /\ 0 \in 0..Tables + 1 /\ MaxRequests \in 0..MaxRequests
    BY TasksAssumption
  <2> QED
    BY <1>1, <1>3, <2>1 DEF TasksInit, Init, TasksTypeOK, KernelUp, DriveState
<1>5. \A u \in Users : UserInv(u)
  BY <1>2, <1>3, Cast DEF UserInv
<1>6. SysInv /\ TtyInv /\ FsInv /\ HdInv
  <2>1. TASK_SYS \in Procs /\ TASK_HD \in Procs /\ TASK_FS \in Procs /\ TASK_TTY \in Procs
    BY Cast
  <2>2. SysInv /\ TtyInv
    BY <1>2, <1>3, <2>1 DEF SysInv, TtyInv
  <2>3. FsInv
    BY <1>2, <1>3, <2>1 DEF FsInv, AskedHd, TasksInit
  <2>4. HdInv
    BY <1>2, <1>3, <2>1 DEF HdInv, HdLabels, HdBusy
  <2> QED
    BY <2>2, <2>3, <2>4
<1>7. DriveInv
  BY <1>2, <1>3, Cast DEF DriveInv, DriveIdle, Quiet, WaitLabels, TasksInit
<1> QED
  BY <1>1, <1>4, <1>5, <1>6, <1>7 DEF TasksInv, ProtocolInv

-----------------------------------------------------------------------------
(* The theorems.                                                           *)

\* The state of every process agrees with that of the process it talks to, and
\* TASK_HD's with that of the drive, whatever the users ask for and however the
\* processes, the drive and its interrupts are interleaved.
THEOREM TasksCorrect == TasksSpec => []TasksInv
BY TasksBegin, TasksStep, PTL DEF TasksSpec

\* The variables of Tasks keep their types.
THEOREM TasksTypeCorrect == TasksSpec => []TasksTypeOK
BY TasksCorrect, PTL DEF TasksInv, ProtocolInv

\* The processes use the kernel by its rules: what they do is a behaviour of
\* Ipc, so that every theorem about Ipc holds of the whole system.
THEOREM CallersKeepTheRules == TasksSpec => Spec
<1>1. TasksInit => Init
  BY DEF TasksInit
<1> QED
  BY <1>1, TasksCorrect, TasksStep, PTL DEF TasksSpec, Spec

\* With these processes no message stops the machine: no assertion of msg_send
\* and msg_receive fails, no deadlock is reported, and TASK_SYS and TASK_HD get
\* no message whose type they panic at.  Ipc alone promises none of this to
\* callers in general.  A time-out of waitfor and a failed check of TASK_FS are
\* steps of TasksSpec, and do stop it.
THEOREM MessagesNeverStop == TasksSpec => []NoMessageStops
<1>1. TasksInv => NoMessageStops
  BY DEF TasksInv, ProtocolInv, KernelUp, SysInv, HdInv, HdLabels, WaitLabels, NoMessageStops
<1> QED
  BY <1>1, TasksCorrect, PTL

\* No processes are ever blocked sending to each other in a ring.
THEOREM NoRingOfSenders == TasksSpec => []~SendCycle
<1>1. TasksInv => ~SendCycle
  BY DEF TasksInv, IpcInv, ProtocolInv, KernelUp, DeadlockReported
<1> QED
  BY <1>1, TasksCorrect, PTL

\* An interrupt of the drive is raised, and noted by sendint, only for the
\* interrupt_wait that TASK_HD is in or makes next: none is lost or doubled.
THEOREM InterruptsAlwaysAwaited == TasksSpec => []InterruptsAwaited
<1>1. TasksInv => InterruptsAwaited
  <2> SUFFICES ASSUME TasksInv PROVE InterruptsAwaited
    OBVIOUS
  <2> USE DEF ProtocolInv
  <2>1. ~Quiet => Incoming \/ Storing
    BY DEF TasksInv, DriveInv, HdInv, HdLabels, WaitLabels, DriveIdle, Outgoing
  <2>2. Incoming \/ Storing => Quiet \/ Raised
    BY DEF Incoming, Storing
  <2>3. /\ has_int_msg[TASK_HD] => ~Quiet /\ ~DriveIdle /\ ~Outgoing /\ ~irq
        /\ irq => ~Quiet /\ ~DriveIdle /\ ~Outgoing
    BY <2>1, <2>2 DEF Quiet, Raised, DriveIdle, Outgoing
  <2>4. ASSUME has_int_msg[TASK_HD]
        PROVE  Running(TASK_HD) /\ InterruptWaitNext
    <3>1. \/ pc[TASK_HD] = "hd_interrupt"
          \/ pc[TASK_HD] = "hd_transfer" /\ hd.op = "in" /\ hd.left > 0
      BY <2>3, <2>4 DEF TasksInv, DriveInv, HdInv, HdLabels, WaitLabels, Incoming
    <3>2. p_flags[TASK_HD] = {}
      BY <3>1, Flags, Cast DEF TasksInv, HdInv, AskedSys
    <3> QED
      BY <3>1, <3>2 DEF Running, InterruptWaitNext, TasksInv, KernelUp
  <2>5. ASSUME irq
        PROVE  \/ Running(TASK_HD) /\ InterruptWaitNext
               \/ p_flags[TASK_HD] = {RECEIVING} /\ p_recvfrom[TASK_HD] = INTERRUPT
    <3>1. \/ pc[TASK_HD] = "hd_interrupt"
          \/ pc[TASK_HD] = "hd_transfer" /\ hd.op = "in" /\ hd.left > 0
          \/ pc[TASK_HD] \in {"hd_port_read", "hd_written"} /\ p_flags[TASK_HD] = {RECEIVING}
      BY <2>3, <2>5 DEF TasksInv, DriveInv, HdInv, HdLabels, WaitLabels, Incoming
    <3>2. CASE pc[TASK_HD] \in {"hd_port_read", "hd_written"} /\ p_flags[TASK_HD] = {RECEIVING}
      BY <3>2 DEF TasksInv, HdInv, InReceive
    <3>3. CASE InterruptWaitNext
      <4>1. p_flags[TASK_HD] = {}
        BY <3>3, Flags, Cast DEF TasksInv, HdInv, AskedSys, InterruptWaitNext
      <4> QED
        BY <3>3, <4>1 DEF Running, TasksInv, KernelUp
    <3> QED
      BY <3>1, <3>2, <3>3 DEF InterruptWaitNext
  <2> QED
    BY <2>3, <2>4, <2>5 DEF InterruptsAwaited
<1> QED
  BY <1>1, TasksCorrect, PTL

\* TASK_HD moves data only when the drive has a sector to move, commands only
\* an idle drive, and answers when all the sectors of the request are moved.
THEOREM DriveProtocolKept == TasksSpec => []DriveProtocol
<1>1. TasksInv => DriveProtocol
  BY DEF TasksInv, ProtocolInv, DriveInv, DriveIdle, DriveProtocol, At, Running
<1> QED
  BY <1>1, TasksCorrect, PTL

\* A user that goes on after a call of the file system has the answer to its
\* own request, and no other message.
THEOREM AnswersAreOwn == TasksSpec => []OwnAnswer
<1>1. TasksInv => OwnAnswer
  BY DEF TasksInv, ProtocolInv, UserInv, OwnAnswer, At, Running, Sent
<1> QED
  BY <1>1, TasksCorrect, PTL
=============================================================================
