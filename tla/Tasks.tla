------------------------------- MODULE Tasks -------------------------------
(***************************************************************************)
(* The processes of the system as they use the message passing of Ipc:     *)
(* user processes (kernel/api.c), TASK_SYS (kernel/systask.c), TASK_HD     *)
(* (kernel/hd.c), TASK_FS (fs/fs.c) and the disk.                          *)
(*                                                                         *)
(* pc[p] is the statement p runs next.  A call that blocks has moved pc    *)
(* past itself: p goes on when its p_flags is 0 again.  What the tasks     *)
(* compute between two calls is left out; where a check of theirs may fail *)
(* there, they may panic.  How long anything takes is left open: at any    *)
(* poll of waitfor its time may be up.  Left out too is the memset with    *)
(* which send_recv clears a buffer before a RECEIVE: nobody reads it until *)
(* the message is there.                                                   *)
(*                                                                         *)
(* A panic of a task halts the machine (sys_printx): the task stays at a   *)
(* label of Panics, and nothing but the drive moves any more.  kernel is   *)
(* the state of the machine as far as the calls themselves stop it.        *)
(***************************************************************************)
EXTENDS Ipc, Naturals

CONSTANTS
    Users,          \* the processes of the users
    TASK_TTY, TASK_SYS, TASK_HD, TASK_FS,
    MaxSectors,     \* bound: sectors of one request to the disk
    MaxRequests,    \* bound: disk requests of one file operation
    Tables,         \* partition tables that the first open of the disk reads
    OpensTty        \* whether file operations may open a character device

\* A message: its type, the process it is about, its length in sectors.
Says(k, of, n) == [k |-> k, of |-> of, n |-> n]

ASSUME TasksAssumption ==
    /\ {TASK_TTY, TASK_SYS, TASK_HD, TASK_FS} = Tasks
    /\ TASK_TTY \notin {TASK_SYS, TASK_HD, TASK_FS}
    /\ TASK_SYS \notin {TASK_HD, TASK_FS} /\ TASK_HD # TASK_FS
    /\ Procs = Users \cup Tasks /\ Users \cap Tasks = {}
    /\ IntTasks = {TASK_HD}
    /\ Bufs = {"msg", "driver_msg", "tick_msg", "int_msg"}
    /\ HARD_INT.k = "DEV_OPEN"      \* both are 1 (ipc.h, message.h)
    /\ MaxSectors \in Nat \ {0} /\ MaxRequests \in Nat /\ Tables \in Nat \ {0}
    /\ OpensTty \in BOOLEAN

\* Types has whatever the processes below say.
ASSUME TypesAssumption ==
    /\ \A u \in Users, k \in {"OPEN", "SYSCALL_RET", "GET_TICKS"} : Says(k, u, 0) \in Types
    /\ Says("GET_TICKS", TASK_HD, 0) \in Types
    /\ \A k \in {"DEV_OPEN", "DEV_IOCTL"} : Says(k, TASK_FS, 0) \in Types
    /\ \A k \in {"DEV_READ", "DEV_WRITE"}, n \in 1..MaxSectors : Says(k, TASK_FS, n) \in Types

VARIABLES
    pc,     \* pc[p]: the statement p runs next
    hd,     \* the command TASK_HD is in: its kind, the sectors left of it,
            \* the commands left of the request, where waitfor returns to
    opened, \* hd_info[0].open_cnt > 0
    fs,     \* the request TASK_FS is in: its source, disk requests left
    disk,   \* the drive: its state and the sectors left of its command
    irq     \* the drive asserts its interrupt line

taskVars == <<pc, hd, opened, fs, disk, irq>>
allVars == <<vars, taskVars>>

DriveState == {"idle", "busy_in", "data_in", "busy_first", "data_out", "busy_out"}
Busy == disk.state \in {"busy_in", "busy_first", "busy_out"}

\* The statements of the processes: kernel/api.c, systask.c, hd.c, fs/fs.c.
Labels == {"run", "fs_answer", "fs_return", "tick_answer", "sys_receive", "sys_reply",
           "hd_receive", "hd_dispatch", "wait_t0", "wait_t0_answer", "wait_poll",
           "wait_poll_answer", "wait_test", "hd_command", "hd_transfer", "hd_interrupt",
           "hd_port_read", "hd_port_write", "hd_written", "hd_reply",
           "fs_open", "fs_open_answer", "fs_geo", "fs_geo_answer", "fs_receive",
           "fs_dispatch", "fs_work", "fs_driver_answer", "fs_tty_answer", "tty",
           "sys_panic", "hd_panic", "hd_error", "fs_panic"}

\* The panics: a message of unknown type (systask.c, hd.c), a time-out of
\* waitfor, a failed check of TASK_FS.  Each halts the machine.
Panics == {"sys_panic", "hd_panic", "hd_error", "fs_panic"}
Stopped == \E t \in {TASK_SYS, TASK_HD, TASK_FS} : pc[t] \in Panics

TasksTypeOK ==
    /\ TypeOK
    /\ pc \in [Procs -> Labels]
    /\ hd \in [op : {"in", "out"}, left : 0..MaxSectors, commands : 0..Tables + 1,
               return : {"hd_command", "hd_port_write"}]
    /\ opened \in BOOLEAN
    /\ fs \in [src : Procs \cup {NO_TASK}, budget : 0..MaxRequests]
    /\ disk \in [state : DriveState, left : 0..MaxSectors]
    /\ irq \in BOOLEAN

TasksInit ==
    /\ Init
    /\ pc = [p \in Procs |-> CASE p \in Users -> "run"
                               [] p = TASK_SYS -> "sys_receive"
                               [] p = TASK_HD -> "hd_receive"
                               [] p = TASK_FS -> "fs_open"
                               [] OTHER -> "tty"]
    /\ hd = [op |-> "in", left |-> 0, commands |-> 0, return |-> "hd_command"]
    /\ opened = FALSE
    /\ fs = [src |-> NO_TASK, budget |-> MaxRequests]
    /\ disk = [state |-> "idle", left |-> 0]
    /\ irq = FALSE

-----------------------------------------------------------------------------
At(p, label) == Running(p) /\ ~Stopped /\ pc[p] = label
Goto(p, label) == pc' = [pc EXCEPT ![p] = label]

\* The two halves of send_recv; BOTH is one after the other.
SendThen(p, d, b, x, label) == Send(p, d, b, x) /\ Goto(p, label)
ReceiveThen(p, src, b, label) == Receive(p, src, b) /\ Goto(p, label)

Type(p, b) == mem[p][b].type
Source(p, b) == mem[p][b].source

-----------------------------------------------------------------------------
(* A user process: api.c.                                                  *)

\* open, close, file_read, file_write and unlink are alike here.
AskFs(u) == At(u, "run") /\ SendThen(u, TASK_FS, "msg", Says("OPEN", u, 0), "fs_answer")
FsAnswer(u) == At(u, "fs_answer") /\ ReceiveThen(u, TASK_FS, "msg", "fs_return")
FsReturn(u) == At(u, "fs_return") /\ Goto(u, "run") /\ UNCHANGED vars

AskTicks(u) == At(u, "run") /\ SendThen(u, TASK_SYS, "tick_msg", Says("GET_TICKS", u, 0), "tick_answer")
TickAnswer(u) == At(u, "tick_answer") /\ ReceiveThen(u, TASK_SYS, "tick_msg", "run")

Asks(u) == (AskFs(u) \/ AskTicks(u)) /\ UNCHANGED <<hd, opened, fs, disk, irq>>
Continues(u) == (FsAnswer(u) \/ FsReturn(u) \/ TickAnswer(u)) /\ UNCHANGED <<hd, opened, fs, disk, irq>>

-----------------------------------------------------------------------------
(* task_sys.                                                               *)

SysReceive == At(TASK_SYS, "sys_receive") /\ ReceiveThen(TASK_SYS, ANY, "msg", "sys_reply")

\* Another type is a panic.
SysReply ==
    /\ At(TASK_SYS, "sys_reply")
    /\ IF Type(TASK_SYS, "msg").k = "GET_TICKS"
       THEN SendThen(TASK_SYS, Source(TASK_SYS, "msg"), "msg", Type(TASK_SYS, "msg"), "sys_receive")
       ELSE Goto(TASK_SYS, "sys_panic") /\ UNCHANGED vars

Sys == (SysReceive \/ SysReply) /\ UNCHANGED <<hd, opened, fs, disk, irq>>

-----------------------------------------------------------------------------
(* task_hd.                                                                *)

HdReceive == At(TASK_HD, "hd_receive") /\ ReceiveThen(TASK_HD, ANY, "msg", "hd_dispatch")
             /\ UNCHANGED <<hd, opened, disk>>

\* hd_open identifies the drive and, the first time, reads its partition
\* tables, one sector each; hd_rdwt is one command; hd_ioctl needs the drive
\* no more.  Another type is a panic.
HdDispatch ==
    LET k == Type(TASK_HD, "msg").k
        n == Type(TASK_HD, "msg").n
        start(op, left, commands) ==
            hd' = [op |-> op, left |-> left, commands |-> commands, return |-> "hd_command"]
    IN  /\ At(TASK_HD, "hd_dispatch")
        /\ \/ k = "DEV_OPEN" /\ start("in", 1, IF opened THEN 1 ELSE 1 + Tables)
           \/ k = "DEV_READ" /\ start("in", n, 1)
           \/ k = "DEV_WRITE" /\ start("out", n, 1)
           \/ k \notin {"DEV_OPEN", "DEV_READ", "DEV_WRITE"} /\ hd' = hd
        /\ opened' = (opened \/ k = "DEV_OPEN")
        /\ Goto(TASK_HD, CASE k \in {"DEV_OPEN", "DEV_READ", "DEV_WRITE"} -> "wait_t0"
                           [] k = "DEV_IOCTL" -> "hd_reply"
                           [] OTHER -> "hd_panic")
        /\ UNCHANGED <<vars, disk>>

\* waitfor: the time at its start, then a poll of clock and drive in turn.
AskTime(from, to) ==
    At(TASK_HD, from) /\ SendThen(TASK_HD, TASK_SYS, "tick_msg", Says("GET_TICKS", TASK_HD, 0), to)
TakeTime(from, to) ==
    At(TASK_HD, from) /\ ReceiveThen(TASK_HD, TASK_SYS, "tick_msg", to)
WaitforTime ==
    /\ \/ AskTime("wait_t0", "wait_t0_answer")
       \/ TakeTime("wait_t0_answer", "wait_poll")
       \/ AskTime("wait_poll", "wait_poll_answer")
       \/ TakeTime("wait_poll_answer", "wait_test")
    /\ UNCHANGED <<hd, opened, disk>>

\* Mutant: before data goes out, waitfor looks for data to come in.
AwaitedIn == IF hd.return = "hd_command" THEN ~Busy ELSE disk.state = "data_in"

\* STATUS_BUSY off before a command, STATUS_DRQ on before data goes out.
Awaited == IF hd.return = "hd_command" THEN ~Busy
                                       ELSE disk.state \in {"data_in", "data_out"}
WaitforTest ==
    /\ At(TASK_HD, "wait_test")
    /\ Goto(TASK_HD, IF Awaited THEN hd.return ELSE "wait_poll")
    /\ UNCHANGED <<vars, hd, opened, disk>>

\* The clock is looked at first: when the time is up, the drive is not looked
\* at, and hd_cmd_out or hd_rdwt panics.  Any time may have passed since the
\* last poll: TASK_HD waits for TASK_SYS and for its turn.
WaitforTimeout ==
    /\ At(TASK_HD, "wait_test")
    /\ Goto(TASK_HD, "hd_error")
    /\ UNCHANGED <<vars, hd, opened, disk>>

\* The drive takes a command whatever it was doing.
HdCommand ==
    /\ At(TASK_HD, "hd_command")
    /\ disk' = [state |-> IF hd.op = "in" THEN "busy_in" ELSE "busy_first", left |-> hd.left]
    /\ hd' = [hd EXCEPT !.commands = @ - 1]
    /\ Goto(TASK_HD, "hd_transfer")
    /\ UNCHANGED <<vars, opened>>

\* Mutants: one command too many; data goes out without waiting for DRQ.
HdTransferOnceMore ==
    /\ At(TASK_HD, "hd_transfer")
    /\ IF hd.left = 0
       THEN Goto(TASK_HD, "wait_t0") /\ hd' = [hd EXCEPT !.left = 1, !.return = "hd_command"]
       ELSE Goto(TASK_HD, "hd_interrupt") /\ hd' = hd
    /\ UNCHANGED <<vars, opened, disk>>
HdTransferUnready ==
    /\ At(TASK_HD, "hd_transfer")
    /\ IF hd.left = 0 THEN Goto(TASK_HD, "hd_reply")
       ELSE Goto(TASK_HD, IF hd.op = "in" THEN "hd_interrupt" ELSE "hd_port_write")
    /\ UNCHANGED <<vars, hd, opened, disk>>

\* The loop over the sectors of a command, and over the commands.
HdTransfer ==
    /\ At(TASK_HD, "hd_transfer")
    /\ IF hd.left = 0
       THEN IF hd.commands = 0
            THEN Goto(TASK_HD, "hd_reply") /\ hd' = hd
            ELSE Goto(TASK_HD, "wait_t0") /\ hd' = [hd EXCEPT !.left = 1, !.return = "hd_command"]
       ELSE IF hd.op = "in"
            THEN Goto(TASK_HD, "hd_interrupt") /\ hd' = hd
            ELSE Goto(TASK_HD, "wait_t0") /\ hd' = [hd EXCEPT !.return = "hd_port_write"]
    /\ UNCHANGED <<vars, opened, disk>>

\* interrupt_wait.
HdInterruptWait ==
    /\ At(TASK_HD, "hd_interrupt")
    /\ ReceiveThen(TASK_HD, INTERRUPT, "int_msg", IF hd.op = "in" THEN "hd_port_read" ELSE "hd_written")
    /\ UNCHANGED <<hd, opened, disk>>

\* The data port moves a sector if the drive has one to move.
HdPortRead ==
    /\ At(TASK_HD, "hd_port_read")
    /\ disk' = IF disk.state # "data_in" THEN disk
               ELSE [state |-> IF disk.left = 1 THEN "idle" ELSE "busy_in", left |-> disk.left - 1]
    /\ hd' = [hd EXCEPT !.left = @ - 1]
    /\ Goto(TASK_HD, "hd_transfer")
    /\ UNCHANGED <<vars, opened>>

\* Mutant: no interrupt_wait after a sector has gone out.
HdPortWriteOnly ==
    /\ At(TASK_HD, "hd_port_write")
    /\ disk' = IF disk.state # "data_out" THEN disk ELSE [disk EXCEPT !.state = "busy_out"]
    /\ Goto(TASK_HD, "hd_written")
    /\ UNCHANGED <<vars, hd, opened>>

HdPortWrite ==
    /\ At(TASK_HD, "hd_port_write")
    /\ disk' = IF disk.state # "data_out" THEN disk ELSE [disk EXCEPT !.state = "busy_out"]
    /\ Goto(TASK_HD, "hd_interrupt")
    /\ UNCHANGED <<vars, hd, opened>>

HdWritten ==
    /\ At(TASK_HD, "hd_written")
    /\ hd' = [hd EXCEPT !.left = @ - 1]
    /\ Goto(TASK_HD, "hd_transfer")
    /\ UNCHANGED <<vars, opened, disk>>

\* The answer is the request itself, sent back.
HdReply ==
    /\ At(TASK_HD, "hd_reply")
    /\ SendThen(TASK_HD, Source(TASK_HD, "msg"), "msg", Type(TASK_HD, "msg"), "hd_receive")
    /\ UNCHANGED <<hd, opened, disk>>

Hd == /\ \/ HdReceive \/ HdDispatch \/ WaitforTime \/ WaitforTest \/ WaitforTimeout
         \/ HdCommand \/ HdTransfer \/ HdInterruptWait \/ HdPortRead \/ HdPortWrite \/ HdWritten \/ HdReply
      /\ UNCHANGED <<fs, irq>>

\* The drive, by the ATA protocol: an interrupt for each sector it has ready,
\* and for each it has taken, but none for the first it is ready to take.
DriveReady ==
    /\ \/ /\ disk.state = "busy_in"
          /\ disk' = [disk EXCEPT !.state = "data_in"]
          /\ irq' = TRUE
       \/ /\ disk.state = "busy_first"
          /\ disk' = [disk EXCEPT !.state = "data_out"]
          /\ irq' = irq
       \/ /\ disk.state = "busy_out"
          /\ disk' = [state |-> IF disk.left = 1 THEN "idle" ELSE "data_out", left |-> disk.left - 1]
          /\ irq' = TRUE
    /\ UNCHANGED <<vars, pc, hd, opened, fs>>

\* hd_handler: reading the status takes the interrupt line back.
hd_handler ==
    /\ irq /\ ~Stopped
    /\ irq' = FALSE
    /\ sys_sendint(TASK_HD)
    /\ UNCHANGED <<pc, hd, opened, fs, disk>>

-----------------------------------------------------------------------------
(* task_fs.                                                                *)

CallHd(from, x, to) == At(TASK_FS, from) /\ SendThen(TASK_FS, TASK_HD, "driver_msg", x, to)
HdAnswer(from, to) == At(TASK_FS, from) /\ ReceiveThen(TASK_FS, TASK_HD, "driver_msg", to)

\* init_fs opens the root device, mkfs asks for its size and writes to it.
FsInit ==
    /\ \/ CallHd("fs_open", Says("DEV_OPEN", TASK_FS, 0), "fs_open_answer")
       \/ HdAnswer("fs_open_answer", "fs_geo")
       \/ CallHd("fs_geo", Says("DEV_IOCTL", TASK_FS, 0), "fs_geo_answer")
       \/ HdAnswer("fs_geo_answer", "fs_work")
    /\ fs' = fs

FsReceive ==
    /\ At(TASK_FS, "fs_receive")
    /\ ReceiveThen(TASK_FS, ANY, "msg", "fs_dispatch")
    /\ fs' = fs

FsDispatch ==
    /\ At(TASK_FS, "fs_dispatch")
    /\ fs' = [src |-> Source(TASK_FS, "msg"), budget |-> MaxRequests]
    /\ Goto(TASK_FS, "fs_work")
    /\ UNCHANGED vars

\* rw_sector.
FsDriver ==
    \/ /\ fs.budget > 0
       /\ \E k \in {"DEV_READ", "DEV_WRITE"}, n \in 1..MaxSectors :
             CallHd("fs_work", Says(k, TASK_FS, n), "fs_driver_answer")
       /\ fs' = [fs EXCEPT !.budget = @ - 1]
    \/ HdAnswer("fs_driver_answer", "fs_work") /\ fs' = fs

\* do_open on a character device asks its driver.
FsTty ==
    /\ OpensTty /\ fs.src # NO_TASK
    /\ At(TASK_FS, "fs_work")
    /\ SendThen(TASK_FS, TASK_TTY, "driver_msg", Says("DEV_OPEN", TASK_FS, 0), "fs_tty_answer")
    /\ fs' = fs

\* A check of TASK_FS fails: of its tables, its maps or what it was asked.
\* When one may, Files and FileTests say.
FsPanic ==
    /\ At(TASK_FS, "fs_work")
    /\ Goto(TASK_FS, "fs_panic")
    /\ UNCHANGED <<vars, fs>>

\* Mutant: the request goes back as it came.
FsReplyRequest ==
    /\ At(TASK_FS, "fs_work")
    /\ IF fs.src = NO_TASK
       THEN Goto(TASK_FS, "fs_receive") /\ UNCHANGED vars
       ELSE SendThen(TASK_FS, fs.src, "msg", Type(TASK_FS, "msg"), "fs_receive")
    /\ fs' = fs

FsReply ==
    /\ At(TASK_FS, "fs_work")
    /\ IF fs.src = NO_TASK
       THEN Goto(TASK_FS, "fs_receive") /\ UNCHANGED vars
       ELSE SendThen(TASK_FS, fs.src, "msg", [Type(TASK_FS, "msg") EXCEPT !.k = "SYSCALL_RET"],
                     "fs_receive")
    /\ fs' = fs

Fs == /\ \/ FsInit \/ FsReceive \/ FsDispatch \/ FsDriver \/ FsTty \/ FsPanic \/ FsReply
      /\ UNCHANGED <<hd, opened, disk, irq>>

-----------------------------------------------------------------------------
TasksNext ==
    \/ \E u \in Users : Asks(u) \/ Continues(u)
    \/ Sys \/ Hd \/ Fs \/ DriveReady \/ hd_handler

\* Every process that can run does (schedule() passes nobody over for ever),
\* except that a user need not ask for anything; the drive works, and its
\* interrupts are taken.  TASK_TTY makes no call.
Fairness ==
    /\ \A u \in Users : WF_allVars(Continues(u))
    /\ WF_allVars(Sys) /\ WF_allVars(Hd) /\ WF_allVars(Fs)
    /\ WF_allVars(DriveReady \/ hd_handler)

TasksSpec == TasksInit /\ [][TasksNext]_allVars
FairTasksSpec == TasksSpec /\ Fairness

-----------------------------------------------------------------------------
\* No message stops the machine: with these callers in any order no assertion
\* of msg_send and msg_receive fails (WedgeCause leaves two that the calls alone
\* do not exclude), no deadlock is reported, and neither TASK_SYS nor TASK_HD
\* gets a message whose type it does not know and panics at.  What else may
\* stop it, a time-out and the checks of TASK_FS, is not excluded.
NoMessageStops ==
    /\ kernel = "up" /\ ~reported
    /\ pc[TASK_SYS] # "sys_panic" /\ pc[TASK_HD] # "hd_panic"

\* TASK_HD makes no call before its next interrupt_wait.
InterruptWaitNext ==
    \/ pc[TASK_HD] = "hd_interrupt"
    \/ pc[TASK_HD] = "hd_transfer" /\ hd.op = "in" /\ hd.left > 0

\* An interrupt is raised, and noted, only for the interrupt_wait that TASK_HD
\* is in or about to make, and once: none is lost, merged with another or
\* taken for a request (HARD_INT is DEV_OPEN).
InterruptsAwaited ==
    /\ has_int_msg[TASK_HD] => Running(TASK_HD) /\ InterruptWaitNext /\ ~irq
    /\ irq => \/ Running(TASK_HD) /\ InterruptWaitNext
              \/ p_flags[TASK_HD] = {RECEIVING} /\ p_recvfrom[TASK_HD] = INTERRUPT

\* The data port is used only when the drive has a sector to move, a command
\* is given only to an idle drive, and each transfers all its sectors.
DriveProtocol ==
    /\ At(TASK_HD, "hd_port_read") => disk.state = "data_in"
    /\ At(TASK_HD, "hd_port_write") => disk.state = "data_out"
    /\ At(TASK_HD, "hd_command") => disk.state = "idle"
    /\ At(TASK_HD, "hd_reply") => disk = [state |-> "idle", left |-> 0]

\* A user gets the answer to its own request, from the file system (open()
\* asserts that it is a SYSCALL_RET), and no other.
OwnAnswer ==
    \A u \in Users : At(u, "fs_return") =>
        mem[u]["msg"] = [source |-> TASK_FS, type |-> Says("SYSCALL_RET", u, 0)]

\* The message of an interrupt reaches interrupt_wait: sendint is there "to send
\* int message to task" (system_calls.c).
InterruptMessage ==
    At(TASK_HD, "hd_port_read") =>
        mem[TASK_HD]["int_msg"] = [source |-> INTERRUPT, type |-> HARD_INT]

\* Whoever calls TASK_FS gets its answer, and whoever calls TASK_SYS, unless
\* the machine stops before at a time-out of waitfor or a check of TASK_FS that
\* fails: every process is served in its turn, and no two wait for each other
\* for ever, nor TASK_HD for a drive that is ready.
GivenUp == pc[TASK_HD] = "hd_error" \/ pc[TASK_FS] = "fs_panic"
FsAnswers == \A u \in Users : pc[u] = "fs_answer" ~> (At(u, "fs_return") \/ GivenUp)
TicksAnswer == \A u \in Users : pc[u] = "tick_answer" ~> (At(u, "run") \/ GivenUp)
=============================================================================
