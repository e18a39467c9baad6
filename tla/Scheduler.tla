----------------------------- MODULE Scheduler -----------------------------
(***************************************************************************)
(* Which process runs: schedule() and clock_handler of kernel/clock.c, and *)
(* the way in and out of the kernel (save, sys_call and restart of         *)
(* kernel/kernel.asm).                                                     *)
(*                                                                         *)
(* What the system calls do to messages is module Ipc; here a call blocks  *)
(* its caller, or makes at most one blocked process run again.             *)
(*                                                                         *)
(* schedule() goes over the process table one entry at a time.  Called by  *)
(* the clock it does so with interrupts on, and the disk's interrupt may   *)
(* wake TASK_HD in the middle of the walk; called by block() it does not.  *)
(***************************************************************************)
EXTENDS Integers

CONSTANTS
    NR_ALL,     \* NR_PROCS + NR_TASKS
    priority,   \* priority[p], which is also where ticks[p] starts
    TASK_HD,    \* the process that hd_handler wakes
    Polling     \* processes that never block (TASK_TTY in this system)

Pids == 0..(NR_ALL - 1)

ASSUME SchedulerAssumption ==
    /\ NR_ALL \in Nat \ {0}
    /\ priority \in [Pids -> Nat \ {0}]
    /\ TASK_HD \in Pids
    /\ Polling \subseteq Pids /\ Polling # {} /\ TASK_HD \notin Polling

VARIABLES
    blocked,            \* the processes whose p_flags is not 0
    ticks,              \* ticks[p]: what is left of p's share
    p_current_process,
    mode,               \* what the processor is at, below
    p,                  \* schedule()'s place in the table
    greatest_ticks,
    interrupts          \* whether interrupts are on in the kernel

schedulerVars == <<blocked, ticks, p_current_process, mode, p, greatest_ticks, interrupts>>
walkVars == <<p, greatest_ticks, interrupts>>

\* "process": the code of p_current_process (k_reenter is -1, 0 in all others).
\* "call": a system call, before sys_sendrec turns interrupts off.
\* "search", "refill": the first and the second loop of schedule().
Mode == {"process", "call", "search", "refill"}

SchedulerTypeOK ==
    /\ blocked \subseteq Pids
    /\ ticks \in [Pids -> Nat]
    /\ p_current_process \in Pids
    /\ mode \in Mode
    /\ p \in 0..NR_ALL
    /\ greatest_ticks \in Nat
    /\ interrupts \in BOOLEAN

SchedulerInit ==
    /\ blocked = {}
    /\ ticks = priority
    /\ p_current_process = 0
    /\ mode = "process"
    /\ p = 0
    /\ greatest_ticks = 0
    /\ interrupts = TRUE

-----------------------------------------------------------------------------
Search(on) == mode' = "search" /\ p' = 0 /\ greatest_ticks' = 0 /\ interrupts' = on

\* Mutant: the process that runs pays nothing.
clock_handler_free ==
    /\ mode = "process"
    /\ Search(TRUE)
    /\ UNCHANGED <<blocked, ticks, p_current_process>>

\* save finds k_reenter -1 only here; a tick that comes in any other mode finds
\* 0 or more and clock_handler drops it.
clock_handler ==
    /\ mode = "process"
    /\ ticks' = [ticks EXCEPT ![p_current_process] = @ - 1]
    /\ Search(TRUE)
    /\ UNCHANGED <<blocked, p_current_process>>

sys_call ==
    /\ mode = "process"
    /\ mode' = "call"
    /\ UNCHANGED <<blocked, ticks, p_current_process, walkVars>>

\* The call ends, with or without a process that it releases.
CallReturns ==
    /\ mode = "call"
    /\ mode' = "process"
    /\ blocked' \in {blocked} \cup {blocked \ {q} : q \in blocked}
    /\ UNCHANGED <<ticks, p_current_process, walkVars>>

block ==
    /\ mode = "call"
    /\ p_current_process \notin Polling
    /\ blocked' = blocked \cup {p_current_process}
    /\ Search(FALSE)
    /\ UNCHANGED <<ticks, p_current_process>>

\* hd_handler releases a TASK_HD that waits for it.
hd_handler ==
    /\ interrupts
    /\ TASK_HD \in blocked
    /\ blocked' = blocked \ {TASK_HD}
    /\ UNCHANGED <<ticks, p_current_process, mode, walkVars>>

Restart == mode' = "process" /\ interrupts' = TRUE

\* Mutants: blocked processes are picked; a last tick does not count.
SearchStepBlocked ==
    /\ mode = "search" /\ p < NR_ALL
    /\ p' = p + 1
    /\ IF ticks[p] > greatest_ticks
       THEN greatest_ticks' = ticks[p] /\ p_current_process' = p
       ELSE UNCHANGED <<greatest_ticks, p_current_process>>
    /\ UNCHANGED <<blocked, ticks, mode, interrupts>>
SearchStepAboveOne ==
    /\ mode = "search" /\ p < NR_ALL
    /\ p' = p + 1
    /\ IF p \notin blocked /\ ticks[p] > greatest_ticks + 1
       THEN greatest_ticks' = ticks[p] /\ p_current_process' = p
       ELSE UNCHANGED <<greatest_ticks, p_current_process>>
    /\ UNCHANGED <<blocked, ticks, mode, interrupts>>

SearchStep ==
    /\ mode = "search" /\ p < NR_ALL
    /\ p' = p + 1
    /\ IF p \notin blocked /\ ticks[p] > greatest_ticks
       THEN greatest_ticks' = ticks[p] /\ p_current_process' = p
       ELSE UNCHANGED <<greatest_ticks, p_current_process>>
    /\ UNCHANGED <<blocked, ticks, mode, interrupts>>

\* Mutant: the processor goes on to its choice without a refill.
SearchEndsAnyhow ==
    /\ mode = "search" /\ p = NR_ALL
    /\ Restart
    /\ UNCHANGED <<blocked, ticks, p_current_process, p, greatest_ticks>>

SearchEnds ==
    /\ mode = "search" /\ p = NR_ALL
    /\ IF greatest_ticks > 0
       THEN Restart /\ UNCHANGED p
       ELSE mode' = "refill" /\ p' = 0 /\ UNCHANGED interrupts
    /\ UNCHANGED <<blocked, ticks, p_current_process, greatest_ticks>>

\* Mutant: those that cannot run get the new shares.
RefillStepBlocked ==
    /\ mode = "refill" /\ p < NR_ALL
    /\ p' = p + 1
    /\ ticks' = IF p \in blocked THEN [ticks EXCEPT ![p] = priority[p]] ELSE ticks
    /\ UNCHANGED <<blocked, p_current_process, mode, greatest_ticks, interrupts>>

RefillStep ==
    /\ mode = "refill" /\ p < NR_ALL
    /\ p' = p + 1
    /\ ticks' = IF p \notin blocked THEN [ticks EXCEPT ![p] = priority[p]] ELSE ticks
    /\ UNCHANGED <<blocked, p_current_process, mode, greatest_ticks, interrupts>>

RefillEnds ==
    /\ mode = "refill" /\ p = NR_ALL
    /\ mode' = "search" /\ p' = 0
    /\ UNCHANGED <<blocked, ticks, p_current_process, greatest_ticks, interrupts>>

schedule == SearchStep \/ SearchEnds \/ RefillStep \/ RefillEnds
Call == CallReturns \/ block

SchedulerNext == clock_handler \/ sys_call \/ Call \/ hd_handler \/ schedule

SchedulerSpec == SchedulerInit /\ [][SchedulerNext]_schedulerVars

\* The kernel's code runs on.  The clock interrupts process code again and
\* again: a process that is in a system call at every single tick would keep
\* the processor, since those ticks are dropped.
FairSchedulerSpec ==
    /\ SchedulerSpec
    /\ WF_schedulerVars(schedule) /\ WF_schedulerVars(Call)
    /\ SF_schedulerVars(clock_handler)

-----------------------------------------------------------------------------
\* The process whose code runs is not blocked, and has some of its share left:
\* clock_handler never takes ticks below 0.
CurrentCanRun ==
    mode \in {"process", "call"} =>
        p_current_process \notin blocked /\ ticks[p_current_process] > 0

ChoiceIsGreatest ==
    mode = "search" =>
        /\ greatest_ticks > 0 =>
              p_current_process \notin blocked /\ ticks[p_current_process] = greatest_ticks
        /\ \A q \in 0..(p - 1) :
              q \in blocked \/ ticks[q] <= greatest_ticks \/ (q = TASK_HD /\ interrupts)

RefillWhenUsedUp ==
    mode = "refill" =>
        \A q \in p..(NR_ALL - 1) :
            q \in blocked \/ ticks[q] = 0 \/ (q = TASK_HD /\ interrupts)
\* While schedule() searches, nobody it has passed has more ticks than its
\* choice, and shares are given out anew only when every process that can run
\* has used its own up, but for a TASK_HD that an interrupt has woken since.
SharesKept == ChoiceIsGreatest /\ RefillWhenUsedUp

\* schedule() comes to an end: a process that never blocks is always there.
ScheduleEnds == mode = "search" ~> mode = "process"

\* A process that can run does, whatever the others call and however
\* often they block and wake: refilling leaves blocked processes out.
EveryoneRuns ==
    \A q \in Pids :
        q \notin blocked /\ p_current_process # q ~> mode = "process" /\ p_current_process = q
=============================================================================
