------------------------------ MODULE MCTasks ------------------------------
(* Tasks for TLC: the messages that the processes exchange. *)
EXTENDS Tasks, TLC

CONSTANTS a, b, tty, sys, hd0, fs0

MCProcs == Users \cup {tty, sys, hd0, fs0}
MCTasks == {tty, sys, hd0, fs0}

MCTypes ==
    {Says(k, u, 0) : k \in {"OPEN", "SYSCALL_RET", "GET_TICKS"}, u \in Users}
        \cup {Says(k, fs0, n) : k \in {"DEV_READ", "DEV_WRITE"}, n \in 1..MaxSectors}
        \cup {Says("DEV_OPEN", fs0, 0), Says("DEV_IOCTL", fs0, 0), Says("GET_TICKS", hd0, 0)}
MCHardInt == Says("DEV_OPEN", hd0, 0)
MCJunk == Says("JUNK", hd0, 0)

UserSymmetry == Permutations(Users)
=============================================================================
