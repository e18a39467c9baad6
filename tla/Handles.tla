------------------------------ MODULE Handles ------------------------------
(***************************************************************************)
(* What the file system promises about open files, with no table in sight: *)
(* a handle is private to its user and means one file from the open to the *)
(* close, whatever others open, close and remove meanwhile, and a file     *)
(* goes only when nobody has a handle of it.  Module Files implements it   *)
(* (MCFiles).                                                              *)
(*                                                                         *)
(* The promise says nothing of names: the directory of the code loses      *)
(* some.                                                                   *)
(***************************************************************************)
CONSTANTS
    User, Handle,
    File,       \* what a file can be
    Kept,       \* the files there are from the start, which are never removed
    None        \* not a file

VARIABLES
    files,      \* the files there are
    opened      \* opened[u][h]: the file that u has open as h, or None

handles == <<files, opened>>

Start == files = Kept /\ opened = [u \in User |-> [h \in Handle |-> None]]

Opens(u, h, f) == opened[u][h] = None /\ opened' = [opened EXCEPT ![u][h] = f]

OpenFile(u, h, f) == f \in files /\ Opens(u, h, f) /\ UNCHANGED files
CreateFile(u, h, f) == f \in File \ files /\ Opens(u, h, f) /\ files' = files \cup {f}

Close(u, h) ==
    /\ opened[u][h] # None
    /\ opened' = [opened EXCEPT ![u][h] = None]
    /\ UNCHANGED files

Remove(f) ==
    /\ f \in files \ Kept
    /\ \A u \in User, h \in Handle : opened[u][h] # f
    /\ files' = files \ {f}
    /\ UNCHANGED opened

Next ==
    \/ \E u \in User, h \in Handle :
          \/ Close(u, h)
          \/ \E f \in File : OpenFile(u, h, f) \/ CreateFile(u, h, f)
    \/ \E f \in File : Remove(f)

Spec == Start /\ [][Next]_handles
=============================================================================
