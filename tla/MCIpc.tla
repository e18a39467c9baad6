------------------------------- MODULE MCIpc -------------------------------
(***************************************************************************)
(* Ipc with arbitrary callers, for TLC.                                    *)
(***************************************************************************)
EXTENDS IpcRefinement

CONSTANTS u1, u2, u3, hd

UserSymmetry == Permutations(Procs \ IntTasks)
=============================================================================
