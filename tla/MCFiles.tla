------------------------------ MODULE MCFiles ------------------------------
(* Small file systems, for TLC. *)
EXTENDS Files, TLC

MCConsoles == 2 :> "dev_tty0"

MCPaths == Names \cup LongNames \cup {DOT, "dev_tty0"}
MCNames == Names \cup LongNames

\* What symmetry leaves of the users and of the names.
OfUsers == Permutations(Users)
OfNames == Permutations(Names)
OfBoth == OfUsers \cup OfNames
=============================================================================
