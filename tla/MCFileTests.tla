---------------------------- MODULE MCFileTests ----------------------------
(* The tests with the tables of the system, except that a file has one sector. *)
EXTENDS FileTests, TLC

MCConsoles == 2 :> "dev_tty0" @@ 3 :> "dev_tty1" @@ 4 :> "dev_tty2"
=============================================================================
