----------------------------- MODULE FileTests -----------------------------
(***************************************************************************)
(* The processes TestA and TestB of kernel/process.c, which try out the    *)
(* file system of Files at the same time.                                  *)
(***************************************************************************)
EXTENDS Files, Sequences

CONSTANTS TestA, TestB     \* the Users

Foo == "foo"
Bar == "bar"
Baz == "baz"
Blah == "blah"
Tty0 == "dev_tty0"

VARIABLES
    step,   \* step[u]: how far u is in its program
    fd      \* fd[u]: its variable of that name

testVars == <<filesVars, step, fd>>

Calls(op, names) == [i \in DOMAIN names |-> [op |-> op, name |-> names[i]]]
Created(name) == <<[op |-> "create", name |-> name], [op |-> "close", name |-> name]>>

Program == [u \in Users |->
    IF u = TestA
    THEN Created(Foo) \o Created(Bar) \o Created(Baz) \o Calls("unlink", <<Foo, Bar, Baz, Tty0>>)
    ELSE <<[op |-> "create", name |-> Blah], [op |-> "rdwt", name |-> Blah], [op |-> "close", name |-> Blah],
           [op |-> "open", name |-> Blah], [op |-> "rdwt", name |-> Blah], [op |-> "close", name |-> Blah]>>]

TestsInit == FilesInit /\ step = [u \in Users |-> 1] /\ fd = [u \in Users |-> -1]

\* do_rdwt asserts that the descriptor is one of the table.
RdwtAsserts(u) == IF fd[u] \in Fds /\ filp[u][fd[u]] # 0 THEN Returns ELSE Halts

\* What an open returns.
Returned(u) ==
    LET new == {f \in Fds : filp'[u][f] # filp[u][f]}
    IN  IF new = {} THEN -1 ELSE CHOOSE f \in new : TRUE

\* TestA asserts that its files are created, else it goes no further.
Step(u) ==
    /\ step[u] \in DOMAIN Program[u]
    /\ LET call == Program[u][step[u]] IN
       \/ /\ call.op = "create" /\ (NoDescriptor(u) \/ Create(u, call.name) \/ CreateExisting(u, call.name))
          /\ fd' = [fd EXCEPT ![u] = Returned(u)]
          /\ step' = [step EXCEPT ![u] = IF u = TestA /\ Returned(u) = -1 THEN 0 ELSE @ + 1]
       \/ /\ \/ call.op = "open" /\ (NoDescriptor(u) \/ Open(u, call.name)) /\ fd' = [fd EXCEPT ![u] = Returned(u)]
             \/ call.op = "rdwt" /\ fs = "up" /\ RdwtAsserts(u) /\ UNCHANGED fd
             \/ call.op = "close" /\ do_close(u) /\ UNCHANGED fd
             \/ call.op = "unlink" /\ do_unlink(call.name) /\ UNCHANGED fd
          /\ step' = [step EXCEPT ![u] = @ + 1]

TestsNext == \E u \in Users : Step(u)
TestsSpec == TestsInit /\ [][TestsNext]_testVars

\* The tests run without a failed assertion in TASK_FS: the descriptor that
\* TestB reads from is one that open has returned for the file it has created.
TestsPass == fs # "halted"
=============================================================================
