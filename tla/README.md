# TLA+ models of Mini_Operate_System

A small 32-bit kernel in the manner of MINIX: seven processes (three users, four tasks), messages
passed by rendezvous, a round-robin scheduler with shares, a disk driver and a one-directory file
system that are tasks themselves. These modules model its core, TLC checks them on small instances,
and TLAPS proves the main results for every instance.

## The system

| Component | State | Operations | Talks to |
|---|---|---|---|
| Message passing: `kernel/ipc.c`, `sys_sendrec` and `sys_sendint` in `kernel/system_calls.c` | in each process: `p_flags`, `p_msg`, `p_recvfrom`, `p_sendto`, `has_int_msg`, the list `q_sending`/`next_sending` | send, receive, receive from ANY or INTERRUPT, interrupt message | every process, by `int 0x70`; `block` calls the scheduler |
| Scheduler, clock and kernel entry: `kernel/clock.c`, `kernel.asm`, `main.c` | `p_current_process`, `ticks` and `priority` of each process, `k_reenter` | tick, schedule, enter and leave the kernel | reads `p_flags` |
| System task: `kernel/systask.c` | none | answer GET_TICKS | messages |
| Disk driver: `kernel/hd.c` | `hd_info` (partitions, open count), `hdbuf`, the request at hand | open, read, write, ioctl; `hd_handler` | messages from TASK_FS, time from TASK_SYS, interrupts and ports of the drive |
| File system: `fs/fs.c`, `fs/open.c`, `fs/link.c` | descriptors, inode table, super block, `fsbuf`; on disk: maps, inodes, the root directory | open, close, read, write, unlink, mkfs | messages from users; TASK_HD; TASK_TTY |
| Library and test processes: `kernel/api.c`, `kernel/process.c`, `lib/time.c` | none | one call each | TASK_FS, TASK_SYS |
| Keyboard: `kernel/keyboard.c` | a ring of scan codes, shift and lock keys, lamps | interrupt, read one key, set the lamps | its interrupt and port; TASK_TTY |
| Terminals, console: `kernel/tty.c`, `kernel/console.c` | per console input queue, cursor and start; the console in front, the display's registers | read, echo, scroll, change consoles; print | keyboard; the kernel prints for any process, between any two accesses of TASK_TTY |
| Copying and formatting: `lib/` | none | pure functions | everybody |
| Set-up: `boot/`, `protect.c`, `i8259A.c`, `page.c`, `start.c` | tables written once | none afterwards | none |

Behaviours that are hard here: rendezvous in either order and with a third process; the disk
interrupt before, during and after the receive that waits for it; a call (`BOTH`) that is two system
calls; deadlocks of senders, which the kernel looks for at every send; the interrupt that wakes a
task while `schedule()` walks the process table; starvation; inodes that several users share and
count; a directory whose entries come and go; requests that meet the boundary of a sector, a buffer,
a file, or of what a byte can count; a console that TASK_TTY and the kernel write to with no lock; keys
that are several codes, any of which may be dropped. `PROJECT.json` lists each hazard at its line.

Correct means, per component:

* message passing: a message arrives once, whole, in order, with the name of its sender; matching
  partners never both wait; deadlocks of senders are announced exactly when they arise; the
  assertions of the code hold;
* scheduler: only processes that can run do, the one with the most ticks first, and every one in time;
* tasks together: no message makes a call fail or a task panic, no interrupt is lost or taken for
  another message, the drive is used by its protocol, each request is answered, to its asker, unless a
  time-out or a failed check stops the machine;
* file system: a descriptor leads to the file that was opened until it is closed; descriptors, inode
  table, maps and directory agree with one another; reads and writes touch the bytes they are for;
* keyboard and terminals: the ring is a queue, a shift key is pressed when it is down, what is typed and
  printed appears whole and in its console, the display shows the console in front.

## The modules

**`Ipc`** - message passing. Each field of the process table is a variable, a function on processes.
`Send`, `Receive` and `sys_sendint` are `sys_sendrec`/`sys_sendint` with all of `msg_send` and
`msg_receive`; the cases of each are separate definitions, and each assertion of the code decides
between going on and `kernel = "wedged"`. One call is one step because `sys_sendrec` turns interrupts
off first; a disk interrupt falls between calls. The walk of `deadlock()` is the set `Orbit` of
the processes it meets; where the code would walk for ever, `SendSpins` says so. Callers are
arbitrary: any process that runs makes any legal call. A message is its source and one value for
the rest; it is kept in `mem` at the address the caller passed, so that a copy through a stale `p_msg`
is what it is in the code. The callers write their buffers only as a part of a send.

**`Rendezvous`** - what `Ipc` promises, with a sequence of messages per process and no pointer.
`IpcRefinement` gives the mapping: `QueueOf` is the sequence of processes that the linked list of a
process runs through, and what those left in their buffers is its inbox.

**`Tasks`** (EXTENDS `Ipc`) - the processes that make the calls: a user makes the calls of `api.c`,
TASK_SYS, TASK_HD and TASK_FS follow their loops statement by statement as far as these call, wait or
touch the drive. `pc[p]` is where p is. `hd` is the driver's request, `disk` and `irq` are the drive,
which is external: it follows the ATA protocol for reading, writing and identifying. What TASK_FS does
to files between two disk requests is left out, and so is how long anything takes: `waitfor` polls TASK_SYS
and the drive in turn, and at any poll its time may be up, for TASK_HD may have waited for TASK_SYS and
for its turn to run any time since the last one (`WaitforTimeout`). A panic or a failed assertion of a task halts
the machine in `sys_printx`: the task stays at a label of `Panics`, and only the drive goes on. There
are four: TASK_SYS or TASK_HD gets a message whose type it does not know, TASK_HD's time is up, a
check of TASK_FS fails (`FsPanic`, which may happen at any request here; `Files` and `FileTests` say when it does).

**`Scheduler`** - `schedule()` entry by entry, called by the clock with interrupts on and by `block`
with interrupts off; `clock_handler`; the way into and out of the kernel. A system call blocks its
caller or releases at most one process, which is what `Ipc` does to `p_flags`. `k_reenter` is -1 in
mode `process` and 0 otherwise; a nested interrupt comes and goes within one step, so a tick that
finds `k_reenter` at 0 or more, and is dropped, is no step at all.

**`Files`** - the file system without the contents of files. One request to TASK_FS is one step:
TASK_FS serves one at a time and nobody else touches its tables or the disk's file system.
`filp`, `f_desc_table` and `inode_table` are in memory, `imap`, `smap`, `inodes` and `dir` on disk.
`Open`, `Create`, `do_close` and `do_unlink` are the requests; `get_inode`, `sync_inode`,
`search_file`, `new_dir_entry` and the two `alloc_...` are operators with the code's conditions, the
first match of each loop being `IsFirst` of the set of matches. `fs` becomes "halted" where an
assertion fails or the kernel panics, "tty" where an open waits for the console, and "wild" where
`new_inode` writes through a null pointer. An open that asks for neither O_CREAT nor an access mode
fails an assertion (`NoAccess`).

**`Handles`** - what `Files` promises to users, without a table: a handle means one file from open to
close, and no open file is removed. The mapping is at the end of `Files`.

**`FileTests`** (EXTENDS `Files`) - the processes TestA and TestB of the repository, call by call.

**`ReadWrite`** - `do_rdwt` on a regular file, one pass over the buffer per step, byte by byte, with
`kmemcpy` as it copies: by words, their number rounded up, and without end for no word. A pass goes to
the drive with the address and the count that `hd_rdwt` makes of it; `pc` becomes "stuck" where the
drive is done before TASK_HD is. The first step is `hd_open`, on a disk of some layout.

**`Partitions`** (operators) - the registers of a command, and what `partition` makes of the tables on
disk. The tables are external: they are derived from a layout, which is what the disk was partitioned
into. `partition` calls itself for an extended partition and walks a chain of tables there; the chain is a
recursive function of its place.

**`Ring`** (operators) - the two queues in fixed arrays, `KB_INPUT` and a terminal's `in_buf`.
**`Keyboard`** - `keyboard_handler` is one step, as an interrupt is; `keyboard_read` takes one code
per step, for others may come in between, and stays between two codes in `at`, `rest` and `scan_code`.
`keymap` is kept by the kinds of its rows. The keyboard is external: it sends the codes of `codes` for a
key, in order, and one `KB_ACK` for each byte it gets, behind what it is sending. **`Fifo`** is what the ring
promises, a sequence that drops what comes when it is full.

**`Terminal`** (EXTENDS `Keyboard`) - `task_tty`, one step per access to what the kernel writes as
well: `out_char`, `scroll_screen` and `flush` of TASK_TTY are loads, tests and stores, because
`console->cursor++` is a load and a store and a process that is switched to may print in between.
`sys_write` is `out_char` of the kernel, whole, for system calls are not interrupted by tasks. `ideal` is a
history: the consoles as they would be if each character were one step. `raced` and `late` record that a
print came where it can do harm; the properties say what is right as long as none did, and what is right
even then.

**`IpcProofs`, `TasksProofs`, `SchedulerProofs`, `FilesProofs`, `DiskProofs`, `ReadWriteProofs`,
`KeyboardProofs`, `ConsoleProofs`** - the theorems. **`MC...`** - constants for TLC.

Operators marked "Mutant" are faulty versions of the definition that follows them. They show that a
property notices the fault; no specification uses them.

## The runs

| Run | Question | Bounds |
|---|---|---|
| `ipc` | do queues, wake-ups, deadlock reports and assertions hold for arbitrary callers? does `Ipc` implement `Rendezvous`? | 3 users, 1 task that takes interrupts, 1 buffer, 1 message |
| `tasks` | with the real callers, a time-out at any poll and failing checks of TASK_FS: does no message make a call fail or a task panic, is no interrupt lost, is the drive's protocol kept, do answers go to their askers? | 2 users, requests of 2 sectors, 1 disk request per file operation, 1 partition table, consoles may be opened |
| `tasks_live` | is every request answered, if neither a time-out nor a failed check stops the machine? | the same, 1 sector, no console opened |
| `console_open` | is a request that opens a console answered? **No.** | 1 user |
| `early_interrupt` | does the interrupt's message reach the driver? **Not when it comes early.** | as `tasks` |
| `scheduler` | who runs, when are shares given out, does everyone run? | 5 processes, shares of 1 to 3 |
| `files` | whose is a descriptor, are references counted, does `Files` implement `Handles`? | 2 users, 3 names, 2 `filp` and 3 descriptors, 3 inodes in memory, numbers for 2 files and sectors for 3 |
| `files_disk` | do maps, inodes and directory agree, and do the tables keep their types when the directory overruns its sector? do numbers last as long as sectors? | 1 user, 3 names and a long one, numbers and sectors for 4 files, entries for 3 in a sector |
| `file_tests` | do TestA and TestB run through? **Not in every order.** | the sizes of the code, but for fewer inodes and sectors |
| `read_write` | which bytes does a request change and return, which requests hang, are the partitions found? | 2 descriptors, a file of 2 sectors of 4 bytes, words of 2, a buffer of 4 sectors, registers that count to 2, 3 disks with 2 primary partitions and places for 3 logical ones in each |
| `copy_unit` | does a write change no byte but its own? **Not if its length is odd.** | the same, lengths 1 and 2 |
| `terminal` | is the keyboard's ring a queue, are shift keys what they are, is the console as it should be while the kernel prints to it? | 2 consoles of 5 places, a screen of 2 lines of 2, a ring of 2 codes, up to 3 keys and 2 prints, 9 keys |

Why the bounds are enough. Three users are the fewest for a ring of senders of length three, for a
receive that unlinks from the middle of a queue, and for a caller that enters a ring it is no part of
(two in the ring, one outside; with the task, three in the ring). Two users are the fewest that
compete for TASK_FS while TASK_HD competes with them for TASK_SYS. Two sectors are the fewest for
which a transfer has a first, a next and a last. Five processes and shares of one to three let the
walk of `schedule()` be overtaken by the interrupt on both sides of TASK_HD's entry. In `ipc` and
`tasks` the users are interchangeable, so TLC identifies states that differ only by their names;
the runs with liveness do not use symmetry. The deadlock check is off where the system may stop: in
`ipc`, whose callers may all block, and in `tasks` and `tasks_live`, where a time-out or a failed check
halts the machine. That nothing else stops it is what `FsAnswers` and `TicksAnswer` say: a caller
that is not answered is a counterexample unless TASK_HD has given up (`hd_error`) or a check of
TASK_FS has failed (`fs_panic`), whatever the others do.

In `files` two users are the fewest that share an inode. Three inodes in memory, of which the root has
one, let the table be full; two `filp` and three descriptors let each of these run out first; numbers
give out before sectors, so the null pointer of `new_inode` is met. In `files_disk` the directory's first
sector holds three files, the fewest for which it shrinks past a live entry; a fourth overruns the
sector; the entry of the long name may have a neighbour or none; numbers and sectors give out
together, the closest case for `NumbersSuffice`. `MaxCnt` keeps a user from having
refused unlinks for ever, each of which takes a reference. In `read_write` requests of two, four and
six or eight bytes and of none begin and end within a word's sector, at its boundary, at the end of the file and behind
it; `Reach` lets them go one sector past the file. Registers that count to two put a carry between any two
of them into the addresses, and make requests of three sectors the ones the drive does not finish; the
buffer is a multiple of what they count, as FSBUF_SIZE is (2048 sectors and 256). The disks have a
chain of three tables (the fewest for which its two bases differ), one that is longer than there is
place for, and a root partition at the end of what the address can hold. Sizes and positions are
multiples of the word there, for `copy_unit` shows what happens otherwise. Users and names are
interchangeable, and so are descriptors.

In `terminal` a ring of two codes is full within one key of several codes. Five places leave the third line
of a console incomplete, as the 5461 of the code leave the 69th: that is where a newline meets the end.
Two prints are the fewest for one to do damage and the other to meet it. `OrderMatters`, an action
constraint, leaves out orders that make no difference: a code that comes while TASK_TTY does not look
at the ring may as well come just before it looks. `Bounded` says which keys are down together and how
much happens in all: three events, four when the console is scrolled back by hand. The deadlock check is
off, for the keys and prints of a behaviour are used up, and TASK_TTY may look for an ACK for ever.

The system may stop in all of these, so deadlocks are not looked for: TASK_FS halts, waits for the
console, or copies for ever; the tests end.

Assumed of the users of files: they close what they have open and pass no empty path but "/", whose
name is empty; they do not write to the directory itself, and read and write through descriptors that
they opened with O_RDWR (another gets -1 and nothing changes, `fs.c:210`). Assumed of a file that is read or
written: it lies in the first 2 GB of its partition, for a position on the disk is a signed 32-bit product (`fs.c:256`). Assumed of memory: the process table is zero
at the start. Assumed of the disk: the root partition exists, the tables are in sectors of their own, and the
address has room for all of it. Assumed of the keyboard: it sends the codes that `keymap` expects, in
order, acknowledges each byte it gets behind what it is sending, and goes on sending. Assumed of prints: any
character at any time, by any process that is no task of the terminal; the red screen of a task that
panics is left out, since the system halts then. The directory, the first sector map and the inode map are formatted at each boot, so
nothing is recovered after a crash.

Fairness. In `tasks_live`, each process that can run makes its next call (`EveryoneRuns`, checked
in `scheduler`, is the reason), users owe nothing while no call of theirs is under way, and the drive
finishes what it was told and has its interrupts taken. Nothing is assumed of time: the clock is no actor
of `Tasks`, and `WaitforTimeout` is as possible as `WaitforTest` at each poll. In `scheduler`, the kernel's own code runs
on, and the clock interrupts process code again and again (strong fairness: that code
alternates with system calls). The last is an assumption about the world: a process that were inside
a system call at every tick would keep the processor, since `clock_handler` drops those ticks.

### What the runs found

* `console_open`. `drivers.h` names TASK_TTY the "console driver"; `do_open` sends it a message and
  waits for the answer (fs.c:174), but `task_tty` never calls `send_recv`. TASK_FS is lost to
  everybody from then on.
* `early_interrupt`. `sys_sendint` is there "to send int message to task", but for a task that does
  not wait yet it keeps only a flag; `msg_receive` then copies from `p_msg`, which is 0 or stale.
  TASK_HD does not look at what it receives, so the driver works all the same.
* `file_tests`. The directory's new size after an unlink of its last entry is the number of live
  entries before it, though some of these places may be holes: live entries are left behind the end.
  TestB loses its file to TestA so, and reads from descriptor -1, which fails the assertion at
  fs.c:208. The other order of the same unlinks fails `assert(flag)` (link.c:148).
* `copy_unit`. `kmemcpy` says "Copy unit is byte" and copies double words.
* Not findings, since no text of the repository says otherwise, but in the models: an unlink that is
  refused keeps its reference, so that the file can never be removed (`CountsCover` says "at least"
  for this reason); an entry past a full sector is written past the buffer, and a copy of that sector to
  the next (`Overrun`); the terminator of a name of full length clears the low byte of the inode
  number behind it (`Filled`); a read over the end of a file goes on to the end of its request and
  makes the file grow, and a write past its capacity goes into the next file (`CopyPass`); a request for
  no byte copies all of memory, and one that goes as far as 256 sectors are from its first one is never
  answered, since the drive is given the count in one byte (`HangCause`). The last means that `do_rdwt`'s
  loop, which is there for requests that do not fit its buffer, never makes a second pass.
* Nor are these, in `Terminal`: a key that is pressed right behind an ACK overwrites it in the port, and
  `kb_ack` waits for it for ever (`StuckCause`); codes that are dropped leave a shift key pressed
  (`ModifiersTrue` says when); a print between two accesses of TASK_TTY loses a character, or moves the cursor
  behind the last whole line, where the loop of `out_char` has no end and the next print hangs the
  kernel, or lets a backspace write before video memory (`ConsoleInside` and `EchoAtomic` hold if
  there is no such print, `EchoAtomic` if none is a backspace either); and the display may keep an older cursor (`ScreenShowsConsole`).
* Close to a finding too: two assertions of `msg_receive` can fail for a task that takes
  interrupts (`WedgeCause` says which and when). TASK_HD avoids both by what it calls when, which
  `NoMessageStops` and `InterruptsAwaited` check.
* And this: `waitfor` looks at the time first and at the drive after it, and one task may have to wait for
  its turn longer than HD_TIMEOUT (500 ms; TASK_TTY never blocks and has a share of 600 ticks). Where
  `WaitforTimeout` leads to "hd error." of `hd_cmd_out`, the drive is always idle (`DriveInv` in
  `TasksProofs`): a drive that keeps to the protocol never causes that panic, only the wait for a turn does.
  The code promises nothing here, so this is no finding.

## The proofs

`IpcProofs` proves of `Spec`, for any sets of processes, tasks, buffers and messages: `TypeOK`,
`QueueInv` (with `FieldsInv`), `NoLostWakeup`, `DeadlockExact`, `WedgeCause`, and the action property
`ReleasedByPartner`. The assumption is `IpcAssumption`: the special values -1, -2, -3 and 0 are
nobody's name, and interrupts go to tasks. Only the refinement needs the set of processes to be finite.

The inductive invariant is `IpcInv`, the conjunction of all of these invariants. None is
inductive alone. That a receive finds its sender in the list needs `QueueInv`; that unlinking keeps
the list right needs `FieldsInv`, for a process is in one list at most because it has one
`p_sendto`; that a copied message goes somewhere needs that whoever waits has a `p_msg`. "The list
ends" is stated without counting: every set of senders to a process has a last and a first element
(`EndsInv`). That makes the end of the list, which `msg_send` looks for, exist, and be unique, with no
induction. In the same way `Orbit` is the least closed set, and the lemmas `OrbitStart`,
`OrbitClosed` and `OrbitLeast` are all that is used of it. `CycleWhenReported` is the heart of
`DeadlockDetectionExact`: the processes the walk meets, once the caller blocks, are a cycle exactly
if one of them sends to the caller.

`RendezvousImplemented` proves that `Ipc` implements `Rendezvous`, for any finite set of processes
(`ProcsFinite`, `proc_table` is an array). `QueueOf(d)` is *the* sequence that follows the list from
`q_sending[d]` to its end (`Lists`). That there is only one, that it meets no sender twice and misses none
(`ListsAgree`, `ListsInjective`, `ListsCover`) needs no induction along the list: each of them takes the
first element, which `EndsInv` provides, of a set of senders where it would fail. That there is one at all
is an invariant (`QueuesListed`): the steps that change a list append to the sequence
(`ListsAppend`, `QueueAppended`) or take one element out of it (`ListsRemove`, `QueueShortened`). The other
half of `RunningInv`, `BlockedSigned`, is that the message in a blocked sender's buffer carries its
name, by which `Rendezvous` finds out whom to release. Then one lemma per outcome of a call names the
step of `Rendezvous` that it is (`SendBlocksIsEnqueue`, `ReceiveTakesIsTake` and so on); a call after
which the kernel does not run is `Stop`.

`TasksProofs` proves every invariant of `Tasks`: `TasksTypeOK`, `NoMessageStops`, `InterruptsAwaited`,
`DriveProtocol` and `OwnAnswer`, for any users, any size of request and number of partition tables, and
whether consoles may be opened or not, with a time-out of `waitfor` at any poll and a failed check of TASK_FS
at any request. Assumed are `TasksAssumption` (who the processes are, and
that `HARD_INT` and `DEV_OPEN` have one value, as in `ipc.h` and `message.h`) and `TypesAssumption`
(the messages that the processes make are in the constant `Types` of `Ipc`). The invariant `TasksInv` is
`IpcInv` and, for each process, what it is doing at each label (`UserInv`, `SysInv`, `HdInv`, `FsInv`,
`TtyInv`): with whom it is blocked, with which buffer, and what the buffer holds. A caller is tied to its
server by `Awaits`: either it is about to receive or it does receive from there, and from nowhere else.
That is why an answer is never the answer to somebody else, and why nobody sends to who sends to him:
`NoRingOfSenders` says there is never a ring, so that no deadlock is ever reported. `DriveInv` ties the
driver's place in its loop to the state of the drive and to the one interrupt that may be pending, on its
line or as `has_int_msg`. `CallersKeepTheRules` says that each step of `Tasks` is one of `Ipc` or none:
what is proved of arbitrary callers holds of these.

`SchedulerProofs` proves `SchedulerTypeOK`, `CurrentCanRun` and `SharesKept` (that is
`ChoiceIsGreatest` and `RefillWhenUsedUp`) for any process table and priorities, from
`SchedulerAssumption`. They are inductive together with `NothingFound` (no choice is pending
during a refill).

`FilesProofs` proves `DescriptorsOwned`, `CountsCover` and that `Files` implements `Handles`, for any
numbers of users, descriptors, inodes and sectors, from `FilesAssumption` (the numbers are positive, the
set-up fits). The inductive invariant is `FilesInv`. Counts alone are not inductive: `new_inode`
overwrites the count of the slot that `get_inode` finds, so one needs that an inode with references is
in memory once (`InMemoryOnce`), and that what a descriptor leads to has its number in the map
(`OpenOnDisk`), so that no new file gets that slot. An unlink that is refused may leave an inode in memory
whose number is free, when the directory names a file that has gone; `OpenOnDisk` is therefore about
descriptors and not about the table. `KeptOnDisk` keeps the consoles from being removed. Nothing is
assumed of the directory, whose entries may be lost, doubled or spoilt: what is proved of open files
holds all the same.

`DiskProofs` goes on from there to what is on disk. A step is one of six kinds (`Requests`): nothing, but to
TASK_FS itself; an inode counted once more or once less; a file created or removed; or the write
through the null pointer. For `CopiesAgree` and `MapsAgree` the invariant is
`DiskInv`: `FilesInv`, that inodes in memory are those on disk (`Copies`), and that a bit of a map is set
exactly for an inode or a sector of one (`Maps`). The map's equation is stated bit by bit, and sectors of
two files are disjoint by themselves: freeing the bits of one file leaves those of all others only
for this reason. Bit 0 of the sector map is set and belongs to no file, which the
equation needs as well. `NumbersSuffice` is a pigeonhole argument (`Room`): the files at hand and the one
there is still room for begin at least NR_DEFAULT_FILE_SECTS sectors apart, so dividing gives each
a place of its own of the `MostFiles` that fit. For this the numbers in use must have no gap where files
could hide, which `Maps` gives, and no file may be a device (`Placed`). The same lemma bounds each
number that is ever given out (`MaxNumber`).

`EntriesInUse` is proved if `MaxNumber` fits in a byte, and that is needed: of a number above 255 the
terminator of a long name in the entry before leaves another number, which may be free or another's. The
invariant `DirInv` is about the first sector only, whatever the rest is; that the directory is never empty
(its own entry is first and nobody removes it) keeps an overrun out of the first sector. `FilesTypeOK`
is proved if the sectors of the directory have as many entries as there are inode numbers (`DirectoryHolds`),
which those of the code do: 2048 sectors of 32 entries, and at most 4096 numbers in the one sector of
the inode map. This is needed, for no line of the code asks whether the directory is full. Overruns are
included, which leave entries twice or not at all: what bounds the directory is a count (`Rooted`). The entries
in use within its size are fewer than the bits set in the inode map: an entry is added along with
a bit, an overrun too adds one at most (a copy), and with the bit of a
removed file goes an entry that names it. A directory without a hole has as many entries in use as its
size, so where it grows there is room (`EntryLeft`). The other condition, that of `EntriesInUse`, is met where the
partition has room for some 250 files of 1 MB; the run `files_disk` meets both.

`ReadWriteProofs` proves every invariant of `ReadWrite`. `HangCause` and `PositionsKept` hold for sectors, files, buffers and requests of any
size, from `ReadWriteAssumption`, whose only condition on the hardware is that the buffer holds more sectors
than a byte counts. The invariant `ReadWriteInv` says what a request is before its first pass (`Begun`)
and behind its last (`Passed`). There is nothing in between: a pass that the drive finishes is of all
sectors of the request (`MovedIsAll`), since a chunk that the buffer cut short has too many.
`PartitionsFound` is proved for every disk that a partitioner makes (`FdiskMade`: tables in sectors of
their own, unused entries zero), with chains of any length. What `partition` reads along a chain is a
recursive function; the lemma `ChainIsUnique` exhibits a function that satisfies its equations and shows it
to be the only one, by the least place where two would differ (`LeastNumber`). `WriteExact` and
`ReadExact` hold for requests of whole words (`WholeWords`), on every such disk: `DataInv` says which bytes
have been moved, and to where. `copy_unit` shows what other lengths do.

`KeyboardProofs` proves `RingIsFifo`, `ModifiersTrue` and `StuckCause`. That the ring implements
`Fifo` holds for any size and any codes. The invariant `RingInv` says that head, tail and count fit together;
the rest is arithmetic of places (`PlaceNext`, `PlaceFromNext`). For the shift keys and locks, `Leads(a,
bytes, b)` says that a reader in state a that reads all these bytes is in state b then; it is a run, a
sequence of states, so it needs no recursion. The invariant `LeadsInv` is that, as long as no code was
dropped, what is in the ring and what the keyboard still sends leads from where `keyboard_read` is (`Now`) to
the keys as they are (`Goal`); an ACK, which comes at any time, leads nowhere else (`AckLeftOut`). Assumed of the
keys is `CodesAssumption`: they send the codes that `keymap` expects for them, in order. `AckInv`
says where the ACK is that `kb_ack` waits for.

`ConsoleProofs` proves every invariant of `Terminal` itself, for any number of consoles, any memory and screen.
For `ConsoleInside`, `InsideInv` has, for each console that no print has raced on, that the cursor is inside and
the start is a whole number of lines behind the first (`Aligned`, from which it follows that the loop of
`out_char` ends), and what TASK_TTY relies on between two accesses (`Relies`): that is what a
print in between breaks, so it is stated for the console in question only. For `ScreenShowsConsole`,
`ScreenInv` says what the registers hold while they are set, one after the other. For `EchoAtomic`, `EchoInv` says
that the consoles as they would be (`ideal`) are what TASK_TTY is about to make of those that are there:
`Aim` is the console after the rest of the character under way, `Owed` whether its cell is still to be
written. The heart is that a print of the kernel and the rest of the character may change places
(`EchoPrint`). They may not if the print is a backspace and the loop of `out_char` is still to scroll: the cursor
then goes back over the end of a line that has scrolled in one order and not in the other. TLC finds
that state as soon as backspaces are printed, and no process of the repository prints one, so the
theorem has the hypothesis `NoBackspacePrinted`. So has the one about `TerminalTypeOK`, whose
invariant `SoundInv` is what is left of `InsideInv` when prints do race: the cursor is not before its console.

Only model-checked: liveness (`FsAnswers`, `TicksAnswer`, `ScheduleEnds`, `EveryoneRuns`), which needs fairness,
and the findings. Every invariant and action property of the passing runs, and each of the three refinements, is
stated by a theorem. A recursive operator closes a module to the provers, and induction over data cannot be
cited; what is proved above of chains, runs and queues is stated with functions, sets and least
numbers instead.

## Not modelled, and the plan

Not modelled for good: the boot code, protected-mode tables and paging (written once, before anything
runs), port access, the contents of what is printed, `obsolete/`. A process that passes a bad
argument to `sendrec` fails an assertion at once; callers are assumed not to.

Not modelled yet, in the order of what they would add:

1. mkfs on a partition of a given size: the sector map has more bits than the partition has sectors
   (`open.c:49`). `Files` would take the size from the layout that `ReadWrite` has.
2. `close` of what is not open (`fs.c:193`), a null pointer whose target is the beginning of memory.
3. READ and WRITE of a character device, should its open ever return.
4. Formatting of numbers, which only the text of messages uses.
