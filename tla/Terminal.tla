------------------------------ MODULE Terminal ------------------------------
(***************************************************************************)
(* TASK_TTY's loop (kernel/tty.c) over the terminals: it reads the keys    *)
(* of the one in front, echoes one key of each, and writes to the consoles *)
(* (kernel/console.c).  The kernel writes to console 0 as well, for a      *)
(* process that calls write or printx.                                     *)
(*                                                                         *)
(* TASK_TTY is compiled without optimisation and may lose the processor    *)
(* between any two of its accesses to a CONSOLE: each is a step.  What the *)
(* kernel writes for others is one step per character: ticks are dropped   *)
(* meanwhile.  set_cursor and set_video_start_addr turn interrupts off.    *)
(***************************************************************************)
EXTENDS Keyboard

CONSTANTS
    NR_CONSOLES, SCREEN_WIDTH, SCREEN_SIZE, v_mem_limit,
    TTY_IN_BYTES,
    Printed,        \* the characters that processes print
    MaxPrinted      \* bound: how many of them

ASSUME TerminalAssumption ==
    /\ NR_CONSOLES \in Nat \ {0} /\ TTY_IN_BYTES \in Nat \ {0}
    /\ SCREEN_WIDTH \in Nat \ {0} /\ SCREEN_SIZE \in Nat \ {0}
    /\ v_mem_limit \in Nat /\ v_mem_limit > SCREEN_SIZE
    /\ MaxPrinted \in Nat

Consoles == 0..(NR_CONSOLES - 1)
original_addr(c) == c * v_mem_limit
\* Of video memory, and the one before it.
Cells == -1..(NR_CONSOLES * v_mem_limit - 1)
Blank == " "
Outside == "not of the screen"
Newline == "newline"
Backspace == "backspace"

VARIABLES
    console,            \* current_start_addr and cursor of each
    current_console,
    v_mem,              \* video memory
    crtc,               \* external: the cursor and the start that are displayed
    in_buf,             \* of each terminal
    pc, p_tty,          \* TASK_TTY: where it is, for which terminal
    back,               \* where scroll_screen, flush and select_console return to
    ch, p_vmem, reg,    \* locals of out_char; what was loaded last
    printed,            \* how many characters processes have printed
    hung,               \* the kernel is in the loop of out_char for ever
    ideal,              \* history: the consoles, if each character were one step
    raced,              \* history: a print came between TASK_TTY's accesses to console 0
    late                \* history: one came between a load and the port it is for

consoleVars == <<console, v_mem, ideal>>
screenVars == <<current_console, crtc, late>>
localVars == <<ch, p_vmem, reg, back>>
printVars == <<printed, hung, raced>>
terminalVars == <<keyboardVars, consoleVars, screenVars, in_buf, pc, p_tty, localVars, printVars>>

\* At boot the cursor stands behind what was printed so far.
TerminalInit ==
    /\ KeyboardInit
    /\ \E pos \in 0..(SCREEN_SIZE - 1) :
          /\ console = [c \in Consoles |-> [start |-> original_addr(c),
                            cursor |-> IF c = 0 THEN pos ELSE original_addr(c)]]
          /\ crtc = [start |-> 0, cursor |-> pos]
    /\ v_mem = [x \in Cells |-> IF x = -1 THEN Outside ELSE Blank]
    /\ ideal = [consoles |-> console, mem |-> v_mem]
    /\ current_console = 0 /\ late = FALSE
    /\ in_buf = [c \in Consoles |-> EmptyRing(TTY_IN_BYTES, Blank)]
    /\ pc = "read" /\ p_tty = 0 /\ back = "read"
    /\ ch = Blank /\ p_vmem = 0 /\ reg = 0
    /\ printed = 0 /\ hung = FALSE /\ raced = FALSE

-----------------------------------------------------------------------------
(* out_char, its conditions and assignments. *)
\* Mutant: the last place of the console counts as free.
FitsLast(c, x, cursor) ==
    CASE x = Newline -> cursor < original_addr(c) + v_mem_limit - SCREEN_WIDTH
      [] x = Backspace -> cursor > original_addr(c)
      [] OTHER -> cursor < original_addr(c) + v_mem_limit

Fits(c, x, cursor) ==
    CASE x = Newline -> cursor < original_addr(c) + v_mem_limit - SCREEN_WIDTH
      [] x = Backspace -> cursor > original_addr(c)
      [] OTHER -> cursor < original_addr(c) + v_mem_limit - 1

Moved(c, x, cursor) ==
    CASE x = Newline -> original_addr(c)
                     + SCREEN_WIDTH * (1 + (cursor - original_addr(c)) \div SCREEN_WIDTH)
      [] x = Backspace -> cursor - 1
      [] OTHER -> cursor + 1

\* The cell that changes.
Written(mem, x, cell) ==
    CASE x = Newline -> mem
      [] x = Backspace -> [mem EXCEPT ![cell - 1] = Blank]
      [] OTHER -> [mem EXCEPT ![cell] = x]

Below(con) == con.cursor >= con.start + SCREEN_SIZE
CanScroll(c, start) == start + SCREEN_SIZE < original_addr(c) + v_mem_limit

\* The loop of out_char: how many rounds until the cursor is on the screen, and
\* where it starts then.  If scroll_screen refuses before, the loop has no end.
Rounds(con) == IF Below(con) THEN 1 + (con.cursor - con.start - SCREEN_SIZE) \div SCREEN_WIDTH ELSE 0
Scrolled(c, con) ==
    LET start == con.start + Rounds(con) * SCREEN_WIDTH IN
    [con EXCEPT !.start = IF Rounds(con) = 0 \/ CanScroll(c, start - SCREEN_WIDTH) THEN start ELSE -1]

\* out_char as one step, on consoles cs and memory mem.
OutChar(c, x, cs, mem) ==
    IF Fits(c, x, cs[c].cursor)
    THEN LET moved == [cs[c] EXCEPT !.cursor = Moved(c, x, cs[c].cursor)] IN
         [consoles |-> [cs EXCEPT ![c] = Scrolled(c, moved)], mem |-> Written(mem, x, cs[c].cursor)]
    ELSE [consoles |-> [cs EXCEPT ![c] = Scrolled(c, @)], mem |-> mem]

-----------------------------------------------------------------------------
(* TASK_TTY. *)
Goes(from, to) == pc = from /\ pc' = to /\ ~hung
Still == UNCHANGED <<keyboardVars, in_buf, p_tty, printVars>>

tty_do_read ==
    /\ \/ /\ p_tty = current_console /\ kb_in.count > 0
          /\ Goes("read", "keyboard") /\ FirstByte
       \/ /\ p_tty # current_console \/ kb_in.count = 0
          /\ Goes("read", "write") /\ UNCHANGED keyboardVars
    /\ UNCHANGED <<consoleVars, screenVars, localVars, in_buf, p_tty, printVars>>

ReadOn ==
    /\ Goes("keyboard", "keyboard") /\ keyboard_read_on
    /\ UNCHANGED <<consoleVars, screenVars, localVars, in_buf, p_tty, printVars>>

NothingRead ==
    /\ Goes("keyboard", "write") /\ at = "idle"
    /\ UNCHANGED <<keyboardVars, consoleVars, screenVars, localVars, in_buf, p_tty, printVars>>

\* Keys with FLAG_EXT, as far as keymap has them, and what the others put.
Ext == Modifiers \cup Locks \cup {"ENTER", "BACKSPACE", "UP", "DOWN", "DELETE", "F1", "F2", "F3"}
    \cup DOMAIN PadSign \cup DOMAIN PadNumber
Chars(raw) == CASE raw = "ENTER" -> Newline [] raw = "BACKSPACE" -> Backspace [] OTHER -> raw
Puts(raw) == raw \notin Ext \/ raw \in {"ENTER", "BACKSPACE"}

put_key(x) ==
    in_buf' = IF in_buf[p_tty].count < TTY_IN_BYTES
              THEN [in_buf EXCEPT ![p_tty] = RingPut(@, TTY_IN_BYTES, x)] ELSE in_buf

FunctionKeys == <<"F1", "F2", "F3">>
ScrollKeys == [UP |-> "up", DOWN |-> "down"]
Selects(n) == FunctionKeys[n] = key.raw /\ {"ALT_L", "ALT_R"} \cap key.flags # {} /\ n <= NR_CONSOLES
Scrolls == key.raw \in DOMAIN ScrollKeys /\ Shifted \cap key.flags # {}

InputChar ==
    /\ Goes("keyboard", "write") /\ Puts(key.raw)
    /\ put_key(Chars(key.raw))
    /\ UNCHANGED <<consoleVars, screenVars, localVars>>

\* scroll_screen, called for a key.
InputScroll ==
    /\ Scrolls /\ Goes("keyboard", ScrollKeys[key.raw])
    /\ back' = "write"
    /\ UNCHANGED <<consoleVars, screenVars, ch, p_vmem, reg, in_buf>>

select_console ==
    /\ Goes("keyboard", "flush cursor")
    /\ \E n \in DOMAIN FunctionKeys : Selects(n) /\ current_console' = n - 1
    /\ back' = "write"
    /\ UNCHANGED <<consoleVars, crtc, late, ch, p_vmem, reg, in_buf>>

InputNothing ==
    /\ Goes("keyboard", "write")
    /\ ~Puts(key.raw) /\ ~Scrolls /\ \A n \in DOMAIN FunctionKeys : ~Selects(n)
    /\ UNCHANGED <<consoleVars, screenVars, localVars, in_buf>>

tty_input_process ==
    /\ at = "key" /\ KeyTaken
    /\ UNCHANGED <<kb_in, modifiers, locks, got, scan_code, rest, deviceVars>>
    /\ InputChar \/ InputScroll \/ select_console \/ InputNothing
    /\ UNCHANGED <<p_tty, printVars>>

NextTty == p_tty' = (p_tty + 1) % NR_CONSOLES

NothingToWrite ==
    /\ Goes("write", "read") /\ in_buf[p_tty].count = 0
    /\ NextTty
    /\ UNCHANGED <<keyboardVars, consoleVars, screenVars, localVars, in_buf, printVars>>

\* tty_do_write, up to out_char's first line.
tty_do_write ==
    /\ Goes("write", "out") /\ in_buf[p_tty].count > 0
    /\ ch' = RingFirst(in_buf[p_tty])
    /\ in_buf' = [in_buf EXCEPT ![p_tty] = RingTake(@, TTY_IN_BYTES)]
    /\ UNCHANGED <<keyboardVars, consoleVars, screenVars, p_vmem, reg, back, p_tty, printVars>>

-----------------------------------------------------------------------------
(* out_char, as TASK_TTY runs it. *)
Con == console[p_tty]

\* p_vmem is taken; from here on the character counts as written.
OutStarts ==
    /\ Goes("out", "test")
    /\ p_vmem' = Con.cursor
    /\ ideal' = OutChar(p_tty, ch, ideal.consoles, ideal.mem)
    /\ UNCHANGED <<console, v_mem, screenVars, ch, reg, back>> /\ Still

OutTest ==
    /\ \/ Fits(p_tty, ch, Con.cursor) /\ ch \in {Newline, Backspace} /\ Goes("test", "load")
       \/ Fits(p_tty, ch, Con.cursor) /\ ch \notin {Newline, Backspace} /\ Goes("test", "cell")
       \/ ~Fits(p_tty, ch, Con.cursor) /\ Goes("test", "loop")
    /\ UNCHANGED <<consoleVars, screenVars, localVars>> /\ Still

\* Before the cursor moves for a character, and behind for a backspace.
OutCell ==
    /\ \/ Goes("cell", "load") \/ Goes("backspace cell", "loop")
    /\ v_mem' = Written(v_mem, ch, p_vmem)
    /\ UNCHANGED <<console, ideal, screenVars, localVars>> /\ Still

OutLoad ==
    /\ Goes("load", "store")
    /\ reg' = Moved(p_tty, ch, Con.cursor)
    /\ UNCHANGED <<consoleVars, screenVars, ch, p_vmem, back>> /\ Still

\* Mutant: a backspace moves the cursor and leaves the character.
OutStoreOnly ==
    /\ Goes("store", "loop")
    /\ console' = [console EXCEPT ![p_tty].cursor = reg]
    /\ UNCHANGED <<v_mem, ideal, screenVars, localVars>> /\ Still

OutStore ==
    /\ Goes("store", IF ch = Backspace THEN "backspace cell" ELSE "loop")
    /\ console' = [console EXCEPT ![p_tty].cursor = reg]
    /\ UNCHANGED <<v_mem, ideal, screenVars, localVars>> /\ Still

\* The loop's condition; the last flush is in either case the next to run.
OutLoop ==
    /\ IF Below(Con) THEN Goes("loop", "down") /\ back' = "loop"
                     ELSE Goes("loop", "flush") /\ back' = "next"
    /\ UNCHANGED <<consoleVars, screenVars, ch, p_vmem, reg>> /\ Still

OutEnds ==
    /\ Goes("next", "read")
    /\ NextTty /\ ch' = Blank /\ p_vmem' = 0 /\ reg' = 0
    /\ UNCHANGED <<keyboardVars, consoleVars, screenVars, in_buf, back, printVars>>

out_char == OutStarts \/ OutTest \/ OutCell \/ OutLoad \/ OutStore \/ OutLoop \/ OutEnds

\* scroll_screen: the test, the load and the store of +=.
MayScroll(dir) == IF dir = "down" THEN CanScroll(p_tty, Con.start) ELSE Con.start > original_addr(p_tty)
LoadOf(dir) == IF dir = "down" THEN "down load" ELSE "up load"
Distance(dir) == IF dir = "down" THEN SCREEN_WIDTH ELSE -SCREEN_WIDTH

ScrollTest(dir) ==
    /\ Goes(dir, IF MayScroll(dir) THEN LoadOf(dir) ELSE "flush")
    /\ UNCHANGED <<consoleVars, screenVars, localVars>> /\ Still

ScrollLoad(dir) ==
    /\ Goes(LoadOf(dir), "scroll store")
    /\ reg' = Con.start + Distance(dir)
    /\ UNCHANGED <<consoleVars, screenVars, ch, p_vmem, back>> /\ Still

ScrollStore ==
    /\ Goes("scroll store", "flush")
    /\ console' = [console EXCEPT ![p_tty].start = reg]
    /\ ideal' = IF back = "loop" THEN ideal ELSE [ideal EXCEPT !.consoles[p_tty].start = reg]
    /\ UNCHANGED <<v_mem, screenVars, localVars>> /\ Still

scroll_screen == (\E dir \in {"down", "up"} : ScrollTest(dir) \/ ScrollLoad(dir)) \/ ScrollStore

flush ==
    /\ Goes("flush", IF p_tty = current_console THEN "flush cursor" ELSE back)
    /\ UNCHANGED <<consoleVars, screenVars, localVars>> /\ Still

\* set_cursor and set_video_start_addr: the argument is loaded, then both bytes
\* go to the ports with interrupts off.
FlushLoad ==
    /\ \/ Goes("flush cursor", "set cursor") /\ reg' = console[current_console].cursor
       \/ Goes("flush start", "set start") /\ reg' = console[current_console].start
    /\ late' = (late /\ pc # "flush cursor")
    /\ UNCHANGED <<consoleVars, current_console, crtc, ch, p_vmem, back>> /\ Still

FlushSet ==
    /\ \/ Goes("set cursor", "flush start") /\ crtc' = [crtc EXCEPT !.cursor = reg]
       \/ Goes("set start", back) /\ crtc' = [crtc EXCEPT !.start = reg]
    /\ UNCHANGED <<consoleVars, current_console, late, localVars>> /\ Still

task_tty ==
    \/ tty_do_read \/ ReadOn \/ NothingRead \/ tty_input_process
    \/ NothingToWrite \/ tty_do_write
    \/ out_char \/ scroll_screen \/ flush \/ FlushLoad \/ FlushSet

-----------------------------------------------------------------------------
(* sys_write and sys_printx of another process, whose nr_tty is 0. *)
BetweenAccesses ==
    \/ p_tty = 0 /\ pc \in {"test", "cell", "load", "store", "backspace cell",
                            "down", "down load", "up", "up load", "scroll store"}

\* Mutant: the kernel shows console 0 whether it is in front or not.
sys_writeShows(x) ==
    /\ printed < MaxPrinted /\ printed' = printed + 1
    /\ ~hung
    /\ LET after == OutChar(0, x, console, v_mem) IN
       /\ v_mem' = after.mem /\ after.consoles[0].start # -1
       /\ console' = after.consoles /\ crtc' = after.consoles[0]
    /\ ideal' = OutChar(0, x, ideal.consoles, ideal.mem)
    /\ raced' = (raced \/ BetweenAccesses)
    /\ UNCHANGED <<keyboardVars, current_console, in_buf, pc, p_tty, localVars, hung, late>>

sys_write(x) ==
    /\ printed < MaxPrinted /\ printed' = printed + 1
    /\ ~hung
    /\ LET after == OutChar(0, x, console, v_mem) IN
       /\ v_mem' = after.mem
       /\ IF after.consoles[0].start = -1
          THEN hung' = TRUE /\ UNCHANGED <<console, crtc>>
          ELSE /\ console' = after.consoles
               /\ crtc' = IF current_console = 0 THEN after.consoles[0] ELSE crtc
               /\ UNCHANGED hung
    /\ ideal' = OutChar(0, x, ideal.consoles, ideal.mem)
    /\ raced' = (raced \/ BetweenAccesses)
    /\ late' = (IF current_console = 0 /\ ~hung' THEN pc \in {"set cursor", "set start"} ELSE late)
    /\ UNCHANGED <<keyboardVars, current_console, in_buf, pc, p_tty, localVars>>

PrintedByProcess == \E x \in Printed : sys_write(x)

Typed ==
    /\ ~hung
    /\ Device
    /\ UNCHANGED <<consoleVars, screenVars, in_buf, pc, p_tty, localVars, printVars>>

TerminalNext == task_tty \/ PrintedByProcess \/ Typed

TerminalSpec == TerminalInit /\ [][TerminalNext]_terminalVars

-----------------------------------------------------------------------------
ConsoleType == [start : Nat, cursor : Nat]
PC == {"read", "keyboard", "write", "out", "test", "cell", "load", "store", "backspace cell",
       "loop", "next", "down", "down load", "up", "up load", "scroll store",
       "flush", "flush cursor", "set cursor", "flush start", "set start"}

\* The types; and a terminal holds one key at most, that TASK_TTY has just put
\* there and is about to write: put_key never finds the ring full.
TerminalTypeOK ==
    /\ kb_in \in Ring(KB_IN_BYTES, Byte)
    /\ modifiers \subseteq Modifiers /\ locks \subseteq Locks
    /\ got \in Byte /\ port \in Byte
    /\ console \in [Consoles -> ConsoleType] /\ crtc \in ConsoleType
    /\ current_console \in Consoles /\ p_tty \in Consoles
    /\ DOMAIN v_mem = Cells
    /\ pc \in PC /\ back \in {"read", "write", "loop", "next"}
    /\ reg \in Nat /\ p_vmem \in Nat
    /\ hung \in BOOLEAN /\ raced \in BOOLEAN /\ late \in BOOLEAN
    /\ \A c \in Consoles : in_buf[c].count <= (IF c = p_tty /\ pc = "write" THEN 1 ELSE 0)

Inside(c, x) == original_addr(c) <= x /\ x < original_addr(c) + v_mem_limit
CursorInside(c) == Inside(c, console[c].cursor) /\ original_addr(c) <= console[c].start
LoopEnds == ~hung /\ (pc = "down" /\ back = "loop" => CanScroll(p_tty, Con.start))

\* A console's cursor stays in the console, nothing is written before video
\* memory and the loop of out_char ends, for TASK_TTY and for the kernel, unless
\* the kernel wrote to console 0 between two of TASK_TTY's accesses to it.  The
\* other consoles are safe from that.
ConsoleInside ==
    /\ \A c \in Consoles \ {0} : CursorInside(c)
    /\ ~raced => CursorInside(0) /\ v_mem[-1] = Outside /\ LoopEnds

AtRest == pc \in {"read", "keyboard", "write", "out"}

\* What is typed and what is printed comes out as if each character were
\* written in one step, unless the kernel wrote between TASK_TTY's accesses, or
\* printed a backspace, which could take back a character TASK_TTY is writing.
EchoAtomic == AtRest /\ ~raced => console = ideal.consoles /\ v_mem = ideal.mem

\* Between two characters the display shows the console in front and
\* its cursor, unless the kernel wrote between TASK_TTY's load of an
\* address and the ports it was for; the next character mends that.
ScreenShowsConsole == AtRest /\ ~late => crtc = console[current_console]
=============================================================================
