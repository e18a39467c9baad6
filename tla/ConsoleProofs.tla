--------------------------- MODULE ConsoleProofs ---------------------------
(***************************************************************************)
(* ConsoleInside, ScreenShowsConsole, EchoAtomic and TerminalTypeOK,       *)
(* proved of TerminalSpec for any number of consoles, any screen and       *)
(* memory and any keys typed; the last two if no backspace is printed.     *)
(***************************************************************************)
EXTENDS KeyboardProofs

ConsoleRecord == [start : Int, cursor : Int]

\* A start address is a number of lines behind the first.
Aligned(c, start) == \E k \in Nat : start = original_addr(c) + k * SCREEN_WIDTH

ConsoleOk(c, con) == Inside(c, con.cursor) /\ Aligned(c, con.start)

\* A console that the kernel has not written to behind TASK_TTY's back.
Safe(c) == c # 0 \/ ~raced

\* What TASK_TTY relies on between two of its accesses to console c.
Relies(c) ==
    /\ pc = "test" => p_vmem = console[c].cursor
    /\ pc \in {"cell", "load"} => p_vmem = console[c].cursor /\ Fits(c, ch, console[c].cursor)
    /\ pc = "cell" => ch # Backspace
    /\ pc = "store" => Inside(c, reg) /\ (ch = Backspace => original_addr(c) < p_vmem)
    /\ pc = "backspace cell" => original_addr(c) < p_vmem
    /\ pc = "down" /\ back = "loop" => Below(console[c])
    /\ pc = "up load" => original_addr(c) < console[c].start
    /\ pc = "scroll store" => Aligned(c, reg)

Busy == {"test", "cell", "load", "store", "backspace cell", "down", "up load", "scroll store"}

InsideInv ==
    /\ console \in [Consoles -> ConsoleRecord]
    /\ p_tty \in Consoles /\ current_console \in Consoles
    /\ back \in {"read", "write", "loop", "next"}
    /\ reg \in Int /\ p_vmem \in Int /\ DOMAIN v_mem = Cells
    /\ \A c \in Consoles : Safe(c) => ConsoleOk(c, console[c]) /\ (c = p_tty => Relies(c))
    /\ ~raced => v_mem[-1] = Outside /\ ~hung

-----------------------------------------------------------------------------
(* Addresses. *)

LEMMA ProductNat ==
    ASSUME NEW a \in Nat, NEW b \in Nat
    PROVE  a * b \in Nat
  OBVIOUS

LEMMA Floor ==
    ASSUME NEW w \in Nat \ {0}, NEW d \in Nat
    PROVE  d \div w \in Nat /\ w * (d \div w) <= d
  BY SMT

LEMMA FloorType ==
    ASSUME NEW w \in Nat \ {0}, NEW d \in Int
    PROVE  d \div w \in Int
  OBVIOUS

LEMMA Addresses ==
    /\ \A c \in Consoles : original_addr(c) \in Nat
    /\ SCREEN_WIDTH \in Nat \ {0} /\ SCREEN_SIZE \in Nat \ {0} /\ v_mem_limit \in Nat \ {0}
    /\ -1 \in Cells
  <1>1. /\ NR_CONSOLES \in Nat \ {0} /\ SCREEN_WIDTH \in Nat \ {0} /\ SCREEN_SIZE \in Nat \ {0}
        /\ v_mem_limit \in Nat \ {0}
    BY TerminalAssumption
  <1>2. \A c \in Consoles : original_addr(c) \in Nat
    BY <1>1, ProductNat DEF Consoles, original_addr
  <1>3. NR_CONSOLES * v_mem_limit \in Nat
    BY <1>1, ProductNat
  <1> QED  BY <1>1, <1>2, <1>3 DEF Cells

\* A cursor that fits moves within the console.
LEMMA MovedInside ==
    ASSUME NEW c \in Consoles, NEW x, NEW cursor \in Int
    PROVE  /\ Moved(c, x, cursor) \in Int
           /\ Inside(c, cursor) /\ Fits(c, x, cursor) => Inside(c, Moved(c, x, cursor))
  <1> DEFINE o == original_addr(c)
             W == SCREEN_WIDTH
             d == cursor - o
  <1>1. o \in Nat /\ W \in Nat \ {0} /\ v_mem_limit \in Nat \ {0} /\ d \in Int
    BY Addresses
  <1>2. Moved(c, x, cursor) \in Int
    <2>1. d \div W \in Int
      BY <1>1, FloorType
    <2>2. W * (1 + (d \div W)) \in Int
      BY <1>1, <2>1
    <2> QED  BY <1>1, <2>2 DEF Moved
  <1>3. ASSUME Inside(c, cursor), Fits(c, x, cursor)
        PROVE  Inside(c, Moved(c, x, cursor))
    <2>1. CASE x = Newline
      <3>1. d \in Nat
        BY <1>1, <1>3 DEF Inside
      <3> DEFINE lines == d \div W
      <3>2. lines \in Nat /\ W * lines <= d
        BY <1>1, <3>1, Floor
      <3>3. Moved(c, x, cursor) = o + W * (1 + lines)
        BY <2>1 DEF Moved, Newline, Backspace
      <3>4. cursor < o + v_mem_limit - W
        BY <1>3, <2>1 DEF Fits, Newline, Backspace
      <3> HIDE DEF lines
      <3>5. W * lines \in Nat /\ W * (1 + lines) = W + W * lines
        BY <1>1, <3>2
      <3> QED  BY <1>1, <3>2, <3>3, <3>4, <3>5 DEF Inside
    <2>2. CASE x = Backspace
      BY <1>1, <1>3, <2>2 DEF Inside, Fits, Moved, Newline, Backspace
    <2>3. CASE x # Newline /\ x # Backspace
      BY <1>1, <1>3, <2>3 DEF Inside, Fits, Moved
    <2> QED  BY <2>1, <2>2, <2>3
  <1> QED  BY <1>2, <1>3

\* One line more, and one line less.
LEMMA LineMore ==
    ASSUME NEW c \in Consoles, NEW start \in Int, NEW n \in Nat, Aligned(c, start)
    PROVE  Aligned(c, start + n * SCREEN_WIDTH)
  <1>1. original_addr(c) \in Nat /\ SCREEN_WIDTH \in Nat
    BY Addresses
  <1>2. PICK k \in Nat : start = original_addr(c) + k * SCREEN_WIDTH
    BY DEF Aligned
  <1>3. k + n \in Nat /\ (k + n) * SCREEN_WIDTH = k * SCREEN_WIDTH + n * SCREEN_WIDTH
    BY <1>1
  <1>4. k * SCREEN_WIDTH \in Nat /\ n * SCREEN_WIDTH \in Nat
    BY <1>1, ProductNat
  <1>5. start + n * SCREEN_WIDTH = original_addr(c) + (k + n) * SCREEN_WIDTH
    BY <1>1, <1>2, <1>3, <1>4
  <1> QED  BY <1>3, <1>5 DEF Aligned

LEMMA LineLess ==
    ASSUME NEW c \in Consoles, NEW start \in Int, Aligned(c, start), original_addr(c) < start
    PROVE  Aligned(c, start - SCREEN_WIDTH)
  <1>1. original_addr(c) \in Nat /\ SCREEN_WIDTH \in Nat
    BY Addresses
  <1>2. PICK k \in Nat : start = original_addr(c) + k * SCREEN_WIDTH
    BY DEF Aligned
  <1>3. k # 0
    BY <1>1, <1>2
  <1>4. k - 1 \in Nat /\ (k - 1) * SCREEN_WIDTH = k * SCREEN_WIDTH - SCREEN_WIDTH
    BY <1>1, <1>3
  <1>5. k * SCREEN_WIDTH \in Nat
    BY <1>1, ProductNat
  <1>6. start - SCREEN_WIDTH = original_addr(c) + (k - 1) * SCREEN_WIDTH
    BY <1>1, <1>2, <1>4, <1>5
  <1> QED  BY <1>4, <1>6 DEF Aligned

LEMMA AlignedBehind ==
    ASSUME NEW c \in Consoles, NEW start \in Int, Aligned(c, start)
    PROVE  original_addr(c) <= start
  <1>1. original_addr(c) \in Nat /\ SCREEN_WIDTH \in Nat
    BY Addresses
  <1>2. PICK k \in Nat : start = original_addr(c) + k * SCREEN_WIDTH
    BY DEF Aligned
  <1>3. k * SCREEN_WIDTH \in Nat
    BY <1>1, ProductNat
  <1> QED  BY <1>1, <1>2, <1>3

\* A cursor in the console and below the screen can be scrolled to.
LEMMA BelowCanScroll ==
    ASSUME NEW c \in Consoles, NEW con \in ConsoleRecord, Inside(c, con.cursor), Below(con)
    PROVE  CanScroll(c, con.start)
  <1>1. con.start \in Int /\ con.cursor \in Int
    BY DEF ConsoleRecord
  <1>2. original_addr(c) \in Nat /\ SCREEN_SIZE \in Nat /\ v_mem_limit \in Nat
    BY Addresses
  <1> QED  BY <1>1, <1>2 DEF Inside, Below, CanScroll

\* The loop of out_char ends, with the screen a number of lines further.
LEMMA ScrolledOk ==
    ASSUME NEW c \in Consoles, NEW con \in ConsoleRecord
    PROVE  /\ Scrolled(c, con) \in ConsoleRecord
           /\ Scrolled(c, con).cursor = con.cursor
           /\ ConsoleOk(c, con) => ConsoleOk(c, Scrolled(c, con)) /\ Scrolled(c, con).start # -1
  <1> DEFINE W == SCREEN_WIDTH
             over == con.cursor - con.start - SCREEN_SIZE
             n == Rounds(con)
             start == con.start + n * W
  <1>1. /\ original_addr(c) \in Nat /\ W \in Nat \ {0} /\ SCREEN_SIZE \in Nat /\ v_mem_limit \in Nat
        /\ con.start \in Int /\ con.cursor \in Int /\ over \in Int
    BY Addresses DEF ConsoleRecord
  <1>2. /\ n \in Nat
        /\ n # 0 => Below(con) /\ (n - 1) * W <= over
    <2>1. CASE Below(con)
      <3>1. over \in Nat
        BY <1>1, <2>1 DEF Below
      <3> DEFINE q == over \div W
      <3>2. q \in Nat /\ W * q <= over
        BY <1>1, <3>1, Floor
      <3>3. n = 1 + q
        BY <2>1 DEF Rounds
      <3> HIDE DEF q, n
      <3>4. n \in Nat /\ n - 1 = q /\ q * W = W * q
        BY <1>1, <3>2, <3>3
      <3> QED  BY <2>1, <3>2, <3>4
    <2>2. CASE ~Below(con)
      BY <2>2 DEF Rounds
    <2> QED  BY <2>1, <2>2
  <1>3. n * W \in Nat /\ start \in Int
    BY <1>1, <1>2, ProductNat
  <1>4. Scrolled(c, con) = [con EXCEPT !.start = IF n = 0 \/ CanScroll(c, start - W) THEN start ELSE -1]
    BY DEF Scrolled
  <1>5. Scrolled(c, con) \in ConsoleRecord /\ Scrolled(c, con).cursor = con.cursor
    BY <1>3, <1>4 DEF ConsoleRecord
  <1>6. ASSUME ConsoleOk(c, con)
        PROVE  Scrolled(c, con).start = start
    <2>1. CASE n = 0
      BY <1>4, <2>1 DEF ConsoleRecord
    <2>2. CASE n # 0
      <3>1. (n - 1) * W = n * W - W
        BY <1>1, <1>2
      <3>2. start - W <= con.cursor - SCREEN_SIZE
        BY <1>1, <1>2, <1>3, <2>2, <3>1
      <3>3. con.cursor < original_addr(c) + v_mem_limit
        BY <1>6 DEF ConsoleOk, Inside
      <3> HIDE DEF start
      <3>4. CanScroll(c, start - W)
        BY <1>1, <1>3, <3>2, <3>3 DEF CanScroll
      <3> QED  BY <1>4, <3>4 DEF ConsoleRecord
    <2> QED  BY <2>1, <2>2
  <1>7. ASSUME ConsoleOk(c, con)
        PROVE  Aligned(c, start)
    BY <1>1, <1>2, <1>7, LineMore DEF ConsoleOk
  <1>8. ASSUME ConsoleOk(c, con)
        PROVE  ConsoleOk(c, Scrolled(c, con)) /\ Scrolled(c, con).start # -1
    <2> HIDE DEF start
    <2>1. original_addr(c) <= start
      BY <1>3, <1>7, <1>8, AlignedBehind
    <2> QED  BY <1>1, <1>3, <1>5, <1>6, <1>7, <1>8, <2>1 DEF ConsoleOk
  <1> QED  BY <1>5, <1>8

\* A character changes video memory only behind the console's first cell.
LEMMA WrittenInside ==
    ASSUME NEW c \in Consoles, NEW x, NEW mem, NEW cell \in Int, DOMAIN mem = Cells
    PROVE  /\ DOMAIN Written(mem, x, cell) = Cells
           /\ (IF x = Backspace THEN original_addr(c) < cell ELSE original_addr(c) <= cell)
                => Written(mem, x, cell)[-1] = mem[-1]
  <1>1. original_addr(c) \in Nat /\ -1 \in Cells
    BY Addresses
  <1>2. CASE x = Newline
    BY <1>2 DEF Written, Newline, Backspace
  <1>3. CASE x = Backspace
    BY <1>1, <1>3 DEF Written, Newline, Backspace
  <1>4. CASE x # Newline /\ x # Backspace
    BY <1>1, <1>4 DEF Written
  <1> QED  BY <1>2, <1>3, <1>4

\* out_char as one step.
LEMMA OutCharOk ==
    ASSUME NEW c \in Consoles, NEW x, NEW cs \in [Consoles -> ConsoleRecord], NEW mem,
           DOMAIN mem = Cells
    PROVE  LET after == OutChar(c, x, cs, mem) IN
           /\ after.consoles \in [Consoles -> ConsoleRecord]
           /\ \A d \in Consoles \ {c} : after.consoles[d] = cs[d]
           /\ DOMAIN after.mem = Cells
           /\ ConsoleOk(c, cs[c]) => /\ ConsoleOk(c, after.consoles[c])
                                     /\ after.consoles[c].start # -1
                                     /\ after.mem[-1] = mem[-1]
  <1> DEFINE cursor == cs[c].cursor
             moved == [cs[c] EXCEPT !.cursor = Moved(c, x, cursor)]
             after == OutChar(c, x, cs, mem)
  <1>1. cs[c] \in ConsoleRecord /\ cursor \in Int
    BY DEF ConsoleRecord
  <1>2. CASE Fits(c, x, cursor)
    <2>1. /\ moved \in ConsoleRecord
          /\ ConsoleOk(c, cs[c]) => ConsoleOk(c, moved)
      BY <1>1, <1>2, MovedInside DEF ConsoleRecord, ConsoleOk
    <2>2. /\ after.consoles = [cs EXCEPT ![c] = Scrolled(c, moved)]
          /\ after.mem = Written(mem, x, cursor)
      <3>1. OutChar(c, x, cs, mem) =
                [consoles |-> [cs EXCEPT ![c] = Scrolled(c, moved)], mem |-> Written(mem, x, cursor)]
        BY <1>2 DEF OutChar
      <3> QED  BY <3>1
    <2>3. /\ Scrolled(c, moved) \in ConsoleRecord
          /\ ConsoleOk(c, moved) => ConsoleOk(c, Scrolled(c, moved)) /\ Scrolled(c, moved).start # -1
      BY ONLY <2>1, ScrolledOk
    <2>4. x = Backspace => original_addr(c) < cursor
      BY <1>2 DEF Fits, Newline, Backspace
    <2>5. ConsoleOk(c, cs[c]) => original_addr(c) <= cursor
      BY DEF ConsoleOk, Inside
    <2>6. /\ DOMAIN after.mem = Cells
          /\ ConsoleOk(c, cs[c]) => after.mem[-1] = mem[-1]
      BY <1>1, <2>2, <2>4, <2>5, WrittenInside
    <2>7. after.consoles[c] = Scrolled(c, moved)
      BY <2>2
    <2> HIDE DEF after, moved
    <2>8. /\ after.consoles \in [Consoles -> ConsoleRecord]
          /\ \A d \in Consoles \ {c} : after.consoles[d] = cs[d]
      BY <2>2, <2>3
    <2> QED  BY <2>1, <2>3, <2>6, <2>7, <2>8 DEF after
  <1>3. CASE ~Fits(c, x, cursor)
    <2>1. after.consoles = [cs EXCEPT ![c] = Scrolled(c, cs[c])] /\ after.mem = mem
      BY <1>3 DEF OutChar
    <2>2. /\ Scrolled(c, cs[c]) \in ConsoleRecord
          /\ ConsoleOk(c, cs[c]) => ConsoleOk(c, Scrolled(c, cs[c])) /\ Scrolled(c, cs[c]).start # -1
      BY <1>1, ScrolledOk
    <2>3. after.consoles[c] = Scrolled(c, cs[c])
      BY <2>1
    <2> HIDE DEF after
    <2>4. /\ after.consoles \in [Consoles -> ConsoleRecord]
          /\ \A d \in Consoles \ {c} : after.consoles[d] = cs[d]
      BY <2>1, <2>2
    <2> QED  BY <2>1, <2>2, <2>3, <2>4 DEF after
  <1> QED  BY <1>2, <1>3

-----------------------------------------------------------------------------
(* The steps. *)

\* A step that leaves consoles and memory alone, after which TASK_TTY relies on
\* no more than is so.
LEMMA OnlyLocals ==
    ASSUME InsideInv, UNCHANGED <<console, v_mem, raced, hung>>,
           p_tty' \in Consoles, current_console' \in Consoles,
           back' \in {"read", "write", "loop", "next"}, reg' \in Int, p_vmem' \in Int,
           \A c \in Consoles : Safe(c) /\ c = p_tty' => Relies(c)'
    PROVE  InsideInv'
  <1>1. ASSUME NEW c \in Consoles, Safe(c)'
        PROVE  ConsoleOk(c, console[c])' /\ (c = p_tty' => Relies(c)')
    <2>1. Safe(c)
      BY <1>1 DEF Safe
    <2>2. ConsoleOk(c, console[c])
      BY <2>1 DEF InsideInv
    <2>3. ConsoleOk(c, console[c])'
      BY <2>2 DEF ConsoleOk, Inside, Aligned
    <2> QED  BY <2>1, <2>3
  <1> QED  BY <1>1 DEF InsideInv

LEMMA NotBusy ==
    ASSUME pc' \notin Busy
    PROVE  \A c : Relies(c)'
  BY DEF Relies, Busy

\* A step that changes no more than TASK_TTY's place.
LEMMA OtherPlace ==
    ASSUME InsideInv, UNCHANGED <<console, v_mem, raced, hung, reg, p_vmem, back, current_console>>,
           p_tty' \in Consoles, pc' \notin Busy
    PROVE  InsideInv'
  BY OnlyLocals, NotBusy DEF InsideInv

LEMMA NextTtyType ==
    ASSUME p_tty \in Consoles, NextTty
    PROVE  p_tty' \in Consoles
  <1>1. NR_CONSOLES \in Nat \ {0} /\ p_tty \in 0..(NR_CONSOLES - 1)
    BY TerminalAssumption DEF Consoles
  <1>2. CASE p_tty + 1 < NR_CONSOLES
    BY <1>1, <1>2 DEF NextTty, Consoles
  <1>3. CASE p_tty + 1 = NR_CONSOLES
    BY <1>1, <1>3 DEF NextTty, Consoles
  <1> QED  BY <1>1, <1>2, <1>3

\* Between the characters TASK_TTY leaves the consoles alone.
LEMMA BetweenCharacters ==
    ASSUME InsideInv,
           \/ tty_do_read \/ ReadOn \/ NothingRead \/ NothingToWrite \/ tty_do_write
           \/ OutEnds \/ flush \/ FlushLoad \/ FlushSet
    PROVE  InsideInv'
  <1> USE DEF Goes
  <1>0. /\ p_tty \in Consoles /\ back \notin Busy /\ back \in {"read", "write", "loop", "next"}
        /\ current_console \in Consoles /\ reg \in Int /\ p_vmem \in Int
    BY DEF InsideInv, Busy
  <1>1. CASE tty_do_read \/ ReadOn \/ NothingRead
    BY <1>0, <1>1, OtherPlace
       DEF tty_do_read, ReadOn, NothingRead, consoleVars, screenVars, localVars, printVars, Busy
  <1>2. CASE NothingToWrite \/ tty_do_write
    BY <1>0, <1>2, NextTtyType, OtherPlace
       DEF NothingToWrite, tty_do_write, consoleVars, screenVars, localVars, printVars, Busy
  <1>3. CASE OutEnds
    <2>1. p_tty' \in Consoles /\ reg' \in Int /\ p_vmem' \in Int /\ pc' \notin Busy
      <3>1. p_tty' \in Consoles
        BY <1>0, <1>3, NextTtyType DEF OutEnds
      <3>2. reg' = 0 /\ p_vmem' = 0 /\ pc' = "read"
        BY <1>3 DEF OutEnds
      <3> QED  BY <3>1, <3>2 DEF Busy
    <2> QED  BY <1>0, <1>3, <2>1, OnlyLocals, NotBusy DEF OutEnds, consoleVars, screenVars, printVars
  <1>4. CASE flush
    <2>1. pc' \notin Busy
      BY <1>0, <1>4 DEF flush, Busy
    <2> QED  BY <1>0, <1>4, <2>1, OtherPlace
             DEF flush, consoleVars, screenVars, localVars, Still, printVars
  <1>5. CASE FlushLoad
    <2>1. console[current_console].cursor \in Int /\ console[current_console].start \in Int
      BY DEF InsideInv, ConsoleRecord
    <2>2. reg' \in Int /\ pc' \notin Busy
      BY <1>5, <2>1 DEF FlushLoad, Busy
    <2> QED  BY <1>0, <1>5, <2>2, OnlyLocals, NotBusy DEF FlushLoad, consoleVars, Still, printVars
  <1>6. CASE FlushSet
    <2>1. pc' \notin Busy
      BY <1>0, <1>6 DEF FlushSet, Busy
    <2> QED  BY <1>0, <1>6, <2>1, OtherPlace DEF FlushSet, consoleVars, localVars, Still, printVars
  <1> QED  BY <1>1, <1>2, <1>3, <1>4, <1>5, <1>6

\* A key.
LEMMA KeyStep ==
    ASSUME InsideInv, tty_input_process
    PROVE  InsideInv'
  <1> USE DEF Goes
  <1>0. p_tty' = p_tty /\ p_tty \in Consoles /\ UNCHANGED <<raced, hung>>
    BY DEF tty_input_process, printVars, InsideInv
  <1>1. CASE InputChar \/ InputNothing
    BY <1>0, <1>1, OtherPlace DEF InputChar, InputNothing, consoleVars, screenVars, localVars, Busy
  <1>2. CASE InputScroll
    <2>1. pc' \in {"up", "down"} /\ back' = "write"
      BY <1>2 DEF InputScroll, Scrolls, ScrollKeys
    <2>2. \A c \in Consoles : Relies(c)'
      BY <2>1 DEF Relies
    <2> QED  BY <1>0, <1>2, <2>1, <2>2, OnlyLocals DEF InputScroll, consoleVars, screenVars, InsideInv
  <1>3. CASE select_console
    <2>1. current_console' \in Consoles
      <3>1. PICK n \in DOMAIN FunctionKeys : Selects(n) /\ current_console' = n - 1
        BY <1>3 DEF select_console
      <3>2. n \in 1..3 /\ n <= NR_CONSOLES
        BY <3>1 DEF FunctionKeys, Selects
      <3> QED  BY <3>1, <3>2, TerminalAssumption DEF Consoles
    <2>2. pc' \notin Busy /\ back' = "write"
      BY <1>3 DEF select_console, Busy
    <2> QED  BY <1>0, <1>3, <2>1, <2>2, OnlyLocals, NotBusy DEF select_console, consoleVars, InsideInv
  <1> QED  BY <1>1, <1>2, <1>3 DEF tty_input_process

\* TASK_TTY's console: it is as it should be, unless the kernel came between.
LEMMA Mine ==
    ASSUME InsideInv
    PROVE  /\ p_tty \in Consoles /\ Con \in ConsoleRecord
           /\ Con.cursor \in Int /\ Con.start \in Int
           /\ Safe(p_tty) => ConsoleOk(p_tty, Con) /\ Relies(p_tty)
  BY DEF InsideInv, Con, ConsoleRecord

\* A step of out_char or scroll_screen that changes at most p_vmem, reg and back.
LEMMA MyLocals ==
    ASSUME InsideInv, UNCHANGED <<console, v_mem, current_console>>, Still,
           back' \in {"read", "write", "loop", "next"}, reg' \in Int, p_vmem' \in Int,
           Safe(p_tty) => Relies(p_tty)'
    PROVE  InsideInv'
  <1>1. p_tty' = p_tty /\ p_tty \in Consoles /\ UNCHANGED <<raced, hung, current_console>>
        /\ current_console \in Consoles
    BY DEF Still, printVars, InsideInv
  <1>2. \A c \in Consoles : Safe(c) /\ c = p_tty' => Relies(c)'
    BY <1>1
  <1> QED  BY <1>1, <1>2, OnlyLocals

\* A step that changes TASK_TTY's console.
LEMMA MyConsole ==
    ASSUME InsideInv, Still, UNCHANGED <<v_mem, current_console, back, reg, p_vmem>>,
           NEW con \in ConsoleRecord, console' = [console EXCEPT ![p_tty] = con],
           Safe(p_tty) => ConsoleOk(p_tty, con) /\ Relies(p_tty)'
    PROVE  InsideInv'
  <1>1. /\ p_tty' = p_tty /\ UNCHANGED <<raced, hung>>
        /\ p_tty \in Consoles /\ console \in [Consoles -> ConsoleRecord]
    BY DEF Still, printVars, InsideInv
  <1>2. /\ console' \in [Consoles -> ConsoleRecord] /\ console'[p_tty] = con
        /\ \A c \in Consoles : c # p_tty => console'[c] = console[c]
    BY <1>1
  <1>3. ASSUME NEW c \in Consoles, Safe(c)'
        PROVE  ConsoleOk(c, console[c])' /\ (c = p_tty' => Relies(c)')
    <2>1. Safe(c)
      BY <1>1, <1>3 DEF Safe
    <2>2. ConsoleOk(c, console'[c])
      BY <1>2, <2>1 DEF InsideInv
    <2>3. ConsoleOk(c, console[c])'
      BY <2>2 DEF ConsoleOk, Inside, Aligned
    <2> QED  BY <1>1, <2>1, <2>3
  <1> QED  BY <1>1, <1>2, <1>3 DEF InsideInv

\* out_char, access by access.
LEMMA OutStep ==
    ASSUME InsideInv, OutStarts \/ OutTest \/ OutCell \/ OutLoad \/ OutStore \/ OutLoop
    PROVE  InsideInv'
  <1> USE DEF Goes
  <1>0. /\ p_tty \in Consoles /\ Con \in ConsoleRecord
        /\ Con.cursor \in Int /\ Con.start \in Int /\ reg \in Int /\ p_vmem \in Int
        /\ Safe(p_tty) => ConsoleOk(p_tty, Con) /\ Relies(p_tty)
        /\ back \in {"read", "write", "loop", "next"}
    BY Mine DEF InsideInv
  <1>1. CASE OutStarts
    <2>1. pc' = "test" /\ p_vmem' = Con.cursor /\ console' = console /\ p_tty' = p_tty
      BY <1>1 DEF OutStarts, Still
    <2>2. Relies(p_tty)'
      BY <2>1 DEF Relies, Con
    <2> QED  BY <1>0, <1>1, <2>1, <2>2, MyLocals DEF OutStarts, screenVars
  <1>2. CASE OutTest
    <2>0. UNCHANGED <<console, v_mem, ch, p_vmem, reg, back, current_console>> /\ Still /\ p_tty' = p_tty
      BY <1>2 DEF OutTest, consoleVars, screenVars, localVars, Still
    <2>1. /\ pc = "test"
          /\ \/ Fits(p_tty, ch, Con.cursor) /\ pc' = "load"
             \/ Fits(p_tty, ch, Con.cursor) /\ ch # Backspace /\ pc' = "cell"
             \/ pc' = "loop"
      BY <1>2 DEF OutTest
    <2>2. Fits(p_tty, ch, Con.cursor) => Fits(p_tty, ch, console[p_tty].cursor)'
      BY <2>0 DEF Fits, Con
    <2>3. Safe(p_tty) => Relies(p_tty)'
      BY <1>0, <2>0, <2>1, <2>2 DEF Relies, Con
    <2> QED  BY <1>0, <2>0, <2>3, MyLocals
  <1>3. CASE OutCell
    <2>0. /\ UNCHANGED <<console, ch, p_vmem, reg, back, current_console, raced, hung>> /\ Still /\ p_tty' = p_tty
          /\ v_mem' = Written(v_mem, ch, p_vmem)
      BY <1>3 DEF OutCell, screenVars, localVars, Still, printVars
    <2>1. \/ pc = "cell" /\ pc' = "load"
          \/ pc = "backspace cell" /\ pc' = "loop"
      BY <1>3 DEF OutCell
    <2>2. Safe(p_tty) => IF ch = Backspace THEN original_addr(p_tty) < p_vmem
                                           ELSE original_addr(p_tty) <= p_vmem
      <3>1. original_addr(p_tty) \in Nat
        BY <1>0, Addresses
      <3>2. CASE pc = "cell"
        <4>1. Safe(p_tty) => ch # Backspace /\ original_addr(p_tty) <= p_vmem
          BY <1>0, <3>2 DEF Relies, ConsoleOk, Inside, Con
        <4> QED  BY <4>1
      <3>3. CASE pc = "backspace cell"
        <4>1. Safe(p_tty) => original_addr(p_tty) < p_vmem
          BY <1>0, <3>3 DEF Relies
        <4> QED  BY <1>0, <3>1, <4>1
      <3> QED  BY <2>1, <3>2, <3>3
    <2>3. /\ DOMAIN v_mem' = Cells
          /\ Safe(p_tty) => v_mem'[-1] = v_mem[-1]
      BY <1>0, <2>0, <2>2, WrittenInside DEF InsideInv
    <2>4. Fits(p_tty, ch, console[p_tty].cursor) => Fits(p_tty, ch, console[p_tty].cursor)'
      BY <2>0 DEF Fits
    <2>5. Safe(p_tty) => Relies(p_tty)'
      BY <1>0, <2>0, <2>1, <2>4 DEF Relies
    <2>6. ASSUME NEW c \in Consoles, Safe(c)'
          PROVE  ConsoleOk(c, console[c])' /\ (c = p_tty' => Relies(c)')
      <3>1. Safe(c) /\ ConsoleOk(c, console[c])
        BY <2>0, <2>6 DEF Safe, InsideInv
      <3>2. ConsoleOk(c, console[c])'
        BY <2>0, <3>1 DEF ConsoleOk, Inside, Aligned
      <3> QED  BY <2>0, <2>5, <3>1, <3>2
    <2>7. ~raced' => v_mem'[-1] = Outside /\ ~hung'
      BY <2>0, <2>3 DEF InsideInv, Safe
    <2> QED  BY <2>0, <2>3, <2>6, <2>7 DEF InsideInv
  <1>4. CASE OutLoad
    <2>0. /\ UNCHANGED <<console, v_mem, ch, p_vmem, back, current_console>> /\ Still /\ p_tty' = p_tty
          /\ pc = "load" /\ pc' = "store" /\ reg' = Moved(p_tty, ch, Con.cursor)
      BY <1>4 DEF OutLoad, consoleVars, screenVars, Still
    <2>1. /\ reg' \in Int
          /\ Safe(p_tty) => Inside(p_tty, reg')
      BY <1>0, <2>0, MovedInside DEF Relies, ConsoleOk, Con
    <2>2. Safe(p_tty) /\ ch = Backspace => original_addr(p_tty) < p_vmem
      <3>1. original_addr(p_tty) \in Nat
        BY <1>0, Addresses
      <3> QED  BY <1>0, <2>0, <3>1 DEF Relies, Fits, Newline, Backspace
    <2>3. Safe(p_tty) => Inside(p_tty, reg)' /\ (ch = Backspace => original_addr(p_tty) < p_vmem)'
      BY <2>0, <2>1, <2>2 DEF Inside
    <2>4. Safe(p_tty) => Relies(p_tty)'
      BY <2>0, <2>3 DEF Relies
    <2> QED  BY <1>0, <2>0, <2>1, <2>4, MyLocals
  <1>5. CASE OutStore
    <2> DEFINE con == [Con EXCEPT !.cursor = reg]
    <2>0. /\ UNCHANGED <<v_mem, ch, p_vmem, reg, back, current_console>> /\ Still /\ p_tty' = p_tty
          /\ pc = "store" /\ pc' = (IF ch = Backspace THEN "backspace cell" ELSE "loop")
      BY <1>5 DEF OutStore, screenVars, localVars, Still
    <2>1. con \in ConsoleRecord /\ con.cursor = reg /\ con.start = Con.start
      BY <1>0 DEF ConsoleRecord
    <2>2. console' = [console EXCEPT ![p_tty] = con]
      BY <1>5 DEF OutStore, Con
    <2>3. Safe(p_tty) => ConsoleOk(p_tty, con)
      BY <1>0, <2>0, <2>1 DEF Relies, ConsoleOk
    <2>4. Safe(p_tty) => Relies(p_tty)'
      BY <1>0, <2>0 DEF Relies
    <2> HIDE DEF con
    <2> QED  BY <2>0, <2>1, <2>2, <2>3, <2>4, MyConsole
  <1>6. CASE OutLoop
    <2>0. /\ UNCHANGED <<console, v_mem, ch, p_vmem, reg, current_console>> /\ Still /\ p_tty' = p_tty
          /\ back' \in {"loop", "next"}
          /\ pc' = "down" => Below(Con)
          /\ pc' \in {"down", "flush"}
      BY <1>6 DEF OutLoop, consoleVars, screenVars, Still
    <2>1. Safe(p_tty) => Relies(p_tty)'
      BY <2>0 DEF Relies, Below, Con
    <2> QED  BY <1>0, <2>0, <2>1, MyLocals
  <1> QED  BY <1>1, <1>2, <1>3, <1>4, <1>5, <1>6

\* scroll_screen, for the loop of out_char or for a key.
LEMMA ScrollStep ==
    ASSUME InsideInv, scroll_screen
    PROVE  InsideInv'
  <1> USE DEF Goes
  <1>0. /\ p_tty \in Consoles /\ Con \in ConsoleRecord
        /\ Con.cursor \in Int /\ Con.start \in Int /\ reg \in Int /\ p_vmem \in Int
        /\ Safe(p_tty) => ConsoleOk(p_tty, Con) /\ Relies(p_tty)
        /\ back \in {"read", "write", "loop", "next"}
    BY Mine DEF InsideInv
  <1>1. ASSUME NEW dir \in {"down", "up"}, ScrollTest(dir)
        PROVE  InsideInv'
    <2>0. /\ UNCHANGED <<console, v_mem, ch, p_vmem, reg, back, current_console>> /\ Still /\ p_tty' = p_tty
          /\ \/ pc' = "down load" \/ pc' = "flush"
             \/ pc' = "up load" /\ Con.start > original_addr(p_tty)
      BY <1>1 DEF ScrollTest, MayScroll, LoadOf, consoleVars, screenVars, localVars, Still
    <2>1. Relies(p_tty)'
      <3>1. original_addr(p_tty) \in Nat
        BY <1>0, Addresses
      <3> QED  BY <1>0, <2>0, <3>1 DEF Relies, Con
    <2> QED  BY <1>0, <2>0, <2>1, MyLocals
  <1>2. ASSUME NEW dir \in {"down", "up"}, ScrollLoad(dir)
        PROVE  InsideInv'
    <2>0. /\ UNCHANGED <<console, v_mem, ch, p_vmem, back, current_console>> /\ Still /\ p_tty' = p_tty
          /\ pc' = "scroll store"
          /\ \/ pc = "down load" /\ reg' = Con.start + SCREEN_WIDTH
             \/ pc = "up load" /\ reg' = Con.start - SCREEN_WIDTH
      <3>1. SCREEN_WIDTH \in Nat
        BY Addresses
      <3>2. dir = "down" => reg' = Con.start + SCREEN_WIDTH /\ pc = "down load"
        BY <1>2 DEF ScrollLoad, Distance, LoadOf
      <3>3. dir = "up" => reg' = Con.start - SCREEN_WIDTH /\ pc = "up load"
        <4>1. dir = "up" => reg' = Con.start + (-SCREEN_WIDTH) /\ pc = "up load"
          BY <1>2 DEF ScrollLoad, Distance, LoadOf
        <4> QED  BY <1>0, <3>1, <4>1
      <3>4. /\ UNCHANGED <<console, v_mem, ch, p_vmem, back, current_console>> /\ Still /\ p_tty' = p_tty
            /\ pc' = "scroll store"
        BY <1>2 DEF ScrollLoad, consoleVars, screenVars, Still
      <3> QED  BY <1>2, <3>2, <3>3, <3>4
    <2>1. reg' \in Int
      <3>1. SCREEN_WIDTH \in Nat
        BY Addresses
      <3>2. Con.start \in Int
        BY <1>0
      <3>3. \/ reg' = Con.start + SCREEN_WIDTH
            \/ reg' = Con.start - SCREEN_WIDTH
        BY <2>0
      <3> QED  BY ONLY <3>1, <3>2, <3>3
    <2>2. Safe(p_tty) => Aligned(p_tty, reg')
      <3>1. Safe(p_tty) => Aligned(p_tty, Con.start + SCREEN_WIDTH)
        <4>1. 1 * SCREEN_WIDTH = SCREEN_WIDTH
          BY Addresses
        <4> QED  BY <1>0, <4>1, LineMore DEF ConsoleOk
      <3>2. Safe(p_tty) /\ pc = "up load" => Aligned(p_tty, Con.start - SCREEN_WIDTH)
        BY <1>0, LineLess DEF ConsoleOk, Relies, Con
      <3> QED  BY <2>0, <3>1, <3>2
    <2>3. Safe(p_tty) => Aligned(p_tty, reg)'
      BY <2>0, <2>2 DEF Aligned
    <2>4. Safe(p_tty) => Relies(p_tty)'
      BY <2>0, <2>3 DEF Relies
    <2> QED  BY <1>0, <2>0, <2>1, <2>4, MyLocals
  <1>3. CASE ScrollStore
    <2> DEFINE con == [Con EXCEPT !.start = reg]
    <2>0. /\ UNCHANGED <<v_mem, ch, p_vmem, reg, back, current_console>> /\ Still /\ p_tty' = p_tty
          /\ pc = "scroll store" /\ pc' = "flush"
      BY <1>3 DEF ScrollStore, screenVars, localVars, Still
    <2>1. con \in ConsoleRecord /\ con.cursor = Con.cursor /\ con.start = reg
      BY <1>0 DEF ConsoleRecord
    <2>2. console' = [console EXCEPT ![p_tty] = con]
      BY <1>3 DEF ScrollStore, Con
    <2>3. Safe(p_tty) => ConsoleOk(p_tty, con)
      BY <1>0, <2>0, <2>1 DEF Relies, ConsoleOk
    <2>4. Relies(p_tty)'
      BY <2>0 DEF Relies
    <2> HIDE DEF con
    <2> QED  BY <2>0, <2>1, <2>2, <2>3, <2>4, MyConsole
  <1> QED  BY <1>1, <1>2, <1>3 DEF scroll_screen

\* A character that a process prints.
LEMMA PrintStep ==
    ASSUME InsideInv, NEW x, sys_write(x)
    PROVE  InsideInv'
  <1> DEFINE after == OutChar(0, x, console, v_mem)
  <1>1. 0 \in Consoles /\ console \in [Consoles -> ConsoleRecord] /\ DOMAIN v_mem = Cells
    BY TerminalAssumption DEF Consoles, InsideInv
  <1>2. /\ after.consoles \in [Consoles -> ConsoleRecord]
        /\ \A d \in Consoles \ {0} : after.consoles[d] = console[d]
        /\ DOMAIN after.mem = Cells
        /\ ConsoleOk(0, console[0]) => /\ ConsoleOk(0, after.consoles[0])
                                       /\ after.consoles[0].start # -1
                                       /\ after.mem[-1] = v_mem[-1]
    BY ONLY <1>1, OutCharOk
  <1> HIDE DEF after
  <1>3. /\ v_mem' = after.mem
        /\ \/ after.consoles[0].start = -1 /\ console' = console
           \/ after.consoles[0].start # -1 /\ console' = after.consoles /\ hung' = hung
        /\ raced' = (raced \/ BetweenAccesses)
        /\ UNCHANGED <<current_console, pc, p_tty, ch, p_vmem, reg, back>>
    BY DEF sys_write, localVars, after
  <1>4. console' \in [Consoles -> ConsoleRecord] /\ \A d \in Consoles \ {0} : console'[d] = console[d]
    BY <1>1, <1>2, <1>3
  <1>5. Safe(0)' => Safe(0) /\ ~BetweenAccesses /\ ~raced
    BY <1>3 DEF Safe
  <1>6. ASSUME Safe(0)'
        PROVE  /\ ConsoleOk(0, console'[0]) /\ v_mem'[-1] = Outside /\ ~hung'
               /\ 0 = p_tty' => Relies(0)'
    <2>1. ConsoleOk(0, console[0]) /\ v_mem[-1] = Outside /\ ~hung
      BY <1>1, <1>5, <1>6 DEF InsideInv
    <2>2. ConsoleOk(0, console'[0]) /\ v_mem'[-1] = Outside /\ ~hung'
      BY <1>2, <1>3, <2>1
    <2>3. 0 = p_tty' => pc' \notin Busy
      BY <1>3, <1>5, <1>6 DEF BetweenAccesses, Busy
    <2> QED  BY <2>2, <2>3, NotBusy
  <1>7. ASSUME NEW c \in Consoles, Safe(c)'
        PROVE  ConsoleOk(c, console[c])' /\ (c = p_tty' => Relies(c)')
    <2>1. ConsoleOk(c, console'[c]) => ConsoleOk(c, console[c])'
      BY DEF ConsoleOk, Inside, Aligned
    <2>2. CASE c = 0
      BY <1>6, <1>7, <2>1, <2>2
    <2>3. CASE c # 0
      <3>1. ConsoleOk(c, console[c]) /\ (c = p_tty => Relies(c))
        BY <2>3 DEF InsideInv, Safe
      <3>2. console'[c] = console[c]
        BY <1>4, <2>3
      <3>3. Fits(c, ch, console[c].cursor) => Fits(c, ch, console[c].cursor)'
        BY <1>3, <3>2 DEF Fits
      <3>4. Aligned(c, reg) => Aligned(c, reg)'
        BY <1>3 DEF Aligned
      <3>5. c = p_tty => Relies(c)'
        BY <1>3, <3>1, <3>2, <3>3, <3>4 DEF Relies, Inside, Below
      <3> QED  BY <1>3, <2>1, <3>1, <3>2, <3>5
    <2> QED  BY <2>2, <2>3
  <1>8. ~raced' => v_mem'[-1] = Outside /\ ~hung'
    BY <1>6 DEF Safe
  <1> QED  BY <1>2, <1>3, <1>4, <1>7, <1>8 DEF InsideInv

\* The invariant holds of every step.
LEMMA InsideStep ==
    ASSUME InsideInv, [TerminalNext]_terminalVars
    PROVE  InsideInv'
  <1>1. CASE UNCHANGED terminalVars
    <2>1. UNCHANGED <<console, v_mem, raced, hung, p_tty, current_console, back, reg, p_vmem, pc, ch>>
      BY <1>1 DEF terminalVars, consoleVars, screenVars, localVars, printVars
    <2>2. \A c \in Consoles : Safe(c) /\ c = p_tty' => Relies(c)'
      BY <2>1 DEF InsideInv, Relies, Safe, Fits, Inside, Below, Aligned
    <2> QED  BY <2>1, <2>2, OnlyLocals DEF InsideInv
  <1>2. CASE Typed
    <2>1. UNCHANGED <<console, v_mem, raced, hung, p_tty, current_console, back, reg, p_vmem, pc, ch>>
      BY <1>2 DEF Typed, consoleVars, screenVars, localVars, printVars
    <2>2. \A c \in Consoles : Safe(c) /\ c = p_tty' => Relies(c)'
      BY <2>1 DEF InsideInv, Relies, Safe, Fits, Inside, Below, Aligned
    <2> QED  BY <2>1, <2>2, OnlyLocals DEF InsideInv
  <1>3. CASE PrintedByProcess
    BY <1>3, PrintStep DEF PrintedByProcess
  <1>4. CASE task_tty
    BY <1>4, BetweenCharacters, KeyStep, OutStep, ScrollStep DEF task_tty, out_char
  <1> QED  BY <1>1, <1>2, <1>3, <1>4 DEF TerminalNext

LEMMA InsideInit ==
    ASSUME TerminalInit
    PROVE  InsideInv
  <1>1. PICK pos \in 0..(SCREEN_SIZE - 1) :
            console = [c \in Consoles |-> [start |-> original_addr(c),
                                           cursor |-> IF c = 0 THEN pos ELSE original_addr(c)]]
    BY DEF TerminalInit
  <1>2. /\ \A c \in Consoles : original_addr(c) \in Nat
        /\ SCREEN_WIDTH \in Nat /\ SCREEN_SIZE \in Nat /\ v_mem_limit \in Nat
        /\ v_mem_limit > SCREEN_SIZE /\ NR_CONSOLES \in Nat \ {0} /\ -1 \in Cells
    BY Addresses, TerminalAssumption
  <1>3. console \in [Consoles -> ConsoleRecord]
    BY <1>1, <1>2 DEF ConsoleRecord
  <1>4. original_addr(0) = 0
    BY <1>2 DEF original_addr
  <1>5. ASSUME NEW c \in Consoles
        PROVE  ConsoleOk(c, console[c])
    <2>1. 0 * SCREEN_WIDTH = 0 /\ console[c].start = original_addr(c) + 0 * SCREEN_WIDTH
      BY <1>1, <1>2
    <2>2. Aligned(c, console[c].start)
      BY <2>1 DEF Aligned
    <2>3. Inside(c, console[c].cursor)
      BY <1>1, <1>2, <1>4 DEF Inside
    <2> QED  BY <2>2, <2>3 DEF ConsoleOk
  <1>6. /\ 0 \in Consoles /\ p_tty = 0 /\ current_console = 0 /\ back = "read" /\ pc = "read"
        /\ reg = 0 /\ p_vmem = 0 /\ DOMAIN v_mem = Cells /\ v_mem[-1] = Outside /\ ~hung
    BY <1>2 DEF TerminalInit, Consoles
  <1>7. \A c : Relies(c)
    BY <1>6 DEF Relies
  <1> QED  BY <1>3, <1>5, <1>6, <1>7 DEF InsideInv

\* The invariant says what the run's property asks.
LEMMA InsideInvSuffices ==
    ASSUME InsideInv
    PROVE  ConsoleInside
  <1>1. ASSUME NEW c \in Consoles, Safe(c)
        PROVE  CursorInside(c)
    <2>1. ConsoleOk(c, console[c]) /\ console[c].start \in Int
      BY <1>1 DEF InsideInv, ConsoleRecord
    <2> QED  BY <2>1, AlignedBehind DEF ConsoleOk, CursorInside
  <1>2. ASSUME ~raced
        PROVE  CursorInside(0) /\ v_mem[-1] = Outside /\ LoopEnds
    <2>1. 0 \in Consoles /\ Safe(0) /\ Safe(p_tty)
      BY <1>2, TerminalAssumption DEF Consoles, Safe
    <2>2. pc = "down" /\ back = "loop" => CanScroll(p_tty, Con.start)
      BY <2>1, Mine, BelowCanScroll DEF Relies, ConsoleOk, Con
    <2> QED  BY <1>1, <1>2, <2>1, <2>2 DEF InsideInv, LoopEnds
  <1> QED  BY <1>1, <1>2 DEF ConsoleInside, Safe

\* The cursors stay in their consoles, nothing is written before video memory
\* and out_char's loop ends, as long as the kernel does not print between two of
\* TASK_TTY's accesses to console 0; and the other consoles' cursors always do.
THEOREM ConsolesStayInside == TerminalSpec => []ConsoleInside
  <1>1. TerminalInit => InsideInv
    BY InsideInit
  <1>2. InsideInv /\ [TerminalNext]_terminalVars => InsideInv'
    BY InsideStep
  <1>3. InsideInv => ConsoleInside
    BY InsideInvSuffices
  <1> QED  BY <1>1, <1>2, <1>3, PTL DEF TerminalSpec

-----------------------------------------------------------------------------
(* The display. *)

Shows == crtc = console[current_console]
Setting == {"flush cursor", "set cursor", "flush start", "set start"}

\* What is displayed already of the console in front, unless a print came late.
Displayed ==
    /\ pc \notin Setting /\ (AtRest \/ pc = "next" \/ p_tty # current_console) => Shows
    /\ pc = "set cursor" => reg = console[current_console].cursor
    /\ pc \in {"flush start", "set start"} => crtc.cursor = console[current_console].cursor
    /\ pc = "set start" => reg = console[current_console].start

ScreenInv == crtc \in ConsoleRecord /\ (~late => Displayed)

\* A step that changes neither the display nor the console in front.
LEMMA DisplayStays ==
    ASSUME ScreenInv, UNCHANGED <<crtc, current_console, late>>,
           console'[current_console] = console[current_console],
           pc \notin Setting, pc' \notin Setting,
           AtRest' \/ pc' = "next" \/ p_tty' # current_console
               => AtRest \/ pc = "next" \/ p_tty # current_console
    PROVE  ScreenInv'
  BY DEF ScreenInv, Displayed, Shows, Setting

\* A character that a process prints on the console in front is displayed at once.
LEMMA PrintShows ==
    ASSUME InsideInv, ScreenInv, NEW x, sys_write(x)
    PROVE  ScreenInv'
  <1> DEFINE after == OutChar(0, x, console, v_mem)
  <1>0. current_console \in Consoles
    BY DEF InsideInv
  <1>1. 0 \in Consoles /\ console \in [Consoles -> ConsoleRecord] /\ DOMAIN v_mem = Cells
    BY TerminalAssumption DEF Consoles, InsideInv
  <1>2. /\ after.consoles \in [Consoles -> ConsoleRecord]
        /\ \A d \in Consoles \ {0} : after.consoles[d] = console[d]
        /\ DOMAIN after.mem = Cells
        /\ ConsoleOk(0, console[0]) => /\ ConsoleOk(0, after.consoles[0])
                                       /\ after.consoles[0].start # -1
                                       /\ after.mem[-1] = v_mem[-1]
    BY ONLY <1>1, OutCharOk
  <1> HIDE DEF after
  <1>3. /\ UNCHANGED <<current_console, pc, p_tty, reg>>
        /\ ~hung
        /\ IF after.consoles[0].start = -1
           THEN hung' = TRUE /\ UNCHANGED <<console, crtc>>
           ELSE /\ console' = after.consoles /\ hung' = hung
                /\ crtc' = IF current_console = 0 THEN after.consoles[0] ELSE crtc
        /\ late' = (IF current_console = 0 /\ ~hung' THEN pc \in {"set cursor", "set start"} ELSE late)
    BY DEF sys_write, localVars, after
  <1>4. CASE hung'
    <2>1. UNCHANGED <<current_console, pc, p_tty, reg, console, crtc, late>>
      BY <1>3, <1>4
    <2> QED  BY <2>1 DEF ScreenInv, Displayed, Shows, AtRest
  <1>5. CASE ~hung' /\ current_console = 0
    <2>1. crtc' = console'[0] /\ console' = after.consoles /\ (~late' => pc \notin {"set cursor", "set start"})
      BY <1>3, <1>5
    <2>2. crtc' \in ConsoleRecord
      BY <1>1, <1>2, <2>1
    <2> QED  BY <1>3, <1>5, <2>1, <2>2 DEF ScreenInv, Displayed, Shows
  <1>6. CASE ~hung' /\ current_console # 0
    <2>1. UNCHANGED <<crtc, late, current_console, pc, p_tty, reg>>
      BY <1>3, <1>6
    <2>2. console'[current_console] = console[current_console]
      BY <1>0, <1>1, <1>2, <1>3, <1>6
    <2> QED  BY <2>1, <2>2 DEF ScreenInv, Displayed, Shows, AtRest
  <1> QED  BY <1>4, <1>5, <1>6

\* flush, set_cursor and set_video_start_addr bring the console to the display.
LEMMA FlushShows ==
    ASSUME InsideInv, ScreenInv, flush \/ FlushLoad \/ FlushSet
    PROVE  ScreenInv'
  <1> USE DEF Goes
  <1>0. /\ back \in {"read", "write", "loop", "next"} /\ current_console \in Consoles
        /\ console[current_console] \in ConsoleRecord /\ crtc \in ConsoleRecord
        /\ reg \in Int
    BY DEF InsideInv, ScreenInv
  <1>1. CASE flush
    <2>1. /\ UNCHANGED <<console, crtc, current_console, late, p_tty>> /\ pc = "flush"
          /\ pc' = IF p_tty = current_console THEN "flush cursor" ELSE back
      BY <1>1 DEF flush, consoleVars, screenVars, Still
    <2> QED  BY <1>0, <2>1 DEF ScreenInv, Displayed, Shows, Setting, AtRest
  <1>2. CASE FlushLoad
    <2>1. /\ UNCHANGED <<console, crtc, current_console, p_tty>>
          /\ late' = (late /\ pc # "flush cursor")
          /\ \/ pc = "flush cursor" /\ pc' = "set cursor" /\ reg' = console[current_console].cursor
             \/ pc = "flush start" /\ pc' = "set start" /\ reg' = console[current_console].start
      BY <1>2 DEF FlushLoad, consoleVars, Still
    <2> QED  BY <1>0, <2>1 DEF ScreenInv, Displayed, Shows, Setting, AtRest
  <1>3. CASE FlushSet
    <2>1. UNCHANGED <<console, current_console, late, reg, p_tty>>
      BY <1>3 DEF FlushSet, consoleVars, localVars, Still
    <2>2. CASE pc = "set cursor" /\ pc' = "flush start" /\ crtc' = [crtc EXCEPT !.cursor = reg]
      <3>1. crtc' \in ConsoleRecord /\ crtc'.cursor = reg
        BY <1>0, <2>2 DEF ConsoleRecord
      <3> QED  BY <2>1, <2>2, <3>1 DEF ScreenInv, Displayed, Setting, AtRest
    <2>3. CASE pc = "set start" /\ pc' = back /\ crtc' = [crtc EXCEPT !.start = reg]
      <3>1. crtc' \in ConsoleRecord /\ crtc'.start = reg /\ crtc'.cursor = crtc.cursor
        BY <1>0, <2>3 DEF ConsoleRecord
      <3>2. ~late => crtc' = console[current_console]
        BY <1>0, <2>3, <3>1 DEF ScreenInv, Displayed, ConsoleRecord
      <3> QED  BY <1>0, <2>1, <2>3, <3>1, <3>2 DEF ScreenInv, Displayed, Shows, Setting
    <2> QED  BY <1>3, <2>2, <2>3 DEF FlushSet
  <1> QED  BY <1>1, <1>2, <1>3

\* Every other step of TASK_TTY leaves the display alone.
LEMMA OthersShow ==
    ASSUME InsideInv, ScreenInv,
           \/ tty_do_read \/ ReadOn \/ NothingRead \/ tty_input_process
           \/ NothingToWrite \/ tty_do_write \/ out_char \/ scroll_screen
    PROVE  ScreenInv'
  <1> USE DEF Goes
  <1>0. current_console \in Consoles /\ console \in [Consoles -> ConsoleRecord]
    BY DEF InsideInv
  <1>1. CASE tty_do_read \/ ReadOn \/ NothingRead
    BY <1>1, DisplayStays DEF tty_do_read, ReadOn, NothingRead, consoleVars, screenVars, Setting, AtRest
  <1>2. CASE NothingToWrite \/ tty_do_write
    BY <1>2, DisplayStays DEF NothingToWrite, tty_do_write, consoleVars, screenVars, Setting, AtRest
  <1>3. CASE tty_input_process
    <2>1. CASE select_console
      BY <2>1 DEF select_console, consoleVars, ScreenInv, Displayed, Setting
    <2>2. CASE InputChar \/ InputScroll \/ InputNothing
      <3>1. /\ UNCHANGED <<console, crtc, current_console, late, p_tty>> /\ pc = "keyboard"
            /\ pc' \in {"write", "up", "down"}
        BY <1>3, <2>2 DEF tty_input_process, InputChar, InputScroll, InputNothing, Scrolls, ScrollKeys,
                          consoleVars, screenVars
      <3> QED  BY <3>1, DisplayStays DEF Setting, AtRest
    <2> QED  BY <1>3, <2>1, <2>2 DEF tty_input_process
  <1>4. CASE out_char
    <2>1. CASE OutStarts \/ OutTest \/ OutCell \/ OutLoad \/ OutLoop
      <3>1. /\ UNCHANGED <<console, crtc, current_console, late, p_tty>> /\ pc \notin Setting
            /\ pc' \in {"test", "load", "cell", "loop", "store", "down", "flush"}
            /\ pc \in {"out", "test", "cell", "backspace cell", "load", "loop"}
        BY <2>1 DEF OutStarts, OutTest, OutCell, OutLoad, OutLoop, Still, consoleVars, screenVars, Setting
      <3> QED  BY <3>1, DisplayStays DEF Setting, AtRest
    <2>2. CASE OutStore
      <3>1. /\ UNCHANGED <<crtc, current_console, late, p_tty>> /\ pc = "store"
            /\ pc' \in {"backspace cell", "loop"}
            /\ console' = [console EXCEPT ![p_tty].cursor = reg]
        BY <2>2 DEF OutStore, Still, screenVars
      <3>2. p_tty # current_console => console'[current_console] = console[current_console]
        BY <1>0, <3>1
      <3> QED  BY <3>1, <3>2 DEF ScreenInv, Displayed, Shows, Setting, AtRest
    <2>3. CASE OutEnds
      <3>1. /\ UNCHANGED <<console, crtc, current_console, late>> /\ pc = "next" /\ pc' = "read"
        BY <2>3 DEF OutEnds, consoleVars, screenVars
      <3> QED  BY <3>1, DisplayStays DEF Setting, AtRest
    <2> QED  BY <1>4, <2>1, <2>2, <2>3 DEF out_char
  <1>5. CASE scroll_screen
    <2>1. ASSUME NEW dir \in {"down", "up"}, ScrollTest(dir) \/ ScrollLoad(dir)
          PROVE  ScreenInv'
      <3>1. /\ UNCHANGED <<console, crtc, current_console, late, p_tty>>
            /\ pc \in {"down", "up", "down load", "up load"}
            /\ pc' \in {"flush", "down load", "up load", "scroll store"}
        BY <2>1 DEF ScrollTest, ScrollLoad, LoadOf, Still, consoleVars, screenVars
      <3> QED  BY <3>1, DisplayStays DEF Setting, AtRest
    <2>2. CASE ScrollStore
      <3>1. /\ UNCHANGED <<crtc, current_console, late, p_tty>> /\ pc = "scroll store" /\ pc' = "flush"
            /\ console' = [console EXCEPT ![p_tty].start = reg]
        BY <2>2 DEF ScrollStore, Still, screenVars
      <3>2. p_tty # current_console => console'[current_console] = console[current_console]
        BY <1>0, <3>1
      <3> QED  BY <3>1, <3>2 DEF ScreenInv, Displayed, Shows, Setting, AtRest
    <2> QED  BY <1>5, <2>1, <2>2 DEF scroll_screen
  <1> QED  BY <1>1, <1>2, <1>3, <1>4, <1>5

LEMMA ScreenStep ==
    ASSUME InsideInv, ScreenInv, [TerminalNext]_terminalVars
    PROVE  ScreenInv'
  <1>1. CASE UNCHANGED terminalVars \/ Typed
    <2>1. UNCHANGED <<console, current_console, crtc, late, pc, p_tty, reg>>
      BY <1>1 DEF terminalVars, Typed, consoleVars, screenVars, localVars
    <2> QED  BY <2>1 DEF ScreenInv, Displayed, Shows, AtRest
  <1>2. CASE PrintedByProcess
    BY <1>2, PrintShows DEF PrintedByProcess
  <1>3. CASE task_tty
    BY <1>3, FlushShows, OthersShow DEF task_tty
  <1> QED  BY <1>1, <1>2, <1>3 DEF TerminalNext

\* Between two characters the display shows the cursor and the part of the
\* console in front that flush (console.c:88) was to show, unless a print of the
\* kernel came between the load of an address and the ports.
THEOREM ScreenAlwaysShowsConsole == TerminalSpec => []ScreenShowsConsole
  <1>1. TerminalInit => ScreenInv
    <2> SUFFICES ASSUME TerminalInit  PROVE ScreenInv
      OBVIOUS
    <2>1. PICK pos \in 0..(SCREEN_SIZE - 1) :
              /\ console = [c \in Consoles |-> [start |-> original_addr(c),
                                                cursor |-> IF c = 0 THEN pos ELSE original_addr(c)]]
              /\ crtc = [start |-> 0, cursor |-> pos]
      BY DEF TerminalInit
    <2>2. 0 \in Consoles /\ original_addr(0) = 0 /\ pos \in Int
      BY TerminalAssumption DEF Consoles, original_addr
    <2>3. crtc = console[0] /\ crtc \in ConsoleRecord
      BY <2>1, <2>2 DEF ConsoleRecord
    <2> QED  BY <2>3 DEF TerminalInit, ScreenInv, Displayed, Shows
  <1>2. InsideInv /\ ScreenInv /\ [TerminalNext]_terminalVars => ScreenInv'
    BY ScreenStep
  <1>3. ScreenInv => ScreenShowsConsole
    BY DEF ScreenInv, Displayed, Shows, ScreenShowsConsole, AtRest, Setting
  <1>4. TerminalInit => InsideInv
    BY InsideInit
  <1>5. InsideInv /\ [TerminalNext]_terminalVars => InsideInv'
    BY InsideStep
  <1> QED  BY <1>1, <1>2, <1>3, <1>4, <1>5, PTL DEF TerminalSpec

-----------------------------------------------------------------------------
(* Scrolling, at once or line by line. *)

\* The next multiple.
LEMMA LinesLess ==
    ASSUME NEW w \in Nat \ {0}, NEW d \in Int, NEW n \in Nat, n * w <= d
    PROVE  /\ d - n * w \in Nat
           /\ (d - n * w) \div w = (d \div w) - n
           /\ d \div w \in Nat
  <1>1. n * w \in Nat
    BY ProductNat
  <1>2. PICK e \in Nat : e = d - n * w
    BY <1>1
  <1>3. PICK q \in Nat : q = e \div w
    BY <1>2
  <1>4. PICK r \in 0..w - 1 : e = w * q + r
    <2>1. e % w \in 0..w - 1 /\ e = w * (e \div w) + (e % w)
      BY <1>2
    <2> QED  BY <1>3, <2>1
  <1>5. d = w * (q + n) + r
    <2>1. d = w * q + r + n * w
      BY <1>1, <1>2, <1>4
    <2> QED  BY <2>1
  <1>6. d \div w = q + n
    BY <1>5
  <1> QED  BY <1>2, <1>3, <1>6

\* How far a console has to go when it has gone n lines already, no more than it has to.
LEMMA RoundsLess ==
    ASSUME NEW con \in ConsoleRecord, NEW n \in Nat,
           n = 0 \/ (Below(con) /\ (n - 1) * SCREEN_WIDTH <= con.cursor - con.start - SCREEN_SIZE)
    PROVE  /\ Rounds(con) \in Nat
           /\ Rounds([con EXCEPT !.start = con.start + n * SCREEN_WIDTH]) = Rounds(con) - n
  <1> DEFINE W == SCREEN_WIDTH
             over == con.cursor - con.start - SCREEN_SIZE
             far == [con EXCEPT !.start = con.start + n * W]
             q == over \div W
  <1>1. /\ W \in Nat \ {0} /\ SCREEN_SIZE \in Nat /\ con.start \in Int /\ con.cursor \in Int
        /\ over \in Int /\ n * W \in Nat
    BY Addresses, ProductNat DEF ConsoleRecord
  <1>2. far.start = con.start + n * W /\ far.cursor = con.cursor
    BY DEF ConsoleRecord
  <1>3. Below(con) <=> over \in Nat
    BY <1>1 DEF Below
  <1>4. Below(far) <=> n * W <= over
    <2> HIDE DEF far
    <2> QED  BY <1>1, <1>2 DEF Below
  <1>5. Rounds(con) = IF Below(con) THEN 1 + q ELSE 0
    BY DEF Rounds
  <1>6. far.cursor - far.start - SCREEN_SIZE = over - n * W
    <2> HIDE DEF far
    <2> QED  BY <1>1, <1>2
  <1>7. Rounds(far) = IF Below(far) THEN 1 + (over - n * W) \div W ELSE 0
    <2> HIDE DEF far, over
    <2> QED  BY <1>6 DEF Rounds
  <1>8. over \in Nat => q \in Nat
    BY <1>1, Floor
  <1> HIDE DEF far, over
  <1>9. CASE n = 0
    <2>1. n * W = 0
      BY <1>1, <1>9
    <2> QED  BY <1>1, <1>3, <1>4, <1>5, <1>7, <1>8, <1>9, <2>1 DEF far
  <1>10. CASE n # 0 /\ n * W <= over
    <2>1. over - n * W \in Nat /\ (over - n * W) \div W = q - n /\ q \in Nat
      BY <1>1, <1>10, LinesLess
    <2>2. Below(con) /\ Below(far)
      BY <1>1, <1>3, <1>4, <1>10
    <2> HIDE DEF q
    <2>3. Rounds(far) = 1 + (q - n) /\ Rounds(con) = 1 + q
      BY <1>5, <1>7, <2>1, <2>2
    <2> QED  BY <2>1, <2>3 DEF far
  <1>11. CASE n # 0 /\ ~(n * W <= over)
    <2>1. Below(con) /\ ~Below(far) /\ (n - 1) * W <= over /\ n - 1 \in Nat
      BY <1>1, <1>3, <1>4, <1>11 DEF over
    <2>2. q - (n - 1) = (over - (n - 1) * W) \div W /\ over - (n - 1) * W \in Nat /\ q \in Nat
      BY <1>1, <2>1, LinesLess
    <2>3. (n - 1) * W = n * W - W
      BY <1>1
    <2>4. over - (n - 1) * W < W
      BY <1>1, <1>11, <2>3
    <2>5. PICK e \in 0..W - 1 : e = over - (n - 1) * W
      BY <1>1, <2>2, <2>4
    <2>6. e \div W = 0
      BY <1>1, <2>5
    <2> HIDE DEF q
    <2>7. q = n - 1
      BY <2>1, <2>2, <2>5, <2>6
    <2> QED  BY <1>5, <1>7, <2>1, <2>7 DEF far
  <1> QED  BY <1>9, <1>10, <1>11

\* The loop of out_char moves a console that is in order by its rounds.
LEMMA ScrolledIs ==
    ASSUME NEW c \in Consoles, NEW con \in ConsoleRecord, ConsoleOk(c, con)
    PROVE  Scrolled(c, con) = [con EXCEPT !.start = con.start + Rounds(con) * SCREEN_WIDTH]
  <1> DEFINE start == con.start + Rounds(con) * SCREEN_WIDTH
  <1>1. Scrolled(c, con) = [con EXCEPT !.start = start] \/ Scrolled(c, con) = [con EXCEPT !.start = -1]
    BY DEF Scrolled
  <1>2. Scrolled(c, con).start # -1
    BY ScrolledOk
  <1> QED  BY <1>1, <1>2 DEF ConsoleRecord

\* A console that shows its cursor stays.
LEMMA ScrolledStays ==
    ASSUME NEW c \in Consoles, NEW con \in ConsoleRecord, ConsoleOk(c, con), ~Below(con)
    PROVE  Scrolled(c, con) = con
  <1>1. Rounds(con) = 0 /\ con.start + 0 * SCREEN_WIDTH = con.start
    BY Addresses DEF Rounds, ConsoleRecord
  <1>2. Scrolled(c, con) = [con EXCEPT !.start = con.start]
    BY <1>1, ScrolledIs
  <1> QED  BY <1>2 DEF ConsoleRecord

\* It ends where it would if some of the rounds were done before.
LEMMA ScrolledBefore ==
    ASSUME NEW c \in Consoles, NEW con \in ConsoleRecord, ConsoleOk(c, con), NEW n \in Nat,
           n = 0 \/ (Below(con) /\ (n - 1) * SCREEN_WIDTH <= con.cursor - con.start - SCREEN_SIZE)
    PROVE  Scrolled(c, [con EXCEPT !.start = con.start + n * SCREEN_WIDTH]) = Scrolled(c, con)
  <1> DEFINE W == SCREEN_WIDTH
             far == [con EXCEPT !.start = con.start + n * W]
             k == Rounds(con)
  <1>1. W \in Nat /\ con.start \in Int /\ con.cursor \in Int /\ n * W \in Nat
    BY Addresses, ProductNat DEF ConsoleRecord
  <1>2. far \in ConsoleRecord /\ far.start = con.start + n * W /\ far.cursor = con.cursor
    BY <1>1 DEF ConsoleRecord
  <1>3. ConsoleOk(c, far)
    <2>1. Aligned(c, con.start + n * W)
      BY <1>1, LineMore DEF ConsoleOk
    <2> HIDE DEF far
    <2> QED  BY <1>2, <2>1 DEF ConsoleOk
  <1>4. k \in Nat /\ Rounds(far) = k - n
    BY RoundsLess
  <1>5. Scrolled(c, con) = [con EXCEPT !.start = con.start + k * W]
    BY ScrolledIs
  <1>6. Scrolled(c, far) = [far EXCEPT !.start = far.start + Rounds(far) * W]
    BY <1>2, <1>3, ScrolledIs
  <1> HIDE DEF k
  <1>7. far.start + Rounds(far) * W = con.start + k * W
    <2>1. (k - n) * W = k * W - n * W /\ k * W \in Int
      BY <1>1, <1>4
    <2> HIDE DEF far
    <2> QED  BY <1>1, <1>2, <1>4, <2>1
  <1>8. Scrolled(c, far) = [far EXCEPT !.start = con.start + k * W]
    <2> HIDE DEF far
    <2> QED  BY <1>6, <1>7
  <1> QED  BY <1>5, <1>8 DEF ConsoleRecord

\* The loop goes no round more than it has to.
LEMMA RoundsNeeded ==
    ASSUME NEW con \in ConsoleRecord
    PROVE  /\ Rounds(con) \in Nat
           /\ \/ Rounds(con) = 0
              \/ Below(con) /\ (Rounds(con) - 1) * SCREEN_WIDTH <= con.cursor - con.start - SCREEN_SIZE
  <1> DEFINE W == SCREEN_WIDTH
             over == con.cursor - con.start - SCREEN_SIZE
             k == Rounds(con)
  <1>1. /\ W \in Nat \ {0} /\ SCREEN_SIZE \in Nat /\ con.start \in Int /\ con.cursor \in Int /\ over \in Int
    BY Addresses DEF ConsoleRecord
  <1>2. k \in Nat /\ (k = 0 \/ (Below(con) /\ (k - 1) * W <= over))
    <2>1. CASE Below(con)
      <3>1. over \in Nat
        BY <1>1, <2>1 DEF Below
      <3> DEFINE q == over \div W
      <3>2. q \in Nat /\ W * q <= over
        BY <1>1, <3>1, Floor
      <3>3. k = 1 + q
        BY <2>1 DEF Rounds
      <3> HIDE DEF q, k
      <3>4. k \in Nat /\ k - 1 = q /\ q * W = W * q
        BY <1>1, <3>2, <3>3
      <3> QED  BY <2>1, <3>2, <3>4
    <2>2. CASE ~Below(con)
      BY <2>2 DEF Rounds
    <2> QED  BY <2>1, <2>2
  <1> QED  BY <1>2

\* It shows its cursor when it has gone its rounds.
LEMMA ScrolledShows ==
    ASSUME NEW c \in Consoles, NEW con \in ConsoleRecord, ConsoleOk(c, con)
    PROVE  ~Below(Scrolled(c, con))
  <1> DEFINE W == SCREEN_WIDTH
             over == con.cursor - con.start - SCREEN_SIZE
             k == Rounds(con)
             far == [con EXCEPT !.start = con.start + k * W]
  <1>1. /\ W \in Nat \ {0} /\ SCREEN_SIZE \in Nat /\ con.start \in Int /\ con.cursor \in Int /\ over \in Int
    BY Addresses DEF ConsoleRecord
  <1>2. k \in Nat /\ (k = 0 \/ (Below(con) /\ (k - 1) * W <= over))
    BY RoundsNeeded
  <1>3. Rounds(far) = k - k
    BY <1>2, RoundsLess
  <1>4. Rounds(far) = 0
    <2> HIDE DEF k
    <2> QED  BY <1>2, <1>3
  <1>5. Scrolled(c, con) = far /\ far \in ConsoleRecord
    BY ScrolledIs, ScrolledOk
  <1> HIDE DEF far
  <1>6. Below(far) => FALSE
    <2> SUFFICES ASSUME Below(far)  PROVE FALSE
      OBVIOUS
    <2> DEFINE above == far.cursor - far.start - SCREEN_SIZE
    <2>1. far.cursor \in Int /\ far.start \in Int
      BY <1>5 DEF ConsoleRecord
    <2>2. above \in Nat
      BY <1>1, <2>1 DEF Below
    <2>3. above \div W \in Nat
      BY <1>1, <2>2, Floor
    <2> HIDE DEF above
    <2>4. Rounds(far) = 1 + above \div W
      BY DEF Rounds, above
    <2> QED  BY <1>4, <2>3, <2>4
  <1> QED  BY <1>5, <1>6

-----------------------------------------------------------------------------
(* One character. *)

\* The console after a character.
After(c, x, con) ==
    IF Fits(c, x, con.cursor) THEN Scrolled(c, [con EXCEPT !.cursor = Moved(c, x, con.cursor)])
    ELSE Scrolled(c, con)

LEMMA OutCharIs ==
    ASSUME NEW c \in Consoles, NEW x, NEW cs \in [Consoles -> ConsoleRecord], NEW mem
    PROVE  /\ OutChar(c, x, cs, mem).consoles = [cs EXCEPT ![c] = After(c, x, cs[c])]
           /\ OutChar(c, x, cs, mem).mem
                = IF Fits(c, x, cs[c].cursor) THEN Written(mem, x, cs[c].cursor) ELSE mem
  BY DEF OutChar, After

LEMMA FloorNext ==
    ASSUME NEW w \in Nat \ {0}, NEW d \in Nat
    PROVE  d < w * (1 + (d \div w))
  <1>1. PICK q \in Nat : q = d \div w
    BY Floor
  <1>2. PICK r \in 0..w - 1 : d = w * q + r
    <2>1. d % w \in 0..w - 1 /\ d = w * (d \div w) + (d % w)
      OBVIOUS
    <2> QED  BY <1>1, <2>1
  <1>3. w * (1 + q) = w + w * q /\ w * q \in Nat
    BY ProductNat
  <1> QED  BY <1>1, <1>2, <1>3

\* No character but a backspace takes the cursor back.
LEMMA MovedOn ==
    ASSUME NEW c \in Consoles, NEW x, x # Backspace, NEW cursor \in Int, original_addr(c) <= cursor
    PROVE  Moved(c, x, cursor) \in Int /\ cursor <= Moved(c, x, cursor)
  <1> DEFINE o == original_addr(c)
             W == SCREEN_WIDTH
             d == cursor - o
  <1>1. o \in Nat /\ W \in Nat \ {0} /\ d \in Nat
    BY Addresses
  <1>2. CASE x = Newline
    <2>1. PICK q \in Nat : q = d \div W
      BY <1>1, Floor
    <2>2. d < W * (1 + q)
      BY <1>1, <2>1, FloorNext
    <2>3. Moved(c, x, cursor) = o + W * (1 + q)
      BY <1>2, <2>1 DEF Moved
    <2>4. W * (1 + q) \in Nat
      BY <1>1
    <2> QED  BY <1>1, <2>2, <2>3, <2>4
  <1>3. CASE x # Newline
    BY <1>3 DEF Moved
  <1> QED  BY <1>2, <1>3

LEMMA AfterOk ==
    ASSUME NEW c \in Consoles, NEW x, NEW con \in ConsoleRecord, ConsoleOk(c, con)
    PROVE  After(c, x, con) \in ConsoleRecord /\ ConsoleOk(c, After(c, x, con)) /\ ~Below(After(c, x, con))
  <1>1. con.cursor \in Int
    BY DEF ConsoleRecord
  <1>2. CASE Fits(c, x, con.cursor)
    <2> DEFINE moved == [con EXCEPT !.cursor = Moved(c, x, con.cursor)]
    <2>1. moved \in ConsoleRecord /\ ConsoleOk(c, moved)
      BY <1>1, <1>2, MovedInside DEF ConsoleRecord, ConsoleOk
    <2> HIDE DEF moved
    <2>2. Scrolled(c, moved) \in ConsoleRecord /\ ConsoleOk(c, Scrolled(c, moved)) /\ ~Below(Scrolled(c, moved))
      BY <2>1, ScrolledOk, ScrolledShows
    <2> QED  BY <1>2, <2>2 DEF After, moved
  <1>3. CASE ~Fits(c, x, con.cursor)
    BY <1>3, ScrolledOk, ScrolledShows DEF After
  <1> QED  BY <1>2, <1>3

\* A character that is printed on a console that is still to scroll for another
\* one leaves it as if it had scrolled, unless it is a backspace.
LEMMA AfterScrolled ==
    ASSUME NEW c \in Consoles, NEW x, x # Backspace, NEW con \in ConsoleRecord, ConsoleOk(c, con)
    PROVE  After(c, x, Scrolled(c, con)) = After(c, x, con)
  <1> DEFINE W == SCREEN_WIDTH
             n == Rounds(con)
             far == [con EXCEPT !.start = con.start + n * W]
  <1>1. /\ W \in Nat \ {0} /\ SCREEN_SIZE \in Nat /\ con.start \in Int /\ con.cursor \in Int
    BY Addresses DEF ConsoleRecord
  <1>2. n \in Nat /\ (n = 0 \/ (Below(con) /\ (n - 1) * W <= con.cursor - con.start - SCREEN_SIZE))
    BY RoundsNeeded
  <1>3. Scrolled(c, con) = far /\ far.cursor = con.cursor
    BY ScrolledIs DEF ConsoleRecord
  <1> HIDE DEF n
  <1>4. CASE Fits(c, x, con.cursor)
    <2> DEFINE to == Moved(c, x, con.cursor)
               moved == [con EXCEPT !.cursor = to]
    <2>1. moved \in ConsoleRecord /\ ConsoleOk(c, moved)
      BY <1>1, <1>4, MovedInside DEF ConsoleRecord, ConsoleOk
    <2>2. to \in Int /\ con.cursor <= to
      BY <1>1, MovedOn DEF ConsoleOk, Inside
    <2>3. moved.cursor = to /\ moved.start = con.start
      BY DEF ConsoleRecord
    <2>4. n = 0 \/ (Below(moved) /\ (n - 1) * W <= moved.cursor - moved.start - SCREEN_SIZE)
      <3> HIDE DEF moved, to
      <3>1. Below(con) => Below(moved)
        BY <1>1, <2>2, <2>3 DEF Below
      <3>2. (n - 1) * W \in Int
        BY <1>1, <1>2
      <3> QED  BY <1>1, <1>2, <2>2, <2>3, <3>1, <3>2
    <2>5. Scrolled(c, [moved EXCEPT !.start = moved.start + n * W]) = Scrolled(c, moved)
      <3> HIDE DEF moved
      <3> QED  BY <1>2, <2>1, <2>4, ScrolledBefore
    <2>6. [moved EXCEPT !.start = moved.start + n * W] = [far EXCEPT !.cursor = to]
      BY DEF ConsoleRecord
    <2>7. Scrolled(c, [far EXCEPT !.cursor = to]) = Scrolled(c, moved)
      BY <2>5, <2>6
    <2> HIDE DEF far
    <2> QED  BY <1>3, <1>4, <2>7 DEF After
  <1>5. CASE ~Fits(c, x, con.cursor)
    <2>1. Scrolled(c, far) = Scrolled(c, con)
      BY <1>2, ScrolledBefore
    <2> HIDE DEF far
    <2> QED  BY <1>3, <1>5, <2>1 DEF After
  <1> QED  BY <1>4, <1>5

\* The consoles lie behind each other.
LEMMA ConsolesApart ==
    ASSUME NEW c \in Consoles, NEW d \in Consoles, c # d, NEW a \in Int, NEW b \in Int,
           Inside(c, a), Inside(d, b)
    PROVE  a # b
  <1>1. c \in Nat /\ d \in Nat /\ v_mem_limit \in Nat
    BY Addresses DEF Consoles
  <1>2. ASSUME NEW e \in Nat, NEW f \in Nat, e < f  PROVE e * v_mem_limit + v_mem_limit <= f * v_mem_limit
    <2>1. PICK g \in Nat : f = e + 1 + g
      <3>1. f - e - 1 \in Nat /\ f = e + 1 + (f - e - 1)
        BY <1>2
      <3> QED  BY <3>1
    <2>2. f * v_mem_limit = e * v_mem_limit + v_mem_limit + g * v_mem_limit
      BY <1>1, <2>1
    <2>3. g * v_mem_limit \in Nat /\ e * v_mem_limit \in Nat
      BY <1>1, ProductNat
    <2> QED  BY <1>1, <2>2, <2>3
  <1>3. c * v_mem_limit \in Nat /\ d * v_mem_limit \in Nat
    BY <1>1, ProductNat
  <1>4. CASE c < d
    BY <1>1, <1>2, <1>3, <1>4 DEF Inside, original_addr
  <1>5. CASE d < c
    BY <1>1, <1>2, <1>3, <1>5 DEF Inside, original_addr
  <1> QED  BY <1>1, <1>4, <1>5

\* So characters on different consoles change different cells.
LEMMA WrittenApart ==
    ASSUME NEW c \in Consoles, NEW d \in Consoles, c # d, NEW a \in Int, NEW b \in Int,
           Inside(c, a), Inside(d, b), NEW x, NEW y, NEW mem,
           x = Backspace => original_addr(c) < a, y = Backspace => original_addr(d) < b
    PROVE  Written(Written(mem, x, a), y, b) = Written(Written(mem, y, b), x, a)
  <1> DEFINE i == IF x = Backspace THEN a - 1 ELSE a
             j == IF y = Backspace THEN b - 1 ELSE b
  <1>1. i \in Int /\ j \in Int /\ Inside(c, i) /\ Inside(d, j)
    BY Addresses DEF Inside
  <1>2. i # j
    BY <1>1, ConsolesApart
  <1>3. PICK u : \A m : Written(m, x, a) = IF x = Newline THEN m ELSE [m EXCEPT ![i] = u]
    BY DEF Written, Newline, Backspace
  <1>4. PICK v : \A m : Written(m, y, b) = IF y = Newline THEN m ELSE [m EXCEPT ![j] = v]
    BY DEF Written, Newline, Backspace
  <1> HIDE DEF i, j
  <1>5. [[mem EXCEPT ![i] = u] EXCEPT ![j] = v] = [[mem EXCEPT ![j] = v] EXCEPT ![i] = u]
    BY <1>2
  <1> QED  BY <1>3, <1>4, <1>5

-----------------------------------------------------------------------------
(* The history variable ideal and what TASK_TTY has still to do to get there. *)

NoBackspacePrinted == Backspace \notin Printed

InLoop == pc = "loop" \/ (back = "loop" /\ pc \in {"down", "down load", "scroll store", "flush"} \cup Setting)

\* What becomes of TASK_TTY's console until its character is done.
Aim ==
    CASE pc = "test" -> After(p_tty, ch, Con)
      [] pc \in {"cell", "load"} -> Scrolled(p_tty, [Con EXCEPT !.cursor = Moved(p_tty, ch, Con.cursor)])
      [] pc = "store" -> Scrolled(p_tty, [Con EXCEPT !.cursor = reg])
      [] pc = "backspace cell" \/ InLoop -> Scrolled(p_tty, Con)
      [] OTHER -> Con

\* Whether its cell is still to be written, and video memory when it is.
Owed ==
    \/ pc = "test" /\ Fits(p_tty, ch, Con.cursor)
    \/ pc = "cell"
    \/ ch = Backspace /\ pc \in {"load", "store", "backspace cell"}
AimMem == IF Owed THEN Written(v_mem, ch, p_vmem) ELSE v_mem

\* What TASK_TTY knows of its own steps.
Knows ==
    /\ pc \in {"test", "cell", "load", "store", "backspace cell"} => Inside(p_tty, p_vmem)
    /\ pc = "backspace cell" => ch = Backspace
    /\ pc \in {"down load", "scroll store"} /\ back = "loop" => Below(Con)
    /\ pc = "scroll store" /\ back = "loop" => reg = Con.start + SCREEN_WIDTH
    /\ pc \in {"up", "up load"} => back = "write"
    /\ pc \in {"down", "down load", "scroll store"} => back \in {"loop", "write"}

Agrees ==
    /\ \A c \in Consoles : ideal.consoles[c] = IF c = p_tty THEN Aim ELSE console[c]
    /\ ideal.mem = AimMem

EchoInv ==
    /\ ideal = [consoles |-> ideal.consoles, mem |-> ideal.mem]
    /\ ideal.consoles \in [Consoles -> ConsoleRecord] /\ DOMAIN ideal.mem = Cells
    /\ ~raced => Agrees /\ Knows

\* With no print between, everything is as TASK_TTY relies on.
LEMMA Unraced ==
    ASSUME InsideInv, ~raced
    PROVE  /\ \A c \in Consoles : ConsoleOk(c, console[c]) /\ console[c] \in ConsoleRecord
           /\ p_tty \in Consoles /\ Con \in ConsoleRecord /\ ConsoleOk(p_tty, Con) /\ Relies(p_tty)
           /\ Con.cursor \in Int /\ Con.start \in Int
  BY DEF InsideInv, Safe, Con, ConsoleRecord

\* A step that changes neither consoles nor memory.
LEMMA AimStays ==
    ASSUME EchoInv, UNCHANGED <<console, v_mem, ideal, raced, p_tty>>,
           ~raced /\ Knows => Aim' = Aim /\ AimMem' = AimMem /\ Knows'
    PROVE  EchoInv'
  BY DEF EchoInv, Agrees

\* At rest nothing is to do.
Idle == {"read", "keyboard", "write", "out", "next"}
LEMMA IdleAims ==
    ASSUME pc \in Idle
    PROVE  Aim = Con /\ AimMem = v_mem /\ Knows
  BY DEF Idle, Aim, InLoop, AimMem, Owed, Knows, Setting
LEMMA IdleAimsNext ==
    ASSUME pc' \in Idle
    PROVE  Aim' = Con' /\ AimMem' = v_mem' /\ Knows'
  BY DEF Idle, Aim, InLoop, AimMem, Owed, Knows, Setting

LEMMA IdleEcho ==
    ASSUME EchoInv, UNCHANGED <<console, v_mem, ideal, raced>>, pc \in Idle, pc' \in Idle,
           p_tty \in Consoles, p_tty' \in Consoles
    PROVE  EchoInv'
  <1>1. Aim = Con /\ AimMem = v_mem
    BY IdleAims
  <1>2. Aim' = Con' /\ AimMem' = v_mem' /\ Knows'
    BY IdleAimsNext
  <1>3. ~raced => \A c \in Consoles : ideal.consoles[c] = console[c]
    BY <1>1 DEF EchoInv, Agrees, Con
  <1>4. ~raced => \A c \in Consoles : ideal'.consoles[c] = IF c = p_tty' THEN Aim' ELSE console'[c]
    BY <1>2, <1>3 DEF Con
  <1>5. ~raced => ideal'.mem = AimMem'
    BY <1>1, <1>2 DEF EchoInv, Agrees
  <1> QED  BY <1>2, <1>4, <1>5 DEF EchoInv, Agrees

\* The steps between the characters.
LEMMA EchoBetween ==
    ASSUME InsideInv, EchoInv,
           \/ tty_do_read \/ ReadOn \/ NothingRead \/ tty_input_process
           \/ NothingToWrite \/ tty_do_write \/ OutEnds \/ Typed
    PROVE  EchoInv'
  <1> USE DEF Goes
  <1>0. p_tty \in Consoles
    BY DEF InsideInv
  <1>1. CASE tty_do_read \/ ReadOn \/ NothingRead
    BY <1>0, <1>1, IdleEcho DEF tty_do_read, ReadOn, NothingRead, consoleVars, printVars, Idle
  <1>2. CASE NothingToWrite \/ tty_do_write \/ OutEnds
    BY <1>0, <1>2, IdleEcho, NextTtyType DEF NothingToWrite, tty_do_write, OutEnds, consoleVars, printVars, Idle
  <1>3. CASE tty_input_process
    <2>1. CASE InputChar \/ InputNothing
      BY <1>0, <1>3, <2>1, IdleEcho
         DEF tty_input_process, InputChar, InputNothing, consoleVars, printVars, Idle
    <2>2. CASE InputScroll \/ select_console
      <3>1. /\ UNCHANGED <<console, v_mem, ideal, raced, p_tty>> /\ pc = "keyboard"
            /\ pc' \in {"up", "down", "flush cursor"} /\ back' = "write"
        <4>1. raced' = raced /\ p_tty' = p_tty
          BY <1>3 DEF tty_input_process, printVars
        <4>2. CASE InputScroll
          <5>1. pc' \in {"up", "down"} /\ back' = "write"
            BY <4>2 DEF InputScroll, Scrolls, ScrollKeys
          <5> QED  BY <4>1, <4>2, <5>1 DEF InputScroll, consoleVars
        <4>3. CASE select_console
          BY <4>1, <4>3 DEF select_console, consoleVars
        <4> QED  BY <2>2, <4>2, <4>3
      <3>2. Aim = Con /\ AimMem = v_mem
        BY <3>1, IdleAims DEF Idle
      <3>3. Aim' = Con' /\ AimMem' = v_mem' /\ Knows'
        BY <3>1 DEF Aim, InLoop, AimMem, Owed, Knows
      <3>4. Con' = Con
        BY <3>1 DEF Con
      <3> QED  BY <3>1, <3>2, <3>3, <3>4, AimStays
    <2> QED  BY <1>3, <2>1, <2>2 DEF tty_input_process
  <1>4. CASE Typed
    <2>1. UNCHANGED <<console, v_mem, ideal, raced, p_tty, pc, back, ch, p_vmem, reg>>
      BY <1>4 DEF Typed, consoleVars, localVars, printVars
    <2>2. Aim' = Aim /\ AimMem' = AimMem /\ (Knows => Knows')
      BY <2>1 DEF Aim, AimMem, Owed, InLoop, Knows, Con, Fits, After, Scrolled, Inside, Below
    <2> QED  BY <2>1, <2>2, AimStays
  <1> QED  BY <1>1, <1>2, <1>3, <1>4

\* out_char, access by access: what is done is no longer to do.
LEMMA EchoOut ==
    ASSUME InsideInv, EchoInv, OutStarts \/ OutTest \/ OutCell \/ OutLoad \/ OutStore \/ OutLoop
    PROVE  EchoInv'
  <1> USE DEF Goes, Setting
  <1>0. ASSUME ~raced
        PROVE  /\ p_tty \in Consoles /\ Con \in ConsoleRecord /\ ConsoleOk(p_tty, Con) /\ Relies(p_tty)
               /\ Con.cursor \in Int /\ Con.start \in Int
    BY <1>0, Unraced
  <1>1. CASE OutStarts
    <2>1. /\ pc = "out" /\ pc' = "test" /\ p_vmem' = Con.cursor
          /\ UNCHANGED <<console, v_mem, ch, raced, p_tty, back, reg>>
          /\ ideal' = OutChar(p_tty, ch, ideal.consoles, ideal.mem)
      BY <1>1 DEF OutStarts, Still, printVars
    <2> DEFINE cs == ideal.consoles
               mem == ideal.mem
    <2>2. p_tty \in Consoles /\ cs \in [Consoles -> ConsoleRecord] /\ DOMAIN mem = Cells
      BY DEF InsideInv, EchoInv
    <2>3. /\ ideal'.consoles = [cs EXCEPT ![p_tty] = After(p_tty, ch, cs[p_tty])]
          /\ ideal'.mem = IF Fits(p_tty, ch, cs[p_tty].cursor) THEN Written(mem, ch, cs[p_tty].cursor) ELSE mem
      BY <2>1, <2>2, OutCharIs
    <2>4. /\ ideal' = [consoles |-> ideal'.consoles, mem |-> ideal'.mem]
          /\ ideal'.consoles \in [Consoles -> ConsoleRecord] /\ DOMAIN ideal'.mem = Cells
      <3>1. ideal' = [consoles |-> ideal'.consoles, mem |-> ideal'.mem]
        BY <2>1 DEF OutChar
      <3>2. OutChar(p_tty, ch, cs, mem).consoles \in [Consoles -> ConsoleRecord]
            /\ DOMAIN OutChar(p_tty, ch, cs, mem).mem = Cells
        BY <2>2, OutCharOk
      <3> QED  BY <2>1, <3>1, <3>2
    <2>5. ASSUME ~raced  PROVE (Agrees /\ Knows)'
      <3>1. Agrees /\ Aim = Con /\ AimMem = v_mem
        BY <2>1, <2>5, IdleAims DEF EchoInv, Idle
      <3>2. cs[p_tty] = Con /\ mem = v_mem /\ \A c \in Consoles : cs[c] = console[c]
        BY <2>2, <3>1 DEF Agrees, Con
      <3>3. Con' = Con
        BY <2>1 DEF Con
      <3>4. Aim' = After(p_tty, ch, Con)
        BY <2>1, <3>3 DEF Aim, After, InLoop
      <3>5. AimMem' = IF Fits(p_tty, ch, Con.cursor) THEN Written(v_mem, ch, Con.cursor) ELSE v_mem
        <4>1. Owed' <=> Fits(p_tty, ch, Con.cursor)
          BY <2>1, <3>3 DEF Owed, Fits
        <4> QED  BY <2>1, <4>1 DEF AimMem
      <3>6. \A c \in Consoles : ideal'.consoles[c] = IF c = p_tty THEN Aim' ELSE console[c]
        BY <2>2, <2>3, <3>2, <3>4
      <3>7. ideal'.mem = AimMem'
        BY <2>3, <3>2, <3>5
      <3>8. Agrees'
        BY <2>1, <3>6, <3>7 DEF Agrees
      <3>9. Inside(p_tty, p_vmem)'
        BY <1>0, <2>1, <2>5 DEF ConsoleOk, Inside
      <3> QED  BY <2>1, <3>8, <3>9 DEF Knows
    <2> QED  BY <2>1, <2>4, <2>5 DEF EchoInv
  <1>2. CASE OutTest
    <2>0. /\ UNCHANGED <<console, v_mem, ideal, raced, p_tty, ch, p_vmem, reg, back>> /\ Con' = Con
          /\ pc = "test"
          /\ \/ Fits(p_tty, ch, Con.cursor) /\ ch \in {Newline, Backspace} /\ pc' = "load"
             \/ Fits(p_tty, ch, Con.cursor) /\ ch \notin {Newline, Backspace} /\ pc' = "cell"
             \/ ~Fits(p_tty, ch, Con.cursor) /\ pc' = "loop"
      BY <1>2 DEF OutTest, consoleVars, localVars, Still, printVars, Con
    <2>1. Aim' = Aim
      BY <2>0 DEF Aim, After, InLoop, Newline, Backspace
    <2>2. AimMem' = AimMem
      <3>1. ch = Newline => Written(v_mem, ch, p_vmem) = v_mem
        BY DEF Written, Newline, Backspace
      <3> QED  BY <2>0, <3>1 DEF AimMem, Owed, Newline, Backspace
    <2>3. Knows => Knows'
      BY <2>0 DEF Knows, Inside
    <2> QED  BY <2>0, <2>1, <2>2, <2>3, AimStays
  <1>3. CASE OutCell
    <2>0. /\ UNCHANGED <<console, ideal, raced, p_tty, ch, p_vmem, reg, back>> /\ Con' = Con
          /\ v_mem' = Written(v_mem, ch, p_vmem)
          /\ \/ pc = "cell" /\ pc' = "load"
             \/ pc = "backspace cell" /\ pc' = "loop"
      BY <1>3 DEF OutCell, localVars, Still, printVars, Con
    <2>1. Aim' = Aim
      BY <2>0 DEF Aim, InLoop
    <2>2. ASSUME ~raced  PROVE (Agrees /\ Knows)'
      <3>1. Agrees /\ Knows
        BY <2>2 DEF EchoInv
      <3>2. AimMem = v_mem'
        BY <2>0, <3>1 DEF AimMem, Owed, Knows
      <3>3. ~Owed'
        BY <1>0, <2>0, <2>2 DEF Owed, Relies
      <3>4. AimMem' = v_mem'
        BY <3>3 DEF AimMem
      <3>5. Knows'
        BY <2>0, <3>1 DEF Knows, Inside
      <3> QED  BY <2>0, <2>1, <3>1, <3>2, <3>4, <3>5 DEF Agrees
    <2> QED  BY <2>0, <2>2 DEF EchoInv
  <1>4. CASE OutLoad
    <2>0. /\ UNCHANGED <<console, v_mem, ideal, raced, p_tty, ch, p_vmem, back>> /\ Con' = Con
          /\ pc = "load" /\ pc' = "store" /\ reg' = Moved(p_tty, ch, Con.cursor)
      BY <1>4 DEF OutLoad, consoleVars, Still, printVars, Con
    <2>1. Aim' = Aim
      BY <2>0 DEF Aim, Scrolled
    <2>2. AimMem' = AimMem
      BY <2>0 DEF AimMem, Owed
    <2>3. Knows => Knows'
      BY <2>0 DEF Knows, Inside
    <2> QED  BY <2>0, <2>1, <2>2, <2>3, AimStays
  <1>5. CASE OutStore
    <2>0. /\ UNCHANGED <<v_mem, ideal, raced, p_tty, ch, p_vmem, reg, back>>
          /\ console' = [console EXCEPT ![p_tty].cursor = reg]
          /\ pc = "store" /\ pc' = (IF ch = Backspace THEN "backspace cell" ELSE "loop")
      BY <1>5 DEF OutStore, localVars, Still, printVars
    <2>1. p_tty \in Consoles /\ console \in [Consoles -> ConsoleRecord]
      BY DEF InsideInv
    <2>2. Con' = [Con EXCEPT !.cursor = reg] /\ \A c \in Consoles : c # p_tty => console'[c] = console[c]
      BY <2>0, <2>1 DEF Con
    <2>3. Aim' = Aim
      <3>1. Aim = Scrolled(p_tty, [Con EXCEPT !.cursor = reg])
        BY <2>0 DEF Aim, InLoop
      <3>2. Aim' = Scrolled(p_tty, Con')
        BY <2>0 DEF Aim, InLoop, Scrolled
      <3> QED  BY <2>2, <3>1, <3>2
    <2>4. AimMem' = AimMem
      BY <2>0 DEF AimMem, Owed
    <2>5. Knows => Knows'
      BY <2>0 DEF Knows, Inside
    <2> QED  BY <2>0, <2>2, <2>3, <2>4, <2>5 DEF EchoInv, Agrees
  <1>6. CASE OutLoop
    <2>0. /\ UNCHANGED <<console, v_mem, ideal, raced, p_tty, ch, p_vmem, reg>> /\ Con' = Con
          /\ pc = "loop"
          /\ \/ Below(Con) /\ pc' = "down" /\ back' = "loop"
             \/ ~Below(Con) /\ pc' = "flush" /\ back' = "next"
      BY <1>6 DEF OutLoop, consoleVars, Still, printVars, Con
    <2>1. ~raced => Aim' = Aim
      <3>1. Aim = Scrolled(p_tty, Con)
        BY <2>0 DEF Aim, InLoop
      <3>2. CASE pc' = "down" /\ back' = "loop"
        <4>1. Aim' = Scrolled(p_tty, Con')
          BY <2>0, <3>2 DEF Aim, InLoop, Scrolled
        <4> QED  BY <2>0, <3>1, <4>1
      <3>3. CASE ~Below(Con) /\ pc' = "flush" /\ back' = "next"
        <4>1. Aim' = Con'
          BY <2>0, <3>3 DEF Aim, InLoop
        <4> QED  BY <1>0, <2>0, <3>1, <3>3, <4>1, ScrolledStays
      <3> QED  BY <2>0, <3>2, <3>3
    <2>2. AimMem' = AimMem
      BY <2>0 DEF AimMem, Owed
    <2>3. Knows => Knows'
      BY <2>0 DEF Knows
    <2> QED  BY <2>0, <2>1, <2>2, <2>3, AimStays
  <1> QED  BY <1>1, <1>2, <1>3, <1>4, <1>5, <1>6

\* A line less to scroll.
LEMMA OneLine ==
    ASSUME NEW c \in Consoles, NEW con \in ConsoleRecord, ConsoleOk(c, con), Below(con)
    PROVE  Scrolled(c, [con EXCEPT !.start = con.start + SCREEN_WIDTH]) = Scrolled(c, con)
  <1>1. /\ con.cursor \in Int /\ con.start \in Int /\ SCREEN_SIZE \in Nat /\ SCREEN_WIDTH \in Nat
    BY Addresses DEF ConsoleRecord
  <1>2. 1 \in Nat /\ 1 * SCREEN_WIDTH = SCREEN_WIDTH /\ (1 - 1) * SCREEN_WIDTH = 0
    BY <1>1
  <1>3. (1 - 1) * SCREEN_WIDTH <= con.cursor - con.start - SCREEN_SIZE
    BY <1>1, <1>2 DEF Below
  <1>4. Scrolled(c, [con EXCEPT !.start = con.start + 1 * SCREEN_WIDTH]) = Scrolled(c, con)
    BY <1>2, <1>3, ScrolledBefore
  <1> QED  BY <1>2, <1>4

\* scroll_screen, in out_char's loop or for a key, which is for both what is ideal.
LEMMA EchoScroll ==
    ASSUME InsideInv, EchoInv, scroll_screen
    PROVE  EchoInv'
  <1> USE DEF Goes, Setting
  <1>0. ASSUME ~raced
        PROVE  /\ p_tty \in Consoles /\ Con \in ConsoleRecord /\ ConsoleOk(p_tty, Con) /\ Relies(p_tty)
               /\ Con.cursor \in Int /\ Con.start \in Int
    BY <1>0, Unraced
  <1>1. ASSUME NEW dir \in {"down", "up"}, ScrollTest(dir)
        PROVE  EchoInv'
    <2>0. /\ UNCHANGED <<console, v_mem, ideal, raced, p_tty, ch, p_vmem, reg, back>> /\ Con' = Con
          /\ \/ pc = "down" /\ pc' = IF CanScroll(p_tty, Con.start) THEN "down load" ELSE "flush"
             \/ pc = "up" /\ pc' \in {"up load", "flush"}
      BY <1>1 DEF ScrollTest, MayScroll, LoadOf, consoleVars, localVars, Still, printVars, Con
    <2>1. Knows => Aim' = Aim
      BY <2>0 DEF Aim, InLoop, Knows
    <2>2. AimMem' = AimMem
      BY <2>0 DEF AimMem, Owed
    <2>3. ASSUME ~raced, Knows  PROVE Knows'
      <3>1. pc = "down" /\ back = "loop" => Below(Con)
        BY <1>0, <2>3 DEF Relies, Con
      <3> QED  BY <2>0, <2>3, <3>1 DEF Knows
    <2> QED  BY <2>0, <2>1, <2>2, <2>3, AimStays
  <1>2. ASSUME NEW dir \in {"down", "up"}, ScrollLoad(dir)
        PROVE  EchoInv'
    <2>0. /\ UNCHANGED <<console, v_mem, ideal, raced, p_tty, ch, p_vmem, back>> /\ Con' = Con
          /\ pc' = "scroll store"
          /\ \/ pc = "down load" /\ reg' = Con.start + SCREEN_WIDTH
             \/ pc = "up load"
      BY <1>2 DEF ScrollLoad, Distance, LoadOf, consoleVars, Still, printVars, Con
    <2>1. Knows => Aim' = Aim
      BY <2>0 DEF Aim, InLoop, Knows
    <2>2. AimMem' = AimMem
      BY <2>0 DEF AimMem, Owed
    <2>3. Knows => Knows'
      BY <2>0 DEF Knows
    <2> QED  BY <2>0, <2>1, <2>2, <2>3, AimStays
  <1>3. CASE ScrollStore
    <2>0. /\ UNCHANGED <<v_mem, raced, p_tty, ch, p_vmem, reg, back>>
          /\ pc = "scroll store" /\ pc' = "flush"
          /\ console' = [console EXCEPT ![p_tty].start = reg]
          /\ ideal' = IF back = "loop" THEN ideal ELSE [ideal EXCEPT !.consoles[p_tty].start = reg]
      BY <1>3 DEF ScrollStore, localVars, Still, printVars
    <2>1. /\ p_tty \in Consoles /\ console \in [Consoles -> ConsoleRecord] /\ reg \in Int
          /\ ideal = [consoles |-> ideal.consoles, mem |-> ideal.mem]
          /\ ideal.consoles \in [Consoles -> ConsoleRecord] /\ DOMAIN ideal.mem = Cells
      BY DEF InsideInv, EchoInv
    <2>2. Con' = [Con EXCEPT !.start = reg] /\ \A c \in Consoles : c # p_tty => console'[c] = console[c]
      BY <2>0, <2>1 DEF Con
    <2>3. AimMem = v_mem /\ AimMem' = v_mem'
      BY <2>0 DEF AimMem, Owed
    <2>4. Knows => Knows'
      BY <2>0 DEF Knows
    <2>5. CASE back = "loop"
      <3>1. ASSUME ~raced, Knows  PROVE Aim' = Aim
        <4>1. Aim = Scrolled(p_tty, Con)
          BY <2>0, <2>5 DEF Aim, InLoop
        <4>2. Aim' = Scrolled(p_tty, Con')
          BY <2>0, <2>5 DEF Aim, InLoop
        <4>3. Below(Con) /\ reg = Con.start + SCREEN_WIDTH
          BY <2>0, <2>5, <3>1 DEF Knows
        <4> QED  BY <1>0, <2>2, <3>1, <4>1, <4>2, <4>3, OneLine
      <3>2. ideal' = ideal
        BY <2>0, <2>5
      <3> QED  BY <2>0, <2>2, <2>3, <2>4, <3>1, <3>2 DEF EchoInv, Agrees
    <2>6. CASE back # "loop"
      <3> DEFINE cs == [ideal.consoles EXCEPT ![p_tty].start = reg]
      <3>1. ideal' = [consoles |-> cs, mem |-> ideal.mem]
        BY <2>0, <2>1, <2>6
      <3>2. /\ cs[p_tty] = [ideal.consoles[p_tty] EXCEPT !.start = reg]
            /\ \A c \in Consoles : c # p_tty => cs[c] = ideal.consoles[c]
            /\ cs \in [Consoles -> ConsoleRecord]
        BY <2>1 DEF ConsoleRecord
      <3> HIDE DEF cs
      <3>3. Aim = Con /\ Aim' = Con'
        BY <2>0, <2>6 DEF Aim, InLoop
      <3>4. ideal'.consoles = cs /\ ideal'.mem = ideal.mem
        BY <3>1
      <3>5. ideal' = [consoles |-> ideal'.consoles, mem |-> ideal'.mem]
        BY <3>1, <3>4
      <3>6. ASSUME Agrees  PROVE Agrees'
        <4>1. cs[p_tty] = Con'
          BY <2>1, <2>2, <3>2, <3>3, <3>6 DEF Agrees
        <4>2. \A c \in Consoles : c # p_tty => cs[c] = console'[c]
          BY <2>2, <3>2, <3>6 DEF Agrees
        <4>3. \A c \in Consoles : ideal'.consoles[c] = IF c = p_tty THEN Aim' ELSE console'[c]
          BY <3>3, <3>4, <4>1, <4>2
        <4>4. ideal'.mem = AimMem'
          BY <2>0, <2>3, <3>4, <3>6 DEF Agrees
        <4>5. p_tty' = p_tty
          BY <2>0
        <4> QED  BY <4>3, <4>4, <4>5 DEF Agrees
      <3> QED  BY <2>0, <2>1, <2>4, <3>2, <3>4, <3>5, <3>6 DEF EchoInv
    <2> QED  BY <2>5, <2>6
  <1> QED  BY <1>1, <1>2, <1>3 DEF scroll_screen

\* flush and what it calls change neither console nor memory.
LEMMA EchoFlush ==
    ASSUME InsideInv, EchoInv, flush \/ FlushLoad \/ FlushSet
    PROVE  EchoInv'
  <1> USE DEF Goes, Setting
  <1>1. /\ UNCHANGED <<console, v_mem, ideal, raced, p_tty, ch, p_vmem, back>> /\ Con' = Con
        /\ back \in {"read", "write", "loop", "next"}
        /\ pc \in {"flush"} \cup Setting
        /\ pc' \in Setting \/ pc' = back
    BY DEF flush, FlushLoad, FlushSet, consoleVars, localVars, Still, printVars, InsideInv, Con
  <1>2. Aim' = Aim
    BY <1>1 DEF Aim, InLoop
  <1>3. AimMem' = AimMem
    BY <1>1 DEF AimMem, Owed
  <1>4. Knows => Knows'
    BY <1>1 DEF Knows
  <1> QED  BY <1>1, <1>2, <1>3, <1>4, AimStays

\* What is owed to memory lies in TASK_TTY's console.
LEMMA OwedInside ==
    ASSUME InsideInv, ~raced, Knows, Owed
    PROVE  Inside(p_tty, p_vmem) /\ (ch = Backspace => original_addr(p_tty) < p_vmem)
  <1>1. Relies(p_tty)
    BY Unraced
  <1> QED  BY <1>1 DEF Relies, Con, Knows, Owed, Fits, Newline, Backspace

\* A character that a process prints comes to the same on both.
LEMMA EchoPrint ==
    ASSUME InsideInv, EchoInv, NEW x, x # Backspace, sys_write(x)
    PROVE  EchoInv'
  <1> DEFINE cs == ideal.consoles
             mem == ideal.mem
             was == console[0]
             after == OutChar(0, x, console, v_mem)
  <1>1. /\ 0 \in Consoles /\ console \in [Consoles -> ConsoleRecord] /\ DOMAIN v_mem = Cells
        /\ cs \in [Consoles -> ConsoleRecord] /\ DOMAIN mem = Cells
        /\ p_tty \in Consoles
    BY TerminalAssumption DEF Consoles, InsideInv, EchoInv
  <1>2. /\ UNCHANGED <<pc, p_tty, ch, p_vmem, reg, back>>
        /\ v_mem' = after.mem
        /\ after.consoles[0].start # -1 => console' = after.consoles
        /\ ideal' = OutChar(0, x, cs, mem)
        /\ raced' = (raced \/ BetweenAccesses)
    BY DEF sys_write, localVars
  <1>3. /\ ideal'.consoles = [cs EXCEPT ![0] = After(0, x, cs[0])]
        /\ ideal'.mem = IF Fits(0, x, cs[0].cursor) THEN Written(mem, x, cs[0].cursor) ELSE mem
    BY <1>1, <1>2, OutCharIs
  <1>4. /\ after.consoles = [console EXCEPT ![0] = After(0, x, was)]
        /\ after.mem = IF Fits(0, x, was.cursor) THEN Written(v_mem, x, was.cursor) ELSE v_mem
    BY DEF OutChar, After
  <1>5. /\ ideal' = [consoles |-> ideal'.consoles, mem |-> ideal'.mem]
        /\ ideal'.consoles \in [Consoles -> ConsoleRecord] /\ DOMAIN ideal'.mem = Cells
    <2>1. ideal' = [consoles |-> ideal'.consoles, mem |-> ideal'.mem]
      BY <1>2 DEF OutChar
    <2>2. 0 \in Consoles /\ cs \in [Consoles -> ConsoleRecord] /\ DOMAIN mem = Cells
      BY <1>1
    <2>3. /\ OutChar(0, x, cs, mem).consoles \in [Consoles -> ConsoleRecord]
          /\ DOMAIN OutChar(0, x, cs, mem).mem = Cells
      BY <2>2, OutCharOk
    <2> QED  BY <1>2, <2>1, <2>3
  <1>6. ConsoleOk(0, was) => after.consoles[0].start # -1
    <2>1. 0 \in Consoles /\ console \in [Consoles -> ConsoleRecord] /\ DOMAIN v_mem = Cells
      BY <1>1
    <2>2. ConsoleOk(0, console[0]) => OutChar(0, x, console, v_mem).consoles[0].start # -1
      BY ONLY <2>1, OutCharOk
    <2> QED  BY <2>2
  <1> HIDE DEF after
  <1>7. ASSUME ~raced'
        PROVE  (Agrees /\ Knows)'
    <2>1. ~raced /\ Agrees /\ Knows /\ ~BetweenAccesses
      BY <1>2, <1>7 DEF EchoInv
    <2>2. /\ was \in ConsoleRecord /\ ConsoleOk(0, was)
          /\ Con \in ConsoleRecord /\ ConsoleOk(p_tty, Con) /\ Con.cursor \in Int
          /\ was.cursor \in Int /\ Inside(0, was.cursor) /\ p_vmem \in Int
      BY <1>1, <2>1, Unraced DEF ConsoleRecord, ConsoleOk, InsideInv
    <2>3. /\ console' = [console EXCEPT ![0] = After(0, x, was)]
          /\ v_mem' = IF Fits(0, x, was.cursor) THEN Written(v_mem, x, was.cursor) ELSE v_mem
      BY <1>2, <1>4, <1>6, <2>2
    <2>4. /\ console'[0] = After(0, x, was) /\ ideal'.consoles[0] = After(0, x, cs[0])
          /\ \A c \in Consoles : c # 0 => console'[c] = console[c] /\ ideal'.consoles[c] = cs[c]
      BY <1>1, <1>3, <2>3
    <2>5. /\ \A c \in Consoles : cs[c] = IF c = p_tty THEN Aim ELSE console[c]
          /\ mem = AimMem
      BY <2>1 DEF Agrees
    <2> HIDE DEF cs, mem
    <2>6. CASE p_tty = 0
      <3>1. pc \notin {"test", "cell", "load", "store", "backspace cell",
                       "down", "down load", "up", "up load", "scroll store"}
        BY <2>1, <2>6 DEF BetweenAccesses
      <3>2. Con = was /\ Con' = After(0, x, was) /\ p_tty' = 0
        BY <1>2, <2>4, <2>6 DEF Con
      <3>3. ~Owed /\ ~Owed' /\ Knows'
        BY <1>2, <3>1 DEF Owed, Knows
      <3>4. Aim = IF InLoop THEN Scrolled(0, was) ELSE was
        BY <2>6, <3>1, <3>2 DEF Aim
      <3>5. Aim' = IF InLoop' THEN Scrolled(0, Con') ELSE Con'
        BY <1>2, <3>1, <3>2 DEF Aim
      <3>6. Aim' = After(0, x, was)
        <4>1. /\ After(0, x, was) \in ConsoleRecord /\ ConsoleOk(0, After(0, x, was))
              /\ ~Below(After(0, x, was))
          BY <1>1, <2>2, AfterOk
        <4>2. Scrolled(0, After(0, x, was)) = After(0, x, was)
          BY <1>1, <4>1, ScrolledStays
        <4> QED  BY <3>2, <3>5, <4>2
      <3>7. After(0, x, cs[0]) = After(0, x, was) /\ cs[0].cursor = was.cursor
        <4>1. cs[0] = Aim
          BY <1>1, <2>5, <2>6
        <4>2. After(0, x, Scrolled(0, was)) = After(0, x, was)
          BY <1>1, <2>2, AfterScrolled
        <4>3. Scrolled(0, was).cursor = was.cursor
          BY <1>1, <2>2, ScrolledIs DEF ConsoleRecord
        <4> QED  BY <3>4, <4>1, <4>2, <4>3
      <3>8. mem = v_mem /\ AimMem' = v_mem'
        BY <2>5, <3>3 DEF AimMem
      <3>9. \A c \in Consoles : ideal'.consoles[c] = IF c = p_tty' THEN Aim' ELSE console'[c]
        <4>1. \A c \in Consoles : c # 0 => cs[c] = console[c]
          BY <2>5, <2>6
        <4> QED  BY <2>4, <3>2, <3>6, <3>7, <4>1
      <3>10. ideal'.mem = AimMem'
        BY <1>3, <2>3, <3>7, <3>8 DEF cs, mem
      <3> QED  BY <3>3, <3>9, <3>10 DEF Agrees
    <2>7. CASE p_tty # 0
      <3>1. Con' = Con /\ p_tty' = p_tty
        BY <1>1, <1>2, <2>4, <2>7 DEF Con
      <3>2. Aim' = Aim
        BY <1>2, <3>1 DEF Aim, InLoop, After, Scrolled
      <3>3. Owed' <=> Owed
        BY <1>2, <3>1 DEF Owed, Fits
      <3>4. Knows'
        BY <1>2, <2>1, <3>1 DEF Knows, Inside, Below
      <3>5. cs[0] = was /\ \A c \in Consoles : c # 0 => ideal'.consoles[c] = cs[c]
        BY <1>1, <2>4, <2>5, <2>7
      <3>6. \A c \in Consoles : ideal'.consoles[c] = IF c = p_tty' THEN Aim' ELSE console'[c]
        BY <1>1, <2>4, <2>5, <2>7, <3>1, <3>2, <3>5
      <3>7. ideal'.mem = IF Fits(0, x, was.cursor) THEN Written(AimMem, x, was.cursor) ELSE AimMem
        BY <1>3, <2>5, <3>5 DEF cs, mem
      <3>8. AimMem' = IF Owed THEN Written(v_mem', ch, p_vmem) ELSE v_mem'
        BY <1>2, <3>3 DEF AimMem
      <3>9. Owed => Written(Written(v_mem, ch, p_vmem), x, was.cursor)
                      = Written(Written(v_mem, x, was.cursor), ch, p_vmem)
        BY <1>1, <2>1, <2>2, <2>7, OwedInside, WrittenApart
      <3>10. ideal'.mem = AimMem'
        BY <2>3, <3>7, <3>8, <3>9 DEF AimMem
      <3> QED  BY <3>4, <3>6, <3>10 DEF Agrees
    <2> QED  BY <2>6, <2>7
  <1> QED  BY <1>5, <1>7 DEF EchoInv

LEMMA EchoStep ==
    ASSUME InsideInv, EchoInv, NoBackspacePrinted, [TerminalNext]_terminalVars
    PROVE  EchoInv'
  <1>1. CASE UNCHANGED terminalVars
    <2>1. UNCHANGED <<console, v_mem, ideal, raced, p_tty, pc, back, ch, p_vmem, reg>>
      BY <1>1 DEF terminalVars, consoleVars, localVars, printVars
    <2>2. Aim' = Aim /\ AimMem' = AimMem /\ (Knows => Knows')
      BY <2>1 DEF Aim, AimMem, Owed, InLoop, Knows, Con, Fits, After, Scrolled, Inside, Below
    <2> QED  BY <2>1, <2>2, AimStays
  <1>2. CASE Typed
    BY <1>2, EchoBetween
  <1>3. CASE PrintedByProcess
    BY <1>3, EchoPrint DEF PrintedByProcess, NoBackspacePrinted
  <1>4. CASE task_tty
    BY <1>4, EchoBetween, EchoOut, EchoScroll, EchoFlush DEF task_tty, out_char
  <1> QED  BY <1>1, <1>2, <1>3, <1>4 DEF TerminalNext

LEMMA EchoInit ==
    ASSUME TerminalInit
    PROVE  EchoInv
  <1>1. ideal = [consoles |-> console, mem |-> v_mem] /\ pc = "read"
    BY DEF TerminalInit
  <1>2. Aim = Con /\ AimMem = v_mem /\ Knows
    BY <1>1, IdleAims DEF Idle
  <1>3. console \in [Consoles -> ConsoleRecord] /\ DOMAIN v_mem = Cells
    BY InsideInit DEF InsideInv
  <1> QED  BY <1>1, <1>2, <1>3 DEF EchoInv, Agrees, Con

\* At rest what was to come is there.
LEMMA EchoSuffices ==
    ASSUME InsideInv, EchoInv
    PROVE  EchoAtomic
  <1> SUFFICES ASSUME AtRest, ~raced
               PROVE  console = ideal.consoles /\ v_mem = ideal.mem
    BY DEF EchoAtomic
  <1>1. Aim = Con /\ AimMem = v_mem /\ Agrees
    BY IdleAims DEF AtRest, Idle, EchoInv
  <1>2. \A c \in Consoles : ideal.consoles[c] = console[c]
    BY <1>1 DEF Agrees, Con
  <1>3. console \in [Consoles -> ConsoleRecord] /\ ideal.consoles \in [Consoles -> ConsoleRecord]
    BY DEF InsideInv, EchoInv
  <1> QED  BY <1>1, <1>2, <1>3 DEF Agrees

\* What out_char (console.c:39) writes character by character, for the keys and
\* for the kernel, is what it would be if each call were one step, unless the
\* kernel prints between two of TASK_TTY's accesses to console 0, and as long as
\* no process prints a backspace: one that came when the cursor has passed the
\* screen, and the screen is still to scroll, would take the cursor back first.
THEOREM EchoAlwaysAtomic == NoBackspacePrinted => (TerminalSpec => []EchoAtomic)
  <1> SUFFICES ASSUME NoBackspacePrinted
               PROVE  TerminalSpec => []EchoAtomic
    OBVIOUS
  <1>1. TerminalInit => InsideInv /\ EchoInv
    BY InsideInit, EchoInit
  <1>2. InsideInv /\ EchoInv /\ [TerminalNext]_terminalVars => InsideInv' /\ EchoInv'
    BY InsideStep, EchoStep
  <1>3. InsideInv /\ EchoInv => EchoAtomic
    BY EchoSuffices
  <1> QED  BY <1>1, <1>2, <1>3, PTL DEF TerminalSpec

-----------------------------------------------------------------------------
(* The types, however the kernel and TASK_TTY race. *)

Sound(c, con) == original_addr(c) <= con.cursor /\ Aligned(c, con.start)

\* TASK_TTY's registers.
Registers ==
    /\ reg \in Nat /\ p_vmem \in Nat
    /\ pc = "cell" => ch # Backspace
    /\ pc = "load" /\ ch = Backspace => original_addr(p_tty) < Con.cursor
    /\ pc = "store" => original_addr(p_tty) <= reg
    /\ pc = "up load" => original_addr(p_tty) < Con.start
    /\ pc = "scroll store" => Aligned(p_tty, reg)

SoundInv ==
    /\ \A c \in Consoles : Sound(c, console[c])
    /\ crtc \in ConsoleType
    /\ pc \in PC
    /\ Registers
    /\ hung \in BOOLEAN /\ raced \in BOOLEAN /\ late \in BOOLEAN

\* The loop of out_char goes on, or never ends.
LEMMA ScrolledSound ==
    ASSUME NEW c \in Consoles, NEW con \in ConsoleRecord, Sound(c, con)
    PROVE  /\ Scrolled(c, con) \in ConsoleRecord /\ Scrolled(c, con).cursor = con.cursor
           /\ \/ Scrolled(c, con).start = -1
              \/ con.start <= Scrolled(c, con).start /\ Aligned(c, Scrolled(c, con).start)
  <1> DEFINE n == Rounds(con)
             start == con.start + n * SCREEN_WIDTH
  <1>1. n \in Nat /\ SCREEN_WIDTH \in Nat /\ con.start \in Int /\ con.cursor \in Int
    BY RoundsNeeded, Addresses DEF ConsoleRecord
  <1> HIDE DEF n
  <1>2. n * SCREEN_WIDTH \in Nat
    BY <1>1, ProductNat
  <1>3. con.start <= start /\ start \in Int
    BY <1>1, <1>2
  <1>4. Aligned(c, start)
    BY <1>1, LineMore DEF Sound
  <1>5. Scrolled(c, con) = [con EXCEPT !.start = start] \/ Scrolled(c, con) = [con EXCEPT !.start = -1]
    BY DEF Scrolled, n
  <1> HIDE DEF start
  <1>6. /\ [con EXCEPT !.start = start] \in ConsoleRecord /\ [con EXCEPT !.start = -1] \in ConsoleRecord
        /\ [con EXCEPT !.start = start].cursor = con.cursor /\ [con EXCEPT !.start = -1].cursor = con.cursor
        /\ [con EXCEPT !.start = start].start = start /\ [con EXCEPT !.start = -1].start = -1
    BY <1>3 DEF ConsoleRecord
  <1>7. CASE Scrolled(c, con) = [con EXCEPT !.start = start]
    BY <1>3, <1>4, <1>6, <1>7
  <1>8. CASE Scrolled(c, con) = [con EXCEPT !.start = -1]
    BY <1>6, <1>8
  <1> QED  BY <1>5, <1>7, <1>8

\* A character that is not a backspace moves nothing back.
LEMMA AfterSound ==
    ASSUME NEW c \in Consoles, NEW x, x # Backspace, NEW con \in ConsoleRecord, Sound(c, con),
           After(c, x, con).start # -1
    PROVE  /\ After(c, x, con) \in ConsoleRecord /\ Sound(c, After(c, x, con))
           /\ con.cursor <= After(c, x, con).cursor /\ con.start <= After(c, x, con).start
  <1>1. con.cursor \in Int /\ con.start \in Int /\ original_addr(c) \in Nat
    BY Addresses DEF ConsoleRecord
  <1>2. CASE Fits(c, x, con.cursor)
    <2> DEFINE to == Moved(c, x, con.cursor)
               moved == [con EXCEPT !.cursor = to]
    <2>1. to \in Int /\ con.cursor <= to
      BY <1>1, MovedOn DEF Sound
    <2>2. moved \in ConsoleRecord /\ moved.cursor = to /\ moved.start = con.start
      BY <2>1 DEF ConsoleRecord
    <2>3. After(c, x, con) = Scrolled(c, moved)
      BY <1>2 DEF After
    <2> HIDE DEF moved, to
    <2>4. Sound(c, moved)
      BY <1>1, <2>1, <2>2 DEF Sound
    <2> QED  BY <1>1, <2>1, <2>2, <2>3, <2>4, ScrolledSound DEF Sound
  <1>3. CASE ~Fits(c, x, con.cursor)
    BY <1>1, <1>3, ScrolledSound DEF After, Sound
  <1> QED  BY <1>2, <1>3

\* A console that is sound has addresses.
LEMMA SoundType ==
    ASSUME NEW c \in Consoles, NEW con \in ConsoleRecord, Sound(c, con)
    PROVE  con \in ConsoleType
  <1>1. original_addr(c) \in Nat /\ con.cursor \in Int /\ con.start \in Int
    BY Addresses DEF ConsoleRecord
  <1>2. original_addr(c) <= con.start
    BY <1>1, AlignedBehind DEF Sound
  <1> QED  BY <1>1, <1>2 DEF Sound, ConsoleType, ConsoleRecord

\* A step that only moves between places where nothing is under way.
LEMMA SoundStays ==
    ASSUME InsideInv, SoundInv,
           UNCHANGED <<console, raced, hung>>, pc' \in PC, crtc' \in ConsoleType, late' \in BOOLEAN,
           Registers'
    PROVE  SoundInv'
  BY DEF SoundInv, Sound, Aligned

Free == PC \ {"cell", "load", "store", "up load", "scroll store"}
LEMMA FreeRegisters ==
    ASSUME pc' \in Free, reg' \in Nat, p_vmem' \in Nat
    PROVE  Registers'
  BY DEF Registers, Free

LEMMA SoundTasks ==
    ASSUME InsideInv, SoundInv,
           \/ tty_do_read \/ ReadOn \/ NothingRead \/ tty_input_process
           \/ NothingToWrite \/ tty_do_write \/ OutStarts \/ OutLoop \/ OutEnds
           \/ flush \/ FlushLoad \/ FlushSet
    PROVE  SoundInv'
  <1> USE DEF Goes, Still, Free, PC, consoleVars, screenVars, localVars, printVars
  <1>0. /\ reg \in Nat /\ p_vmem \in Nat /\ crtc \in ConsoleType /\ late \in BOOLEAN
        /\ \A c \in Consoles : console[c] \in ConsoleType
        /\ p_tty \in Consoles /\ current_console \in Consoles
        /\ back \in {"read", "write", "loop", "next"}
    BY SoundType DEF SoundInv, Registers, InsideInv
  <1>1. Con.cursor \in Nat /\ \A c \in Consoles : console[c].cursor \in Nat /\ console[c].start \in Nat
    BY <1>0 DEF ConsoleType, Con
  <1>2. CASE tty_do_read \/ ReadOn \/ NothingRead
    BY <1>0, <1>2, SoundStays, FreeRegisters DEF tty_do_read, ReadOn, NothingRead
  <1>3. CASE tty_input_process
    <2>1. CASE InputChar \/ InputNothing
      BY <1>0, <1>3, <2>1, SoundStays, FreeRegisters DEF tty_input_process, InputChar, InputNothing
    <2>2. CASE InputScroll
      <3>1. pc' \in {"up", "down"}
        BY <2>2 DEF InputScroll, Scrolls, ScrollKeys
      <3> QED  BY <1>0, <1>3, <2>2, <3>1, SoundStays, FreeRegisters DEF tty_input_process, InputScroll
    <2>3. CASE select_console
      BY <1>0, <1>3, <2>3, SoundStays, FreeRegisters DEF tty_input_process, select_console
    <2> QED  BY <1>3, <2>1, <2>2, <2>3 DEF tty_input_process
  <1>4. CASE NothingToWrite \/ tty_do_write
    BY <1>0, <1>4, SoundStays, FreeRegisters DEF NothingToWrite, tty_do_write
  <1>5. CASE OutStarts \/ OutLoop
    BY <1>0, <1>1, <1>5, SoundStays, FreeRegisters DEF OutStarts, OutLoop
  <1>6. CASE OutEnds
    BY <1>0, <1>6, SoundStays, FreeRegisters DEF OutEnds
  <1>7. CASE flush
    BY <1>0, <1>7, SoundStays, FreeRegisters DEF flush
  <1>8. CASE FlushLoad
    BY <1>0, <1>1, <1>8, SoundStays, FreeRegisters DEF FlushLoad
  <1>9. CASE FlushSet
    <2>1. [crtc EXCEPT !.cursor = reg] \in ConsoleType /\ [crtc EXCEPT !.start = reg] \in ConsoleType
      BY <1>0 DEF ConsoleType
    <2> QED  BY <1>0, <1>9, <2>1, SoundStays, FreeRegisters DEF FlushSet
  <1> QED  BY <1>2, <1>3, <1>4, <1>5, <1>6, <1>7, <1>8, <1>9

\* A step of out_char or scroll_screen that only loads.
LEMMA SoundLoads ==
    ASSUME InsideInv, SoundInv, OutTest \/ OutCell \/ OutLoad
                                \/ \E dir \in {"down", "up"} : ScrollTest(dir) \/ ScrollLoad(dir)
    PROVE  SoundInv'
  <1> USE DEF Goes, Still, consoleVars, screenVars, localVars, printVars
  <1>0. /\ reg \in Nat /\ p_vmem \in Nat /\ crtc \in ConsoleType /\ late \in BOOLEAN
        /\ p_tty \in Consoles /\ Con \in ConsoleType /\ Sound(p_tty, Con)
        /\ original_addr(p_tty) \in Nat /\ SCREEN_WIDTH \in Nat /\ Con \in ConsoleRecord
    BY SoundType, Addresses DEF SoundInv, Registers, InsideInv, Con
  <1>1. Con.cursor \in Nat /\ Con.start \in Nat
    BY <1>0 DEF ConsoleType
  <1>2. CASE OutTest
    <2>1. UNCHANGED <<console, crtc, late, raced, hung, p_tty, reg, p_vmem, ch>> /\ Con' = Con
      BY <1>2 DEF OutTest, Con
    <2>2. Fits(p_tty, Backspace, Con.cursor) => original_addr(p_tty) < Con.cursor
      BY DEF Fits, Newline, Backspace
    <2>3. /\ pc' \in {"load", "cell", "loop"}
          /\ pc' = "cell" => ch # Backspace
          /\ pc' = "load" => Fits(p_tty, ch, Con.cursor)
      BY <1>2 DEF OutTest
    <2>4. Registers'
      BY <1>0, <2>1, <2>2, <2>3 DEF Registers
    <2> QED  BY <1>0, <2>1, <2>3, <2>4, SoundStays DEF PC
  <1>3. CASE OutCell
    <2>1. UNCHANGED <<console, crtc, late, raced, hung, p_tty, reg, p_vmem, ch>>
      BY <1>3 DEF OutCell
    <2>2. (pc = "cell" /\ pc' = "load") \/ pc' = "loop"
      BY <1>3 DEF OutCell
    <2>3. Registers'
      BY <1>0, <2>1, <2>2 DEF Registers, SoundInv
    <2> QED  BY <1>0, <2>1, <2>2, <2>3, SoundStays DEF PC
  <1>4. CASE OutLoad
    <2>1. UNCHANGED <<console, crtc, late, raced, hung, p_tty, p_vmem, ch>>
      BY <1>4 DEF OutLoad
    <2>2. pc = "load" /\ pc' = "store" /\ reg' = Moved(p_tty, ch, Con.cursor)
      BY <1>4 DEF OutLoad
    <2>3. Moved(p_tty, ch, Con.cursor) \in Int /\ original_addr(p_tty) <= Moved(p_tty, ch, Con.cursor)
      <3>1. CASE ch = Backspace
        <4>1. original_addr(p_tty) < Con.cursor
          BY <2>2, <3>1 DEF SoundInv, Registers
        <4>2. Moved(p_tty, ch, Con.cursor) = Con.cursor - 1
          BY <3>1 DEF Moved, Newline, Backspace
        <4> QED  BY <1>0, <1>1, <4>1, <4>2
      <3>2. CASE ch # Backspace
        <4>1. Moved(p_tty, ch, Con.cursor) \in Int /\ Con.cursor <= Moved(p_tty, ch, Con.cursor)
          BY <1>0, <1>1, <3>2, MovedOn DEF Sound
        <4>2. original_addr(p_tty) <= Con.cursor
          BY <1>0 DEF Sound
        <4> QED  BY <1>0, <1>1, <4>1, <4>2
      <3> QED  BY <3>1, <3>2
    <2>4. reg' \in Nat /\ original_addr(p_tty) <= reg'
      BY <1>0, <2>2, <2>3
    <2>5. Registers'
      BY <1>0, <2>1, <2>2, <2>4 DEF Registers
    <2> QED  BY <1>0, <2>1, <2>2, <2>5, SoundStays DEF PC
  <1>5. ASSUME NEW dir \in {"down", "up"}, ScrollTest(dir)
        PROVE  SoundInv'
    <2>1. UNCHANGED <<console, crtc, late, raced, hung, p_tty, reg, p_vmem, ch>> /\ Con' = Con
      BY <1>5 DEF ScrollTest, Con
    <2>2. /\ pc' \in {"down load", "up load", "flush"}
          /\ pc' = "up load" => original_addr(p_tty) < Con.start
      BY <1>0, <1>1, <1>5 DEF ScrollTest, MayScroll, LoadOf
    <2>3. Registers'
      BY <1>0, <2>1, <2>2 DEF Registers
    <2> QED  BY <1>0, <2>1, <2>2, <2>3, SoundStays DEF PC
  <1>6. ASSUME NEW dir \in {"down", "up"}, ScrollLoad(dir)
        PROVE  SoundInv'
    <2>1. UNCHANGED <<console, crtc, late, raced, hung, p_tty, p_vmem, ch>>
      BY <1>6 DEF ScrollLoad
    <2>2. /\ pc' = "scroll store"
          /\ \/ pc = "down load" /\ reg' = Con.start + SCREEN_WIDTH
             \/ pc = "up load" /\ reg' = Con.start + -SCREEN_WIDTH
      BY <1>6 DEF ScrollLoad, Distance, LoadOf
    <2>3. reg' \in Int /\ Aligned(p_tty, reg')
      <3>1. CASE pc = "down load" /\ reg' = Con.start + SCREEN_WIDTH
        <4>1. 1 \in Nat /\ 1 * SCREEN_WIDTH = SCREEN_WIDTH
          BY <1>0
        <4>2. Aligned(p_tty, Con.start + 1 * SCREEN_WIDTH)
          BY <1>0, <1>1, <4>1, LineMore DEF Sound
        <4>3. reg' = Con.start + 1 * SCREEN_WIDTH
          BY <3>1, <4>1
        <4>4. reg' \in Int
          <5>1. Con.start \in Nat /\ SCREEN_WIDTH \in Nat
            BY <1>0, <1>1
          <5>2. Con.start + SCREEN_WIDTH \in Int
            BY <5>1
          <5> QED  BY <3>1, <5>2
        <4> QED  BY <4>2, <4>3, <4>4
      <3>2. CASE pc = "up load" /\ reg' = Con.start + -SCREEN_WIDTH
        <4>1. original_addr(p_tty) < Con.start
          BY <3>2 DEF SoundInv, Registers
        <4>2. Aligned(p_tty, Con.start - SCREEN_WIDTH)
          BY <1>0, <1>1, <4>1, LineLess DEF Sound
        <4>3. reg' = Con.start - SCREEN_WIDTH
          BY <1>0, <1>1, <3>2
        <4> QED  BY <1>0, <1>1, <4>2, <4>3
      <3> QED  BY <2>2, <3>1, <3>2
    <2>4. reg' \in Nat
      BY <1>0, <2>3, AlignedBehind
    <2>5. Aligned(p_tty, reg)'
      BY <2>1, <2>3 DEF Aligned
    <2>6. Registers'
      BY <1>0, <2>1, <2>2, <2>4, <2>5 DEF Registers
    <2> QED  BY <1>0, <2>1, <2>2, <2>6, SoundStays DEF PC
  <1> QED  BY <1>2, <1>3, <1>4, <1>5, <1>6

\* The two stores.
LEMMA SoundStores ==
    ASSUME InsideInv, SoundInv, OutStore \/ ScrollStore
    PROVE  SoundInv'
  <1> USE DEF Goes, Still, screenVars, localVars, printVars
  <1>0. /\ console \in [Consoles -> ConsoleRecord] /\ p_tty \in Consoles /\ Sound(p_tty, Con)
        /\ reg \in Nat /\ p_vmem \in Nat
    BY DEF InsideInv, SoundInv, Registers, Con
  <1>1. UNCHANGED <<crtc, late, raced, hung, p_tty, reg, p_vmem, ch>>
    BY DEF OutStore, ScrollStore
  <1>2. /\ pc' \in Free
        /\ \/ console' = [console EXCEPT ![p_tty].cursor = reg] /\ original_addr(p_tty) <= reg
           \/ console' = [console EXCEPT ![p_tty].start = reg] /\ Aligned(p_tty, reg)
    BY DEF OutStore, ScrollStore, SoundInv, Registers, Free, PC
  <1>3. /\ \A c \in Consoles : c # p_tty => console'[c] = console[c]
        /\ \/ console'[p_tty].cursor = reg /\ console'[p_tty].start = Con.start /\ original_addr(p_tty) <= reg
           \/ console'[p_tty].start = reg /\ console'[p_tty].cursor = Con.cursor /\ Aligned(p_tty, reg)
    BY <1>0, <1>2 DEF Con, ConsoleRecord
  <1>4. ASSUME NEW c \in Consoles
        PROVE  Sound(c, console'[c])
    <2>1. CASE c # p_tty
      BY <1>3, <2>1 DEF SoundInv
    <2>2. CASE c = p_tty
      BY <1>0, <1>3, <2>2 DEF Sound
    <2> QED  BY <2>1, <2>2
  <1>5. \A c \in Consoles : Sound(c, console[c])'
    BY <1>4 DEF Sound, Aligned
  <1>6. Registers'
    BY <1>0, <1>1, <1>2, FreeRegisters
  <1> QED  BY <1>1, <1>2, <1>5, <1>6 DEF SoundInv, Free

LEMMA SoundPrint ==
    ASSUME InsideInv, SoundInv, NEW x, x # Backspace, sys_write(x)
    PROVE  SoundInv'
  <1> DEFINE was == console[0]
             after == After(0, x, was)
  <1>1. /\ 0 \in Consoles /\ console \in [Consoles -> ConsoleRecord] /\ p_tty \in Consoles
        /\ was \in ConsoleRecord /\ Sound(0, was)
    BY TerminalAssumption DEF Consoles, InsideInv, SoundInv
  <1>2. OutChar(0, x, console, v_mem).consoles = [console EXCEPT ![0] = after]
    BY DEF OutChar, After
  <1>3. OutChar(0, x, console, v_mem).consoles[0] = after
    BY <1>1, <1>2
  <1> HIDE DEF after
  <1>4. UNCHANGED <<pc, p_tty, ch, p_vmem, reg, back>>
    BY DEF sys_write, localVars
  <1>8. late' \in BOOLEAN /\ raced' \in BOOLEAN /\ hung' \in BOOLEAN
    <2> DEFINE setting == pc \in {"set cursor", "set start"}
    <2>1. late' = setting \/ late' = late
      BY DEF sys_write
    <2> HIDE DEF setting
    <2>2. raced' = (raced \/ BetweenAccesses) /\ (hung' = TRUE \/ hung' = hung)
      BY DEF sys_write
    <2>3. hung \in BOOLEAN /\ late \in BOOLEAN
      BY DEF SoundInv
    <2>4. hung' \in BOOLEAN
      BY <2>2, <2>3, Zenon
    <2>5. raced' \in BOOLEAN
      BY <2>2, Zenon
    <2>6. late' \in BOOLEAN
      <3>1. setting \in BOOLEAN
        BY DEF setting
      <3> QED  BY <2>1, <2>3, <3>1
    <2> QED  BY <2>4, <2>5, <2>6
  <1>5. \/ console' = console /\ crtc' = crtc
        \/ /\ after.start # -1 /\ console' = [console EXCEPT ![0] = after]
           /\ crtc' \in {after, crtc}
    BY <1>2, <1>3 DEF sys_write
  <1>6. CASE console' = console /\ crtc' = crtc
    BY <1>4, <1>8, <1>6 DEF SoundInv, Registers, Sound, Con, Aligned
  <1>7. CASE after.start # -1 /\ console' = [console EXCEPT ![0] = after] /\ crtc' \in {after, crtc}
    <2>1. /\ after \in ConsoleRecord /\ Sound(0, after)
          /\ was.cursor <= after.cursor /\ was.start <= after.start
      BY <1>1, <1>7, AfterSound DEF after
    <2>2. after \in ConsoleType
      BY <1>1, <2>1, SoundType
    <2>3. console'[0] = after /\ \A c \in Consoles : c # 0 => console'[c] = console[c]
      BY <1>1, <1>7
    <2>4. \A c \in Consoles : Sound(c, console'[c])
      BY <2>1, <2>3 DEF SoundInv
    <2>5. \A c \in Consoles : Sound(c, console[c])'
      BY <2>4 DEF Sound, Aligned
    <2>6. Con.cursor <= Con'.cursor /\ Con.start <= Con'.start /\ Con' \in ConsoleRecord /\ Con \in ConsoleRecord
      BY <1>1, <1>4, <2>1, <2>3 DEF Con, ConsoleRecord
    <2>7. Registers'
      <3>1. Con.cursor \in Int /\ Con'.cursor \in Int /\ Con.start \in Int /\ Con'.start \in Int
            /\ original_addr(p_tty) \in Nat
        BY <1>1, <2>6, Addresses DEF ConsoleRecord
      <3>2. pc = "scroll store" => Aligned(p_tty, reg)'
        BY <1>4 DEF Registers, SoundInv, Aligned
      <3>3. original_addr(p_tty)' = original_addr(p_tty)
        BY <1>4
      <3>4. Registers
        BY DEF SoundInv
      <3>5. pc = "load" /\ ch = Backspace => original_addr(p_tty) < Con'.cursor
        BY <2>6, <3>1, <3>4 DEF Registers
      <3>6. pc = "up load" => original_addr(p_tty) < Con'.start
        <4>1. pc = "up load" => original_addr(p_tty) < Con.start
          BY <3>4 DEF Registers
        <4>2. \A a, b, o \in Int : o < a /\ a <= b => o < b
          OBVIOUS
        <4>3. Con.start \in Int /\ Con'.start \in Int /\ original_addr(p_tty) \in Int
          BY <3>1
        <4> QED  BY <2>6, <4>1, <4>2, <4>3, Zenon
      <3> HIDE DEF Con
      <3> QED  BY <1>4, <3>2, <3>3, <3>4, <3>5, <3>6 DEF Registers
    <2> QED  BY <1>4, <1>8, <1>7, <2>2, <2>5, <2>7 DEF SoundInv
  <1> QED  BY <1>5, <1>6, <1>7

LEMMA SoundStep ==
    ASSUME InsideInv, SoundInv, NoBackspacePrinted, [TerminalNext]_terminalVars
    PROVE  SoundInv'
  <1>1. CASE UNCHANGED terminalVars \/ Typed
    <2>1. UNCHANGED <<console, crtc, late, raced, hung, p_tty, pc, back, ch, p_vmem, reg>>
      BY <1>1 DEF terminalVars, Typed, consoleVars, screenVars, localVars, printVars
    <2> QED  BY <2>1 DEF SoundInv, Sound, Registers, Con, Aligned
  <1>2. CASE PrintedByProcess
    BY <1>2, SoundPrint DEF PrintedByProcess, NoBackspacePrinted
  <1>3. CASE task_tty
    BY <1>3, SoundTasks, SoundLoads, SoundStores DEF task_tty, out_char, scroll_screen
  <1> QED  BY <1>1, <1>2, <1>3 DEF TerminalNext

-----------------------------------------------------------------------------
(* The keys that wait to be written. *)

\* A key at most waits, that of TASK_TTY's terminal, and is written next.
Waiting(c) == IF c = p_tty /\ pc = "write" THEN 1 ELSE 0
BufInv ==
    /\ DOMAIN in_buf = Consoles
    /\ \A c \in Consoles : in_buf[c].count \in Nat /\ in_buf[c].count <= Waiting(c)

LEMMA BufStep ==
    ASSUME InsideInv, BufInv, [TerminalNext]_terminalVars
    PROVE  BufInv'
  <1> USE DEF Goes
  <1>1. ASSUME UNCHANGED <<in_buf, p_tty>>, pc = "write" => pc' = "write"
        PROVE  BufInv'
    BY <1>1 DEF BufInv, Waiting
  <1>2. CASE UNCHANGED terminalVars \/ Typed \/ PrintedByProcess
    BY <1>1, <1>2 DEF terminalVars, Typed, PrintedByProcess, sys_write
  <1>3. CASE tty_do_read \/ ReadOn \/ NothingRead \/ flush \/ FlushLoad \/ FlushSet
    BY <1>1, <1>3 DEF tty_do_read, ReadOn, NothingRead, flush, FlushLoad, FlushSet, Still
  <1>4. CASE OutStarts \/ OutTest \/ OutCell \/ OutLoad \/ OutStore \/ OutLoop
    BY <1>1, <1>4 DEF OutStarts, OutTest, OutCell, OutLoad, OutStore, OutLoop, Still
  <1>5. CASE scroll_screen
    BY <1>1, <1>5 DEF scroll_screen, ScrollTest, ScrollLoad, ScrollStore, LoadOf, Still
  <1>6. CASE tty_input_process
    <2>1. CASE InputScroll \/ select_console \/ InputNothing
      BY <1>1, <1>6, <2>1 DEF tty_input_process, InputScroll, select_console, InputNothing
    <2>2. CASE InputChar
      <3>1. pc = "keyboard" /\ pc' = "write" /\ p_tty' = p_tty /\ p_tty \in Consoles
        BY <1>6, <2>2 DEF InputChar, tty_input_process, InsideInv
      <3>2. \/ in_buf' = in_buf
            \/ \E x : in_buf' = [in_buf EXCEPT ![p_tty] = RingPut(in_buf[p_tty], TTY_IN_BYTES, x)]
        BY <2>2 DEF InputChar, put_key
      <3>3. \A x : RingPut(in_buf[p_tty], TTY_IN_BYTES, x).count = in_buf[p_tty].count + 1
        BY DEF RingPut
      <3>4. \A c \in Consoles : in_buf[c].count = 0
        BY <3>1 DEF BufInv, Waiting
      <3> QED  BY <3>1, <3>2, <3>3, <3>4 DEF BufInv, Waiting
    <2> QED  BY <1>6, <2>1, <2>2 DEF tty_input_process
  <1>7. CASE NothingToWrite
    <2>1. pc' = "read" /\ pc = "write" /\ in_buf' = in_buf /\ in_buf[p_tty].count = 0
      BY <1>7 DEF NothingToWrite
    <2> QED  BY <2>1 DEF BufInv, Waiting
  <1>8. CASE tty_do_write
    <2>1. /\ pc' = "out" /\ pc = "write" /\ p_tty \in Consoles /\ in_buf[p_tty].count > 0
          /\ in_buf' = [in_buf EXCEPT ![p_tty] = RingTake(in_buf[p_tty], TTY_IN_BYTES)]
      BY <1>8 DEF tty_do_write, InsideInv
    <2>2. RingTake(in_buf[p_tty], TTY_IN_BYTES).count = in_buf[p_tty].count - 1
      BY DEF RingTake
    <2> QED  BY <2>1, <2>2 DEF BufInv, Waiting
  <1>9. CASE OutEnds
    <2>1. pc' = "read" /\ pc = "next" /\ in_buf' = in_buf
      BY <1>9 DEF OutEnds
    <2> QED  BY <2>1 DEF BufInv, Waiting
  <1> QED
    BY <1>2, <1>3, <1>4, <1>5, <1>6, <1>7, <1>8, <1>9 DEF TerminalNext, task_tty, out_char

\* At boot.
LEMMA SoundStarts ==
    ASSUME TerminalInit
    PROVE  SoundInv /\ RingInv /\ KeysInv /\ BufInv
  <1>1. PICK pos \in 0..(SCREEN_SIZE - 1) : crtc = [start |-> 0, cursor |-> pos]
    BY DEF TerminalInit
  <1>2. InsideInv /\ ~raced
    BY InsideInit DEF TerminalInit
  <1>3. \A c \in Consoles : Sound(c, console[c])
    BY <1>2, Unraced DEF ConsoleOk, Sound, Inside
  <1>4. pos \in Nat
    BY TerminalAssumption
  <1>5. SoundInv
    BY <1>1, <1>3, <1>4 DEF SoundInv, TerminalInit, PC, Registers, ConsoleType
  <1>6. RingInv
    <2>1. KB_IN_BYTES \in Nat \ {0} /\ 0 \in Byte
      BY KeyboardAssumption DEF Byte
    <2> QED  BY <2>1, EmptyHasNone DEF TerminalInit, KeyboardInit, RingInv
  <1>7. KeysInv
    BY DEF TerminalInit, KeyboardInit, KeysInv, Modifiers, Locks, Byte, KB_ACK
  <1>8. BufInv
    BY DEF TerminalInit, BufInv, EmptyRing, Waiting
  <1> QED  BY <1>5, <1>6, <1>7, <1>8

\* The types of TASK_TTY's and the kernel's variables; and no key that is put into
\* a terminal's in_buf (tty.c:51) is ever lost: the one before it is written.
THEOREM TerminalTypeCorrect == NoBackspacePrinted => (TerminalSpec => []TerminalTypeOK)
  <1> SUFFICES ASSUME NoBackspacePrinted
               PROVE  TerminalSpec => []TerminalTypeOK
    OBVIOUS
  <1> DEFINE Inv == InsideInv /\ SoundInv /\ RingInv /\ KeysInv /\ BufInv
  <1>1. TerminalInit => Inv
    BY InsideInit, SoundStarts
  <1>2. Inv /\ [TerminalNext]_terminalVars => Inv'
    BY InsideStep, SoundStep, RingStep, KeysStep, BufStep
  <1>3. Inv => TerminalTypeOK
    <2> SUFFICES ASSUME Inv  PROVE TerminalTypeOK
      OBVIOUS
    <2>1. \A c \in Consoles : console[c] \in ConsoleType
      BY SoundType DEF InsideInv, SoundInv
    <2>2. console \in [Consoles -> ConsoleType]
      BY <2>1 DEF InsideInv
    <2> QED
      BY <2>2 DEF TerminalTypeOK, InsideInv, SoundInv, Registers, RingInv, KeysInv, BufInv, Waiting
  <1> QED  BY <1>1, <1>2, <1>3, PTL DEF TerminalSpec
=============================================================================
