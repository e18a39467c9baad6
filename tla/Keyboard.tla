------------------------------ MODULE Keyboard ------------------------------
(***************************************************************************)
(* kernel/keyboard.c: the ring that keyboard_handler fills with scan codes *)
(* and TASK_TTY empties, what TASK_TTY makes of the codes, and the lamps   *)
(* it sets.  The keyboard itself, and who types, are external.             *)
(*                                                                         *)
(* An interrupt is served before TASK_TTY's next instruction, except that  *)
(* it waits for the end of what runs with interrupts off; so a code comes  *)
(* and is put into the ring in one step, and get_byte_from_kbuf takes one  *)
(* out in one step.  What follows the last code of a key concerns nobody   *)
(* but TASK_TTY, until set_leds or tty_input_process: it is the same step. *)
(***************************************************************************)
EXTENDS Ring

CONSTANTS
    KB_IN_BYTES,    \* places in the ring
    codes,          \* codes[k]: what key k sends when pressed and when released
    MaxStrokes      \* bound: presses and releases

Modifiers == {"SHIFT_L", "SHIFT_R", "CTRL_L", "CTRL_R", "ALT_L", "ALT_R"}
Locks == {"CAPS_LOCK", "NUM_LOCK", "SCROLL_LOCK"}

Byte == 0..255
KB_ACK == 250

Keys == DOMAIN codes

ASSUME KeyboardAssumption ==
    /\ KB_IN_BYTES \in Nat \ {0} /\ MaxStrokes \in Nat
    /\ \A k \in Keys : codes[k] \in [make : Seq(Byte), break : Seq(Byte)]

VARIABLES
    kb_in,          \* the ring
    modifiers,      \* the set of shift_l, shift_r, ... that are 1
    locks,          \* the set of caps_lock, num_lock, scroll_lock that are 1
    at,             \* where in keyboard_read TASK_TTY is, "idle" if it is not
    got,            \* what get_byte_from_kbuf returned last
    scan_code, rest,    \* inside a sequence: its first code; what is to follow
    key,            \* what tty_input_process is called with
    port,           \* external: what in_byte(KB_DATA) gives
    sending,        \* external: what the keyboard is about to send
    down, lamps,    \* external: the keys that are down, the locks the typist wants on
    strokes,        \* the typist's events so far
    dropped,        \* history: a key's code found the ring full
    overtaken       \* history: a key's code came between an ACK and the look for it

keyboardVars == <<kb_in, modifiers, locks, at, got, scan_code, rest, key, port, sending,
                  down, lamps, strokes, dropped, overtaken>>
readerVars == <<modifiers, locks, at, scan_code, rest, key>>
deviceVars == <<port, sending, down, lamps, strokes, dropped, overtaken>>

NoKey == [raw |-> "NONE", flags |-> {}]

KeyboardInit ==
    /\ kb_in = EmptyRing(KB_IN_BYTES, 0)
    /\ modifiers = {} /\ locks = {"NUM_LOCK"}
    /\ at = "idle" /\ got = 0 /\ scan_code = 0 /\ rest = <<>> /\ key = NoKey
    /\ port = KB_ACK /\ sending = <<>>      \* set_leds was called with interrupts off
    /\ down = {} /\ lamps = {"NUM_LOCK"}
    /\ strokes = 0 /\ dropped = FALSE /\ overtaken = FALSE

-----------------------------------------------------------------------------
\* The rows of keymap that differ in kind; every other row is like that of "a",
\* with a character in the first two columns, or like an empty one.
NoRow == <<"0", "0", "0">>
keymap(row) ==
    CASE row = \h0E -> <<"BACKSPACE", "BACKSPACE", "0">>     [] row = \h1C -> <<"ENTER", "ENTER", "PAD_ENTER">>
      [] row = \h1D -> <<"CTRL_L", "CTRL_L", "CTRL_R">>      [] row = \h1E -> <<"a", "A", "0">>
      [] row = \h2A -> <<"SHIFT_L", "SHIFT_L", "0">>         [] row = \h36 -> <<"SHIFT_R", "SHIFT_R", "0">>
      [] row = \h35 -> <<"/", "?", "PAD_SLASH">>             [] row = \h37 -> <<"*", "*", "0">>
      [] row = \h38 -> <<"ALT_L", "ALT_L", "ALT_R">>         [] row = \h3A -> <<"CAPS_LOCK", "CAPS_LOCK", "0">>
      [] row = \h3B -> <<"F1", "F1", "0">>                   [] row = \h3C -> <<"F2", "F2", "0">>
      [] row = \h3D -> <<"F3", "F3", "0">>                   [] row = \h45 -> <<"NUM_LOCK", "NUM_LOCK", "0">>
      [] row = \h46 -> <<"SCROLL_LOCK", "SCROLL_LOCK", "0">>  [] row = \h48 -> <<"PAD_UP", "8", "UP">>
      [] row = \h4A -> <<"PAD_MINUS", "-", "0">>             [] row = \h50 -> <<"PAD_DOWN", "2", "DOWN">>
      [] row = \h53 -> <<"PAD_DOT", ".", "DELETE">>
      [] OTHER -> NoRow

SmallLetters == {"a"}
Shifted == {"SHIFT_L", "SHIFT_R"}

\* What a key of the number pad stands for: its sign, or with Num Lock, or without.
PadSign == [PAD_SLASH |-> "/", PAD_MINUS |-> "-", PAD_ENTER |-> "ENTER"]
PadNumber == [PAD_UP |-> "8", PAD_DOWN |-> "2", PAD_DOT |-> "."]
PadCursor == [PAD_UP |-> "UP", PAD_DOWN |-> "DOWN", PAD_DOT |-> "DELETE"]
Pad(k, on) ==
    CASE k \in DOMAIN PadSign -> PadSign[k]
      [] k \in DOMAIN PadNumber /\ "NUM_LOCK" \in on -> PadNumber[k]
      [] k \in DOMAIN PadCursor /\ "NUM_LOCK" \notin on -> PadCursor[k]
      [] OTHER -> k

Toggled(S, x) == IF x \in S THEN S \ {x} ELSE S \cup {x}

KeyUnder(code, e0, mods, lks) ==
    LET row == keymap(code % 128)
        shift == Shifted \cap mods # {}
        caps == IF "CAPS_LOCK" \in lks /\ row[1] \in SmallLetters THEN ~shift ELSE shift
    IN  IF e0 THEN row[3] ELSE IF caps THEN row[2] ELSE row[1]
KeyOf(code, e0) == KeyUnder(code, e0, modifiers, locks)

Make(code) == code < 128

\* Pause sends one sequence when pressed and none when released, Print Screen has one for each.
Pause == <<\hE1, \h1D, \h45, \hE1, \h9D, \hC5>>
PrintMake == <<\hE0, \h2A, \hE0, \h37>>
PrintBreak == <<\hE0, \hB7, \hE0, \hAA>>

\* Any other key sends a code of its row in keymap, behind 0xE0 or not; that is a
\* modifier's or a lock's if and only if the key is one, in whatever state.
Sends(k, make, bytes) ==
    \/ bytes \in {<<>>, Pause, PrintMake, PrintBreak} /\ k \notin Modifiers \cup Locks
    \/ \E c \in Byte :
          /\ \/ bytes = <<c>> /\ c \notin {\hE0, \hE1}
             \/ bytes = <<\hE0, c>> /\ c \notin {\h2A, \hB7, KB_ACK}
          /\ Make(c) = make
          /\ \A mods \in SUBSET Modifiers, lks \in SUBSET Locks :
                LET x == KeyUnder(c, Len(bytes) = 2, mods, lks) IN
                IF k \in Modifiers \cup Locks THEN x = k ELSE x \notin Modifiers \cup Locks

ASSUME CodesAssumption ==
    \A k \in Keys : Sends(k, TRUE, codes[k].make) /\ Sends(k, FALSE, codes[k].break)

\* The part of keyboard_read behind the sequences.
Translate(code, e0) ==
    LET k == KeyOf(code, e0) IN
    /\ modifiers' = IF k \notin Modifiers THEN modifiers
                    ELSE IF Make(code) THEN modifiers \cup {k} ELSE modifiers \ {k}
    /\ locks' = IF k \in Locks /\ Make(code) THEN Toggled(locks, k) ELSE locks
    /\ at' = IF ~Make(code) THEN "idle" ELSE IF k \in Locks THEN "led" ELSE "key"
    /\ key' = IF Make(code) THEN [raw |-> Pad(k, locks'), flags |-> modifiers'] ELSE NoKey
    /\ scan_code' = 0 /\ rest' = <<>>

-----------------------------------------------------------------------------
get_byte_from_kbuf ==
    /\ kb_in.count > 0
    /\ got' = RingFirst(kb_in)
    /\ kb_in' = RingTake(kb_in, KB_IN_BYTES)

MoreToCome(code, follows) ==
    /\ at' = "sequence" /\ scan_code' = code /\ rest' = follows
    /\ UNCHANGED <<modifiers, locks, key>>

\* Mutant: no prefix.
FirstBytePlain ==
    /\ at = "idle"
    /\ get_byte_from_kbuf
    /\ Translate(got', FALSE)
    /\ UNCHANGED deviceVars

\* The call of keyboard_read with its first byte.
FirstByte ==
    /\ at = "idle"
    /\ get_byte_from_kbuf
    /\ CASE got' = \hE1 -> MoreToCome(\hE1, <<\h1D, \h45, \hE1, \h9D, \hC5>>)
         [] got' = \hE0 -> at' = "E0" /\ UNCHANGED <<modifiers, locks, key, scan_code, rest>>
         [] OTHER -> Translate(got', FALSE)
    /\ UNCHANGED deviceVars

SecondByte ==
    /\ at = "E0"
    /\ get_byte_from_kbuf
    /\ CASE got' = \h2A -> MoreToCome(\h2A, <<\hE0, \h37>>)
         [] got' = \hB7 -> MoreToCome(\hB7, <<\hE0, \hAA>>)
         [] OTHER -> Translate(got', TRUE)
    /\ UNCHANGED deviceVars

\* Mutant: one byte more than the sequence has.
NextByteAgain ==
    /\ at = "sequence"
    /\ get_byte_from_kbuf
    /\ IF rest = <<>> \/ got' # Head(rest) THEN Translate(scan_code, scan_code # \hE1)
       ELSE MoreToCome(scan_code, Tail(rest))
    /\ UNCHANGED deviceVars

\* Pause and Print Screen do nothing.  A byte that does not fit is gone, and the
\* one that began the sequence is taken for a key.
NextByte ==
    /\ at = "sequence"
    /\ get_byte_from_kbuf
    /\ CASE got' # Head(rest) -> Translate(scan_code, scan_code # \hE1)
         [] got' = Head(rest) /\ Len(rest) > 1 -> MoreToCome(scan_code, Tail(rest))
         [] OTHER -> /\ at' = "idle" /\ scan_code' = 0 /\ rest' = <<>>
                     /\ UNCHANGED <<modifiers, locks, key>>
    /\ UNCHANGED deviceVars

\* set_leds: both bytes, each answered by an ACK that comes as an interrupt, too.
OutByte(from, to) ==
    /\ at = from /\ at' = to
    /\ sending' = Append(sending, KB_ACK)
    /\ UNCHANGED <<kb_in, modifiers, locks, got, scan_code, rest, key,
                   port, down, lamps, strokes, dropped, overtaken>>
kb_ack(from, to) ==
    /\ at = from /\ port = KB_ACK
    /\ at' = to
    /\ UNCHANGED <<kb_in, got, modifiers, locks, scan_code, rest, key>>
    /\ UNCHANGED deviceVars
set_leds ==
    \/ OutByte("led", "ack") \/ kb_ack("ack", "led2")
    \/ OutByte("led2", "ack2") \/ kb_ack("ack2", "key")

keyboard_read_on == SecondByte \/ NextByte \/ set_leds

\* tty_input_process has the key.
KeyTaken == at = "key" /\ at' = "idle" /\ key' = NoKey

-----------------------------------------------------------------------------
\* Mutant: the handler does not look whether there is room.
HandlerOverwrites(c) ==
    /\ kb_in' = [RingPut(kb_in, KB_IN_BYTES, c) EXCEPT
                    !.count = IF @ > KB_IN_BYTES THEN KB_IN_BYTES ELSE @]
    /\ UNCHANGED dropped

keyboard_handler(c) ==
    IF kb_in.count < KB_IN_BYTES
    THEN kb_in' = RingPut(kb_in, KB_IN_BYTES, c) /\ UNCHANGED dropped
    ELSE dropped' = (dropped \/ c # KB_ACK) /\ UNCHANGED kb_in

ByteComes ==
    /\ sending # <<>>
    /\ port' = Head(sending) /\ sending' = Tail(sending)
    /\ keyboard_handler(Head(sending))
    /\ overtaken' = (overtaken \/ (at \in {"ack", "ack2"} /\ port = KB_ACK /\ port' # KB_ACK))
    /\ UNCHANGED <<readerVars, got, down, lamps, strokes>>

Stroke(bytes) ==
    /\ strokes < MaxStrokes /\ strokes' = strokes + 1
    /\ sending' = sending \o bytes
    /\ UNCHANGED <<kb_in, readerVars, got, port, dropped, overtaken>>

Press(k) ==
    /\ k \notin down /\ down' = down \cup {k}
    /\ lamps' = IF k \in Locks THEN Toggled(lamps, k) ELSE lamps
    /\ Stroke(codes[k].make)

Release(k) ==
    /\ k \in down /\ down' = down \ {k}
    /\ UNCHANGED lamps
    /\ Stroke(codes[k].break)

Type == \E k \in Keys : Press(k) \/ Release(k)
Device == ByteComes \/ Type

-----------------------------------------------------------------------------
InTheMiddle == at \notin {"idle", "key"}
Quiet == kb_in.count = 0 /\ sending = <<>>

\* When all that was typed is read, the shift keys that keyboard.c takes to be
\* down are those that are, and the locks are as often on and off as their keys
\* were pressed, unless a code was dropped.
ModifiersTrue ==
    Quiet /\ ~InTheMiddle /\ ~dropped =>
        /\ modifiers = down \cap Modifiers
        /\ locks = lamps

\* TASK_TTY stays in the middle of a sequence, or waits for an ACK that has come
\* and gone, only if a code was dropped or overtook the ACK; and then
\* it stays there until the next key, or for ever.
StuckCause ==
    /\ Quiet /\ at \in {"E0", "sequence"} => dropped
    /\ sending = <<>> /\ at \in {"ack", "ack2"} /\ port # KB_ACK => overtaken

Queue == INSTANCE Fifo WITH
    Size <- KB_IN_BYTES, Code <- Byte, queue <- RingItems(kb_in, KB_IN_BYTES)
\* The ring is a queue: codes are read in the order in which they came, once
\* each, and only those that come while it is full are dropped.
RingIsFifo == Queue!FifoSpec
=============================================================================
