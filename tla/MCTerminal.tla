----------------------------- MODULE MCTerminal -----------------------------
(* Terminal with a few keys, for TLC. *)
EXTENDS Terminal

MCPrinted == {"x", Newline}

Plain(code) == [make |-> <<code>>, break |-> <<code + 128>>]
MCcodes ==
    [SHIFT_L |-> Plain(\h2A), ALT_L |-> Plain(\h38), CAPS_LOCK |-> Plain(\h3A),
     a |-> Plain(\h1E), ENTER |-> Plain(\h1C), BACKSPACE |-> Plain(\h0E), F2 |-> Plain(\h3C),
     UP |-> [make |-> <<\hE0, \h48>>, break |-> <<\hE0, \hC8>>],
     PRINTSCREEN |-> [make |-> <<\hE0, \h2A, \hE0, \h37>>, break |-> <<\hE0, \hB7, \hE0, \hAA>>]]

\* A code that comes while TASK_TTY is in no keyboard_read might as well come
\* before its next one, a key that is pressed while others are on their way might
\* be pressed after them, and a print while TASK_TTY reads keys before it did.
OrderMatters ==
    /\ strokes' # strokes => sending = <<>>
    /\ sending' # sending => pc \in {"read", "keyboard"}
    /\ printed' # printed => pc \notin {"keyboard", "write"}

\* Keys that are down together, and how much happens in all.
Together == {{"SHIFT_L", "UP"}, {"SHIFT_L", "a"}, {"ALT_L", "F2", "a"}, {"CAPS_LOCK", "SHIFT_L"},
             {"CAPS_LOCK", "a"}, {"PRINTSCREEN"}, {"ENTER", "BACKSPACE"}}
Bounded ==
    /\ \E S \in Together : down \subseteq S
    /\ strokes + printed <= (IF down = {"SHIFT_L", "UP"} THEN 4 ELSE 3)
=============================================================================
