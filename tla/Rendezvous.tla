---------------------------- MODULE Rendezvous ----------------------------
(***************************************************************************)
(* What message passing promises its callers, with no pointer in sight:    *)
(* each process has a FIFO queue of the messages that others are blocked   *)
(* sending to it, a sender and a receiver that match meet at once, and a   *)
(* message is copied whole from one to the other.  Module Ipc implements   *)
(* it (MCIpcRefinement).                                                   *)
(*                                                                         *)
(* The promise has two gaps, as the code does: a receiver that meets an    *)
(* interrupt which came before it waited reads an arbitrary message, and   *)
(* the whole system may stop.                                              *)
(***************************************************************************)
EXTENDS Naturals, Sequences, SequencesExt

CONSTANTS
    Process,
    IntProcess,     \* those that interrupts are raised for
    Buffer, Message,
    IntMessage,     \* what an interrupt says
    Anyone, Interrupt   \* what a receiver may name besides a process

VARIABLES
    waits,      \* waits[p]: Ready, or what p waits for
    inbox,      \* inbox[p]: the messages blocked on their way to p, oldest first
    flagged,    \* flagged[p]: an interrupt came while p did not wait
    memory,     \* memory[p][b]: the message at address b of p
    running     \* FALSE once the system has stopped

rendezvous == <<waits, inbox, flagged, memory, running>>

Ready == [op |-> "run"]
Sending(d) == [op |-> "send", to |-> d]
Receiving(src, b) == [op |-> "receive", from |-> src, buf |-> b]

Expects(d, s) == waits[d].op = "receive" /\ waits[d].from \in {s, Anyone}

Start ==
    /\ waits = [p \in Process |-> Ready]
    /\ inbox = [p \in Process |-> <<>>]
    /\ flagged = [p \in Process |-> FALSE]
    /\ memory \in [Process -> [Buffer -> Message]]
    /\ running = TRUE

Caller(p) == running /\ running' /\ waits[p] = Ready

\* Memory once p has filled buffer b with a message that carries its name.
Fill(p, b, msg) == [memory EXCEPT ![p][b] = msg]

Deliver(p, d, b, msg) ==
    /\ Caller(p) /\ p # d /\ msg.source = p
    /\ Expects(d, p)
    /\ memory' = [Fill(p, b, msg) EXCEPT ![d][waits[d].buf] = msg]
    /\ waits' = [waits EXCEPT ![d] = Ready]
    /\ UNCHANGED <<inbox, flagged>>

Enqueue(p, d, b, msg) ==
    /\ Caller(p) /\ p # d /\ msg.source = p
    /\ ~Expects(d, p)
    /\ memory' = Fill(p, b, msg)
    /\ waits' = [waits EXCEPT ![p] = Sending(d)]
    /\ inbox' = [inbox EXCEPT ![d] = Append(@, msg)]
    /\ UNCHANGED flagged

\* The oldest message of the queue, or the one of the process asked for.
Take(p, src, b, i) ==
    /\ Caller(p)
    /\ ~(flagged[p] /\ src \in {Anyone, Interrupt})
    /\ IF src = Anyone THEN i = 1 ELSE inbox[p][i].source = src
    /\ memory' = [memory EXCEPT ![p][b] = inbox[p][i]]
    /\ waits' = [waits EXCEPT ![inbox[p][i].source] = Ready]
    /\ inbox' = [inbox EXCEPT ![p] = RemoveAt(@, i)]
    /\ UNCHANGED flagged

Await(p, src, b) ==
    /\ Caller(p)
    /\ ~(flagged[p] /\ src \in {Anyone, Interrupt})
    /\ IF src = Anyone THEN inbox[p] = <<>>
                    ELSE \A i \in DOMAIN inbox[p] : inbox[p][i].source # src
    /\ waits' = [waits EXCEPT ![p] = Receiving(src, b)]
    /\ memory' = [memory EXCEPT ![p][b].source = p]
    /\ UNCHANGED <<inbox, flagged>>

\* The interrupt was noted, its message was not.
TakeInterrupt(p, b, msg) ==
    /\ Caller(p)
    /\ flagged[p]
    /\ memory' = Fill(p, b, msg)
    /\ flagged' = [flagged EXCEPT ![p] = FALSE]
    /\ UNCHANGED <<waits, inbox>>

\* An interrupt releases a process that expects one, or is noted.
Raise(d) ==
    /\ running /\ running'
    /\ Expects(d, Interrupt)
    /\ memory' = [memory EXCEPT ![d][waits[d].buf] = IntMessage]
    /\ waits' = [waits EXCEPT ![d] = Ready]
    /\ flagged' = [flagged EXCEPT ![d] = FALSE]
    /\ UNCHANGED inbox

Note(d) ==
    /\ running /\ running'
    /\ ~Expects(d, Interrupt)
    /\ flagged' = [flagged EXCEPT ![d] = TRUE]
    /\ UNCHANGED <<waits, inbox, memory>>

Stop == running /\ ~running'

Step ==
    \/ \E p, d \in Process, b \in Buffer, msg \in Message :
          Deliver(p, d, b, msg) \/ Enqueue(p, d, b, msg)
    \/ \E p \in Process, src \in Process \cup {Anyone, Interrupt}, b \in Buffer :
          Await(p, src, b) \/ \E i \in DOMAIN inbox[p] : Take(p, src, b, i)
    \/ \E p \in Process, b \in Buffer, msg \in Message : TakeInterrupt(p, b, msg)
    \/ \E d \in IntProcess : Raise(d) \/ Note(d)
    \/ Stop

Spec == Start /\ [][Step]_rendezvous
=============================================================================
