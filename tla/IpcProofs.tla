----------------------------- MODULE IpcProofs -----------------------------
(***************************************************************************)
(* Theorems about Ipc, for every set of processes, tasks and messages.     *)
(***************************************************************************)
EXTENDS IpcRefinement, FiniteSetTheorems, SequenceTheorems, TLAPS

USE DEF SENDING, RECEIVING

LEMMA InitTyped == Init => TypeOK
<1>1. [source |-> NO_TASK, type |-> JUNK] \in Message
  BY DEF Message
<1>2. Init => mem \in [Procs -> [Bufs \cup {NULL} -> Message]]
  BY <1>1 DEF Init
<1> QED
  BY <1>2 DEF Init, TypeOK, KernelState

\* Every call changes each variable within its type.
LEMMA TypeKept == TypeOK /\ [Next]_vars => TypeOK'
<1> SUFFICES ASSUME TypeOK, [Next]_vars PROVE TypeOK'
  OBVIOUS
<1> USE DEF TypeOK
<1>1. ASSUME NEW p \in Procs, NEW d \in Procs, NEW m \in Bufs, NEW x \in Types,
             Send(p, d, m, x)
      PROVE  TypeOK'
  <2>0. Sent(p, x) \in Message
    BY DEF Sent, Message
  <2>1. CASE SendSpins(p, d, m, x)
    BY <2>0, <2>1 DEF SendSpins, procVars, queueVars, KernelState
  <2>2. CASE SendHalts(p, d, m, x)
    BY <2>0, <2>2 DEF SendHalts, procVars, queueVars, KernelState
  <2>3. CASE SendDelivers(p, d, m, x)
    BY <2>0, <2>3 DEF SendDelivers, procVars, queueVars, KernelAssert, KernelState
  <2>4. CASE SendBlocks(p, d, m, x)
    <3>1. /\ p_flags' \in [Procs -> SUBSET {SENDING, RECEIVING}]
          /\ p_sendto' \in [Procs -> Procs \cup {NO_TASK}]
          /\ p_msg' \in [Procs -> Bufs \cup {NULL}]
          /\ UNCHANGED <<p_recvfrom, has_int_msg>>
      BY <2>4 DEF SendBlocks
    <3>2. /\ q_sending' \in [Procs -> Procs \cup {NULL}]
          /\ next_sending' \in [Procs -> Procs \cup {NULL}]
      BY <2>4 DEF SendBlocks
    <3>3. mem' \in [Procs -> [Bufs \cup {NULL} -> Message]]
      BY <2>0, <2>4 DEF SendBlocks
    <3>4. reported' \in BOOLEAN
      BY <2>4, Zenon DEF SendBlocks
    <3>5. kernel' \in KernelState
      BY <2>4 DEF SendBlocks, KernelAssert, KernelState
    <3> QED
      BY <3>1, <3>2, <3>3, <3>4, <3>5
  <2> QED
    BY <1>1, <2>1, <2>2, <2>3, <2>4 DEF Send
<1>2. ASSUME NEW p \in Procs, NEW src \in Procs \cup {ANY, INTERRUPT}, NEW m \in Bufs,
             Receive(p, src, m)
      PROVE  TypeOK'
  <2>0. Stamped(p, m) \in [Procs -> [Bufs \cup {NULL} -> Message]]
    <3>1. [source |-> p, type |-> mem[p][m].type] \in Message
      BY DEF Message
    <3> QED
      BY <3>1 DEF Stamped
  <2>1. CASE ReceivePending(p, src, m)
    BY <2>0, <2>1 DEF ReceivePending, queueVars, KernelAssert, KernelState
  <2>2. ASSUME NEW s \in Procs, ReceiveTakes(p, src, s, m)
        PROVE  TypeOK'
    <3>1. mem[s][p_msg[s]] \in Message
      OBVIOUS
    <3>2. /\ q_sending' \in [Procs -> Procs \cup {NULL}]
          /\ next_sending' \in [Procs -> Procs \cup {NULL}]
      <4>1. Unlink(p, s) /\ next_sending[s] \in Procs \cup {NULL}
        BY <2>2 DEF ReceiveTakes
      <4>2. CASE q_sending[p] = s
        BY <4>1, <4>2 DEF Unlink
      <4>3. CASE q_sending[p] # s
        BY <4>1, <4>3 DEF Unlink
      <4> QED
        BY <4>2, <4>3
    <3>3. mem' \in [Procs -> [Bufs \cup {NULL} -> Message]]
      BY <2>0, <2>2, <3>1 DEF ReceiveTakes
    <3>4. /\ p_flags' \in [Procs -> SUBSET {SENDING, RECEIVING}]
          /\ p_sendto' \in [Procs -> Procs \cup {NO_TASK}]
          /\ p_msg' \in [Procs -> Bufs \cup {NULL}]
          /\ UNCHANGED <<p_recvfrom, has_int_msg, kernel, reported>>
      BY <2>2 DEF ReceiveTakes
    <3> QED
      BY <3>2, <3>3, <3>4
  <2>3. ASSUME NEW s \in Procs, ReceiveFails(p, src, s, m)
        PROVE  TypeOK'
    BY <2>0, <2>3 DEF ReceiveFails, procVars, queueVars, KernelState
  <2>4. CASE ReceiveBlocks(p, src, m)
    BY <2>0, <2>4 DEF ReceiveBlocks, queueVars, KernelAssert, KernelState
  <2> QED
    BY <1>2, <2>1, <2>2, <2>3, <2>4 DEF Receive
<1>3. ASSUME NEW d \in IntTasks, sys_sendint(d)
      PROVE  TypeOK'
  <2>1. CASE SendintDelivers(d)
    BY <2>1 DEF SendintDelivers, queueVars, KernelAssert, KernelState, Message
  <2>2. CASE SendintMarks(d)
    BY <2>2 DEF SendintMarks, queueVars
  <2> QED
    BY <1>3, <2>1, <2>2 DEF sys_sendint
<1>4. CASE UNCHANGED vars
  BY <1>4 DEF vars, procVars, queueVars
<1> QED
  BY <1>1, <1>2, <1>3, <1>4 DEF Next

\* Every step changes each variable within its type.
THEOREM TypeCorrect == Spec => []TypeOK
BY InitTyped, TypeKept, PTL DEF Spec

-----------------------------------------------------------------------------
(* A walk over the process table visits the least closed set.              *)

LEMMA OrbitStart ==
  ASSUME NEW f, NEW h \in Procs
  PROVE  h \in Orbit(f, h)
BY DEF Orbit

LEMMA OrbitClosed ==
  ASSUME NEW f, NEW h \in Procs, NEW r \in Orbit(f, h), f[r] \in Procs
  PROVE  f[r] \in Orbit(f, h)
BY DEF Orbit

LEMMA OrbitLeast ==
  ASSUME NEW f, NEW h \in Procs, NEW S \in SUBSET Procs,
         h \in S, \A r \in S : f[r] \in Procs => f[r] \in S
  PROVE  Orbit(f, h) \subseteq S
BY DEF Orbit

-----------------------------------------------------------------------------
(* The queues of blocked senders.                                          *)

\* A process that sends has a destination, which is another process.
LEMMA SenderFacts ==
  ASSUME TypeOK, FieldsInv, NEW s \in Procs, NEW d \in Procs, SendsTo(s, d)
  PROVE  /\ s # d
         /\ p_flags[s] = {SENDING}
         /\ p_msg[s] # NULL
         /\ p_recvfrom[s] = NO_TASK
BY IpcAssumption DEF TypeOK, FieldsInv, FieldsOf, SendsTo

\* A set of processes blocked sending to d has a last and a first element.
LEMMA QueueEnds ==
  ASSUME QueueInv, NEW d \in Procs, NEW S, S \subseteq Senders(d), S # {}
  PROVE  /\ \E s \in S : next_sending[s] \notin S
         /\ \E s \in S : \A t \in S : next_sending[t] # s
BY DEF QueueInv, EndsInv

\* The walk from q_sending[d] meets the processes blocked sending to d, all
\* of them and nobody else.
LEMMA QueueIsSenders ==
  ASSUME TypeOK, FieldsInv, QueueInv, NEW d \in Procs, q_sending[d] # NULL
  PROVE  Queued(d) = Senders(d)
<1> DEFINE h == q_sending[d]
<1>1. h \in Senders(d) /\ h \in Procs
  BY DEF QueueInv, HeadInv, Senders
<1>2. \A r \in Senders(d) : next_sending[r] \in Procs => next_sending[r] \in Senders(d)
  BY IpcAssumption DEF QueueInv, LinkInv, Senders, SendsTo
<1>3. Queued(d) \subseteq Senders(d)
  BY <1>1, <1>2, OrbitLeast DEF Queued, Senders
<1>4. Senders(d) \subseteq Queued(d)
  <2> DEFINE R == Senders(d) \ Queued(d)
  <2>1. SUFFICES ASSUME R # {} PROVE FALSE
    OBVIOUS
  <2>2. PICK r \in R : \A t \in R : next_sending[t] # r
    BY <2>1 DEF QueueInv, EndsInv
  <2>3. r # h
    BY <1>1, OrbitStart DEF Queued
  <2>4. PICK t \in Senders(d) : next_sending[t] = r
    BY <2>3 DEF QueueInv, LinkedInv
  <2>5. t \in Queued(d)
    BY <2>2, <2>4
  <2>6. r \in Queued(d)
    BY <1>1, <2>4, <2>5, OrbitClosed DEF Queued, Senders
  <2> QED
    BY <2>6
<1> QED
  BY <1>3, <1>4

\* msg_send's walk ends, at a sender with no successor.
LEMMA LastOfQueue ==
  ASSUME TypeOK, FieldsInv, QueueInv, NEW d \in Procs, q_sending[d] # NULL
  PROVE  LastQueued(d) \in Senders(d) /\ next_sending[LastQueued(d)] = NULL
<1>1. Queued(d) = Senders(d)
  BY QueueIsSenders
<1>2. Senders(d) # {}
  BY DEF QueueInv, HeadInv
<1>3. PICK t \in Senders(d) : next_sending[t] \notin Senders(d)
  BY <1>2 DEF QueueInv, EndsInv
<1>4. next_sending[t] = NULL
  BY <1>3 DEF QueueInv, LinkInv, Senders, SendsTo
<1> QED
  BY <1>1, <1>4 DEF LastQueued

\* msg_receive's walk meets the process before s, and there is only one.
LEMMA BeforeInQueue ==
  ASSUME TypeOK, FieldsInv, QueueInv, NEW d \in Procs,
         NEW s \in Senders(d), s # q_sending[d]
  PROVE  /\ QueuedBefore(d, s) \in Senders(d) \ {s}
         /\ next_sending[QueuedBefore(d, s)] = s
<1>1. q_sending[d] # NULL
  BY DEF QueueInv, HeadInv
<1>2. Queued(d) = Senders(d)
  BY <1>1, QueueIsSenders
<1>3. PICK t \in Senders(d) : next_sending[t] = s
  BY DEF QueueInv, LinkedInv
<1>4. next_sending[s] # s
  <2>1. {s} \in SUBSET Senders(d)
    OBVIOUS
  <2>2. \E t1 \in {s} : next_sending[t1] \notin {s}
    BY <2>1 DEF QueueInv, EndsInv
  <2> QED
    BY <2>2
<1> QED
  BY <1>2, <1>3, <1>4 DEF QueuedBefore


\* A process that runs is in no queue.
LEMMA RunningIsUnlinked ==
  ASSUME TypeOK, FieldsInv, QueueInv, NEW p \in Procs, p_flags[p] = {}
  PROVE  /\ next_sending[p] = NULL
         /\ \A r \in Procs : next_sending[r] # p /\ q_sending[r] # p
         /\ \A e \in Procs : p \notin Senders(e)
<1>1. \A e \in Procs : p \notin Senders(e)
  BY DEF Senders, SendsTo
<1>2. next_sending[p] = NULL
  BY DEF QueueInv, LinkInv
<1>3. ASSUME NEW r \in Procs PROVE next_sending[r] # p /\ q_sending[r] # p
  <2>1. next_sending[r] # p
    <3>1. SUFFICES ASSUME next_sending[r] = p PROVE FALSE
      OBVIOUS
    <3>2. next_sending[r] # NULL
      BY <3>1, IpcAssumption
    <3>3. p \in Senders(p_sendto[r])
      BY <3>1, <3>2 DEF QueueInv, LinkInv
    <3> QED
      BY <3>3 DEF Senders, SendsTo
  <2>2. q_sending[r] # p
    BY <1>1, IpcAssumption DEF QueueInv, HeadInv
  <2> QED
    BY <2>1, <2>2
<1> QED
  BY <1>1, <1>2, <1>3

\* msg_send appends to the queue of its destination and touches no other.
LEMMA AppendKeepsQueues ==
  ASSUME TypeOK, FieldsInv, QueueInv,
         NEW p \in Procs, NEW d \in Procs, NEW m \in Bufs, NEW x \in Types,
         p_flags[p] = {}, p # d, SendBlocks(p, d, m, x)
  PROVE  QueueInv'
<1> DEFINE t == LastQueued(d)
<1> USE DEF TypeOK
<1>1. /\ next_sending[p] = NULL
      /\ \A r \in Procs : next_sending[r] # p /\ q_sending[r] # p
      /\ \A e \in Procs : p \notin Senders(e)
  BY RunningIsUnlinked
<1>2. \A r \in Procs : p_flags'[r] = IF r = p THEN {SENDING} ELSE p_flags[r]
  BY DEF SendBlocks
<1>3. \A r \in Procs : p_sendto'[r] = IF r = p THEN d ELSE p_sendto[r]
  BY DEF SendBlocks
<1>4. Senders(d)' = Senders(d) \cup {p}
  BY <1>2, <1>3 DEF Senders, SendsTo
<1>5. \A e \in Procs : e # d => Senders(e)' = Senders(e)
  BY <1>1, <1>2, <1>3 DEF Senders, SendsTo
<1>6. CASE q_sending[d] = NULL
  <2>1. Senders(d) = {}
    BY <1>6 DEF QueueInv, HeadInv
  <2>2. \A r \in Procs : next_sending'[r] = next_sending[r]
    BY <1>1, <1>6 DEF SendBlocks
  <2>3. \A e \in Procs : q_sending'[e] = IF e = d THEN p ELSE q_sending[e]
    BY <1>6 DEF SendBlocks
  <2>4. HeadInv'
    BY <1>4, <1>5, <2>3, IpcAssumption DEF QueueInv, HeadInv
  <2>5. LinkInv'
    <3>1. SUFFICES ASSUME NEW s \in Procs, next_sending[s] # NULL
                   PROVE  /\ SENDING \in p_flags'[s]
                          /\ next_sending[s] \in Senders(p_sendto[s])'
                          /\ next_sending[s] # q_sending'[p_sendto'[s]]
                          /\ \A r \in Procs : next_sending[r] = next_sending[s] => r = s
      BY <2>2 DEF LinkInv
    <3>2. s # p
      BY <1>1, <3>1
    <3>3. p_sendto[s] \in Procs
      BY <3>1 DEF QueueInv, LinkInv, FieldsInv, FieldsOf
    <3>4. /\ SENDING \in p_flags[s]
          /\ next_sending[s] \in Senders(p_sendto[s])
          /\ next_sending[s] # q_sending[p_sendto[s]]
          /\ \A r \in Procs : next_sending[r] = next_sending[s] => r = s
      BY <3>1 DEF QueueInv, LinkInv
    <3>5. next_sending[s] # p /\ p_sendto'[s] = p_sendto[s] /\ SENDING \in p_flags'[s]
      BY <1>1, <1>2, <1>3, <3>2, <3>4
    <3>6. next_sending[s] \in Senders(p_sendto[s])'
      BY <1>2, <1>3, <3>4, <3>5 DEF Senders, SendsTo
    <3> QED
      BY <2>3, <3>3, <3>4, <3>5, <3>6
  <2>6. LinkedInv'
    <3>1. SUFFICES ASSUME NEW e \in Procs, NEW s \in Senders(e)', s # q_sending'[e]
                   PROVE  \E r \in Senders(e)' : next_sending'[r] = s
      BY DEF LinkedInv
    <3>2. e # d
      BY <1>4, <2>1, <2>3, <3>1
    <3>3. PICK r \in Senders(e) : next_sending[r] = s
      BY <1>5, <2>3, <3>1, <3>2 DEF QueueInv, LinkedInv
    <3> QED
      BY <1>5, <2>2, <3>2, <3>3 DEF Senders
  <2>7. EndsInv'
    <3>1. SUFFICES ASSUME NEW e \in Procs, NEW S \in SUBSET Senders(e)', S # {}
                   PROVE  /\ \E s \in S : next_sending'[s] \notin S
                          /\ \E s \in S : \A r \in S : next_sending'[r] # s
      BY DEF EndsInv
    <3>2. CASE e = d
      <4>1. S = {p}
        BY <1>4, <2>1, <3>1, <3>2
      <4> QED
        BY <1>1, <2>2, <4>1, IpcAssumption
    <3>3. CASE e # d
      <4>1. S \subseteq Senders(e) /\ S \subseteq Procs
        BY <1>5, <3>1, <3>3 DEF Senders
      <4>2. /\ \E s \in S : next_sending[s] \notin S
            /\ \E s \in S : \A r \in S : next_sending[r] # s
        BY <3>1, <4>1, QueueEnds
      <4> QED
        BY <2>2, <4>1, <4>2
    <3> QED
      BY <3>2, <3>3
  <2> QED
    BY <2>4, <2>5, <2>6, <2>7 DEF QueueInv
<1>7. CASE q_sending[d] # NULL
  <2>1. t \in Senders(d) /\ next_sending[t] = NULL /\ t \in Procs /\ t # p
    BY <1>1, <1>7, LastOfQueue DEF Senders
  <2>2. \A r \in Procs : next_sending'[r] = IF r = t THEN p ELSE next_sending[r]
    BY <1>1, <1>7, <2>1 DEF SendBlocks
  <2>3. q_sending' = q_sending
    BY <1>7 DEF SendBlocks
  <2>4. HeadInv'
    BY <1>4, <1>5, <1>7, <2>3 DEF QueueInv, HeadInv
  <2>5. LinkInv'
    <3>1. SUFFICES ASSUME NEW s \in Procs, next_sending'[s] # NULL
                   PROVE  /\ SENDING \in p_flags'[s]
                          /\ next_sending'[s] \in Senders(p_sendto[s])'
                          /\ next_sending'[s] # q_sending[p_sendto'[s]]
                          /\ \A r \in Procs : next_sending'[r] = next_sending'[s] => r = s
      BY <2>3 DEF LinkInv
    <3>2. CASE s = t
      <4>1. p_sendto'[s] = d /\ SENDING \in p_flags'[s]
        BY <1>2, <1>3, <2>1, <3>2 DEF Senders, SendsTo
      <4>2. next_sending'[s] = p
        BY <2>1, <2>2, <3>2
      <4>3. \A r \in Procs : next_sending'[r] = p => r = t
        BY <1>1, <2>2
      <4>4. p \in Senders(p_sendto[s])'
        BY <1>2, <1>3, <4>1 DEF Senders, SendsTo
      <4> QED
        BY <1>1, <3>2, <4>1, <4>2, <4>3, <4>4
    <3>3. CASE s # t
      <4>1. next_sending'[s] = next_sending[s] /\ s # p
        BY <1>1, <2>2, <3>1, <3>3
      <4>2. /\ SENDING \in p_flags[s]
            /\ next_sending[s] \in Senders(p_sendto[s])
            /\ next_sending[s] # q_sending[p_sendto[s]]
            /\ \A r \in Procs : next_sending[r] = next_sending[s] => r = s
        BY <3>1, <4>1 DEF QueueInv, LinkInv
      <4>3. next_sending[s] # p /\ p_sendto'[s] = p_sendto[s] /\ SENDING \in p_flags'[s]
        BY <1>1, <1>2, <1>3, <4>1, <4>2
      <4>4. next_sending[s] \in Senders(p_sendto[s])'
        BY <1>2, <1>3, <4>2, <4>3 DEF Senders, SendsTo
      <4>5. \A r \in Procs : next_sending'[r] = next_sending[s] => r = s
        BY <2>2, <4>2, <4>3
      <4> QED
        BY <4>1, <4>2, <4>3, <4>4, <4>5
    <3> QED
      BY <3>2, <3>3
  <2>6. LinkedInv'
    <3>1. SUFFICES ASSUME NEW e \in Procs, NEW s \in Senders(e)', s # q_sending[e]
                   PROVE  \E r \in Senders(e)' : next_sending'[r] = s
      BY <2>3 DEF LinkedInv
    <3>2. CASE s = p
      <4>1. e = d
        BY <1>1, <1>5, <3>2
      <4> QED
        BY <1>4, <2>1, <2>2, <3>2, <4>1
    <3>3. CASE s # p
      <4>1. s \in Senders(e)
        BY <1>4, <1>5, <3>3
      <4>2. PICK r \in Senders(e) : next_sending[r] = s
        BY <3>1, <4>1 DEF QueueInv, LinkedInv
      <4>3. r \in Procs /\ s \in Procs /\ r # t
        BY <2>1, <4>1, <4>2, IpcAssumption DEF Senders
      <4> QED
        BY <1>4, <1>5, <2>2, <4>2, <4>3
    <3> QED
      BY <3>2, <3>3
  <2>7. EndsInv'
    <3>1. SUFFICES ASSUME NEW e \in Procs, NEW S \in SUBSET Senders(e)', S # {}
                   PROVE  /\ \E s \in S : next_sending'[s] \notin S
                          /\ \E s \in S : \A r \in S : next_sending'[r] # s
      BY DEF EndsInv
    <3>2. CASE e = d
      <4>1. S \subseteq Procs
        BY <3>1 DEF Senders
      <4>2. next_sending'[p] \notin S
        BY <1>1, <2>1, <2>2, <4>1, IpcAssumption
      <4>3. CASE S = {p}
        BY <4>2, <4>3
      <4>4. CASE S # {p}
        <5>0. PICK Old : Old = S \ {p}
          OBVIOUS
        <5>1. Old # {} /\ Old \subseteq Senders(d)
          BY <1>4, <3>1, <3>2, <4>4, <5>0
        <5>6. /\ \E s \in Old : next_sending[s] \notin Old
              /\ \E s \in Old : \A r \in Old : next_sending[r] # s
          BY ONLY QueueInv, d \in Procs, <5>1, QueueEnds
        <5>2. PICK a \in Old : next_sending[a] \notin Old
          BY <5>6
        <5>3. PICK b \in Old : \A r \in Old : next_sending[r] # b
          BY <5>6
        <5>4. \E s \in S : next_sending'[s] \notin S
          <6>1. CASE p \in S
            BY <4>2, <6>1
          <6>2. CASE p \notin S
            BY <2>2, <4>1, <5>0, <5>2, <6>2
          <6> QED
            BY <6>1, <6>2
        <5>5. \A r \in S : next_sending'[r] # b
          BY <1>1, <2>2, <4>1, <4>2, <5>0, <5>3
        <5> QED
          BY <5>0, <5>4, <5>5
      <4> QED
        BY <4>3, <4>4
    <3>3. CASE e # d
      <4>1. S \subseteq Senders(e) /\ \A r \in S : next_sending'[r] = next_sending[r]
        BY <1>5, <2>1, <2>2, <3>1, <3>3 DEF Senders, SendsTo
      <4>2. /\ \E s \in S : next_sending[s] \notin S
            /\ \E s \in S : \A r \in S : next_sending[r] # s
        BY ONLY QueueInv, e \in Procs, <3>1, <4>1, QueueEnds
      <4> QED
        BY <4>1, <4>2
    <3> QED
      BY <3>2, <3>3
  <2> QED
    BY <2>4, <2>5, <2>6, <2>7 DEF QueueInv
<1> QED
  BY <1>6, <1>7


\* msg_receive unlinks one sender, wherever it is in the queue.
LEMMA UnlinkKeepsQueues ==
  ASSUME TypeOK, FieldsInv, QueueInv,
         NEW p \in Procs, NEW s \in Procs, NEW src, NEW m \in Bufs,
         ReceiveTakes(p, src, s, m)
  PROVE  QueueInv'
<1> DEFINE n == next_sending[s]
<1> DEFINE b == QueuedBefore(p, s)
<1> USE DEF TypeOK
<1>1. s \in Senders(p) /\ p # s
  BY SenderFacts DEF ReceiveTakes, TakeAssertions, Senders, SendsTo
<1>2. \A r \in Procs : SENDING \in p_flags'[r] <=> r # s /\ SENDING \in p_flags[r]
  BY DEF ReceiveTakes
<1>3. \A r \in Procs : p_sendto'[r] = IF r = s THEN NO_TASK ELSE p_sendto[r]
  BY DEF ReceiveTakes
<1>4. Senders(p)' = Senders(p) \ {s}
  BY <1>2, <1>3 DEF Senders, SendsTo
<1>5. \A e \in Procs : e # p => Senders(e)' = Senders(e) /\ s \notin Senders(e)
  BY <1>1, <1>2, <1>3 DEF Senders, SendsTo
<1>6. n # NULL => /\ n \in Senders(p) \ {s} /\ n # q_sending[p]
                  /\ \A r \in Procs : next_sending[r] = n => r = s
  <2>1. n # s
    <3>1. {s} \subseteq Senders(p) /\ {s} # {}
      BY <1>1
    <3>2. \E r \in {s} : next_sending[r] \notin {s}
      BY <3>1, QueueEnds
    <3> QED
      BY <3>2
  <2> QED
    BY <1>1, <2>1 DEF QueueInv, LinkInv, Senders, SendsTo
<1>7. q_sending[p] # NULL
  BY DEF ReceiveTakes, TakeAssertions
<1>8. ASSUME NEW r \in Procs, next_sending[r] # NULL
      PROVE  /\ SENDING \in p_flags[r]
             /\ p_sendto[r] \in Procs
             /\ next_sending[r] \in Senders(p_sendto[r])
             /\ next_sending[r] # q_sending[p_sendto[r]]
             /\ \A t \in Procs : next_sending[t] = next_sending[r] => t = r
  BY <1>8 DEF QueueInv, LinkInv, FieldsInv, FieldsOf
<1>9. CASE q_sending[p] = s
  <2>1. \A r \in Procs : next_sending'[r] = IF r = s THEN NULL ELSE next_sending[r]
    BY <1>9 DEF ReceiveTakes, Unlink
  <2>2. \A e \in Procs : q_sending'[e] = IF e = p THEN n ELSE q_sending[e]
    BY <1>9 DEF ReceiveTakes, Unlink
  <2>3. HeadInv'
    <3>1. n = NULL => Senders(p) \ {s} = {}
      <4>1. SUFFICES ASSUME n = NULL, Senders(p) \ {s} # {} PROVE FALSE
        OBVIOUS
      <4>2. PICK R : R = Senders(p) \ {s}
        OBVIOUS
      <4>3. PICK r \in R : \A t \in R : next_sending[t] # r
        BY <4>1, <4>2, QueueEnds
      <4>4. PICK t \in Senders(p) : next_sending[t] = r
        BY <1>9, <4>2, <4>3 DEF QueueInv, LinkedInv
      <4>5. t = s
        BY <4>2, <4>3, <4>4
      <4> QED
        BY <4>1, <4>2, <4>3, <4>4, <4>5, IpcAssumption DEF Senders
    <3> QED
      BY <1>4, <1>5, <1>6, <2>2, <3>1 DEF QueueInv, HeadInv
  <2>4. LinkInv'
    <3>1. SUFFICES ASSUME NEW r \in Procs, next_sending'[r] # NULL
                   PROVE  /\ SENDING \in p_flags'[r]
                          /\ next_sending'[r] \in Senders(p_sendto[r])'
                          /\ p_sendto'[r] = p_sendto[r]
                          /\ next_sending'[r] # q_sending'[p_sendto'[r]]
                          /\ \A t \in Procs : next_sending'[t] = next_sending'[r] => t = r
      BY DEF LinkInv
    <3>2. r # s /\ next_sending'[r] = next_sending[r] /\ next_sending[r] # NULL
      BY <2>1, <3>1
    <3>3. next_sending[r] # s
      <4>1. SUFFICES ASSUME next_sending[r] = s PROVE FALSE
        OBVIOUS
      <4>2. p_sendto[r] = p
        BY <1>1, <1>8, <3>2, <4>1 DEF Senders, SendsTo
      <4> QED
        BY <1>8, <1>9, <3>2, <4>1, <4>2
    <3>4. next_sending[r] \in Senders(p_sendto[r])'
      BY <1>2, <1>3, <1>8, <3>2, <3>3 DEF Senders, SendsTo
    <3>5. next_sending[r] # q_sending'[p_sendto[r]]
      BY <1>6, <1>8, <2>2, <3>2
    <3> QED
      BY <1>2, <1>3, <1>8, <2>1, <3>2, <3>4, <3>5
  <2>5. LinkedInv'
    <3>1. SUFFICES ASSUME NEW e \in Procs, NEW r \in Senders(e)', r # q_sending'[e]
                   PROVE  \E t \in Senders(e)' : next_sending'[t] = r
      BY DEF LinkedInv
    <3>2. r \in Senders(e) /\ r # q_sending[e] /\ r \in Procs
      BY <1>4, <1>5, <1>9, <2>2, <3>1 DEF Senders
    <3>3. PICK t \in Senders(e) : next_sending[t] = r
      BY <3>2 DEF QueueInv, LinkedInv
    <3>4. t # s
      BY <1>5, <2>2, <3>1, <3>3
    <3> QED
      BY <1>4, <1>5, <2>1, <3>3, <3>4 DEF Senders
  <2>6. EndsInv'
    <3>1. SUFFICES ASSUME NEW e \in Procs, NEW S \in SUBSET Senders(e)', S # {}
                   PROVE  /\ \E r \in S : next_sending'[r] \notin S
                          /\ \E r \in S : \A t \in S : next_sending'[t] # r
      BY DEF EndsInv
    <3>2. S \subseteq Senders(e) /\ s \notin S /\ S \subseteq Procs
      BY <1>4, <1>5, <3>1 DEF Senders
    <3>3. /\ \E r \in S : next_sending[r] \notin S
          /\ \E r \in S : \A t \in S : next_sending[t] # r
      BY <3>1, <3>2, QueueEnds
    <3> QED
      BY <2>1, <3>2, <3>3
  <2> QED
    BY <2>3, <2>4, <2>5, <2>6 DEF QueueInv
<1>10. CASE q_sending[p] # s
  <2>1. b \in Senders(p) /\ b \in Procs /\ b # s /\ next_sending[b] = s
    BY <1>1, <1>10, BeforeInQueue DEF Senders
  <2>2. \A r \in Procs : next_sending'[r] = IF r = s THEN NULL
                                          ELSE IF r = b THEN n ELSE next_sending[r]
    BY <1>10, <2>1 DEF ReceiveTakes, Unlink
  <2>3. q_sending' = q_sending
    BY <1>10 DEF ReceiveTakes, Unlink
  <2>4. HeadInv'
    BY <1>4, <1>5, <1>7, <1>10, <2>3 DEF QueueInv, HeadInv
  <2>5. LinkInv'
    <3>1. SUFFICES ASSUME NEW r \in Procs, next_sending'[r] # NULL
                   PROVE  /\ SENDING \in p_flags'[r]
                          /\ next_sending'[r] \in Senders(p_sendto[r])'
                          /\ p_sendto'[r] = p_sendto[r]
                          /\ next_sending'[r] # q_sending[p_sendto'[r]]
                          /\ \A t \in Procs : next_sending'[t] = next_sending'[r] => t = r
      BY <2>3 DEF LinkInv
    <3>2. r # s /\ p_sendto'[r] = p_sendto[r]
      BY <1>3, <2>2, <3>1
    <3>3. CASE r = b
      <4>1. next_sending'[r] = n /\ n # NULL
        BY <2>2, <3>1, <3>2, <3>3
      <4>2. p_sendto[r] = p /\ SENDING \in p_flags[r]
        BY <2>1, <3>3 DEF Senders, SendsTo
      <4>3. n \in Senders(p)'
        BY <1>4, <1>6, <4>1
      <4>4. \A t \in Procs : next_sending'[t] = n => t = b
        BY <1>6, <2>2, <4>1
      <4>5. n \in Senders(p_sendto[r])'
        BY <1>2, <1>3, <1>6, <3>2, <4>1, <4>2 DEF Senders, SendsTo
      <4> QED
        BY <1>2, <1>6, <3>2, <3>3, <4>1, <4>2, <4>4, <4>5
    <3>4. CASE r # b
      <4>1. next_sending'[r] = next_sending[r] /\ next_sending[r] # NULL
        BY <2>2, <3>1, <3>2, <3>4
      <4>2. next_sending[r] # s
        BY <1>8, <2>1, <3>4, <4>1
      <4>3. next_sending[r] \in Senders(p_sendto[r])'
        BY <1>2, <1>3, <1>8, <3>2, <4>1, <4>2 DEF Senders, SendsTo
      <4>4. \A t \in Procs : next_sending'[t] = next_sending[r] => t = r
        BY <1>6, <1>8, <2>2, <3>2, <4>1
      <4> QED
        BY <1>2, <1>8, <3>2, <4>1, <4>3, <4>4
    <3> QED
      BY <3>3, <3>4
  <2>6. LinkedInv'
    <3>1. SUFFICES ASSUME NEW e \in Procs, NEW r \in Senders(e)', r # q_sending[e]
                   PROVE  \E t \in Senders(e)' : next_sending'[t] = r
      BY <2>3 DEF LinkedInv
    <3>2. r \in Senders(e) /\ r # s /\ r \in Procs
      BY <1>4, <1>5, <3>1 DEF Senders
    <3>3. PICK t \in Senders(e) : next_sending[t] = r
      BY <3>1, <3>2 DEF QueueInv, LinkedInv
    <3>4. CASE t = s
      <4>1. e = p /\ n = r
        BY <1>5, <3>3, <3>4
      <4>2. b \in Senders(e)' /\ next_sending'[b] = r
        BY <1>4, <2>1, <2>2, <4>1
      <4> QED
        BY <4>2
    <3>5. CASE t # s
      <4>1. t # b
        BY <2>1, <3>2, <3>3
      <4> QED
        BY <1>4, <1>5, <2>2, <3>3, <3>5, <4>1 DEF Senders
    <3> QED
      BY <3>4, <3>5
  <2>7. EndsInv'
    <3>1. SUFFICES ASSUME NEW e \in Procs, NEW S \in SUBSET Senders(e)', S # {}
                   PROVE  /\ \E r \in S : next_sending'[r] \notin S
                          /\ \E r \in S : \A t \in S : next_sending'[t] # r
      BY DEF EndsInv
    <3>2. S \subseteq Senders(e) /\ s \notin S /\ S \subseteq Procs
      BY <1>4, <1>5, <3>1 DEF Senders
    <3>3. CASE b \in S /\ n \in S
      <4>1. PICK T : T = S \cup {s}
        OBVIOUS
      <4>2. e = p
        BY <1>5, <2>1, <3>2, <3>3 DEF Senders, SendsTo
      <4>3. T \subseteq Senders(p) /\ T # {}
        BY <1>1, <3>2, <4>1, <4>2
      <4>4. /\ \E r \in T : next_sending[r] \notin T
            /\ \E r \in T : \A t \in T : next_sending[t] # r
        BY <4>3, QueueEnds
      <4>5. PICK r \in T : next_sending[r] \notin T
        BY <4>4
      <4>6. r # s /\ r # b
        BY <2>1, <3>3, <4>1, <4>5
      <4>7. \E r1 \in S : next_sending'[r1] \notin S
        BY <2>2, <3>2, <4>1, <4>5, <4>6
      <4>8. PICK t \in T : \A r1 \in T : next_sending[r1] # t
        BY <4>4
      <4>9. t # s /\ t # n
        BY <2>1, <3>3, <4>1, <4>8
      <4>10. \A r1 \in S : next_sending'[r1] # t
        BY <2>2, <3>2, <4>1, <4>8, <4>9
      <4> QED
        BY <4>1, <4>7, <4>8, <4>9, <4>10
    <3>4. CASE ~(b \in S /\ n \in S)
      <4>1. /\ \E r \in S : next_sending[r] \notin S
            /\ \E r \in S : \A t \in S : next_sending[t] # r
        BY <3>1, <3>2, QueueEnds
      <4>2. \E r \in S : next_sending'[r] \notin S
        BY <2>2, <3>2, <3>4, <4>1
      <4>3. \E r \in S : \A t \in S : next_sending'[t] # r
        BY <2>2, <3>2, <3>4, <4>1
      <4> QED
        BY <4>2, <4>3
    <3> QED
      BY <3>3, <3>4
  <2> QED
    BY <2>4, <2>5, <2>6, <2>7 DEF QueueInv
<1> QED
  BY <1>9, <1>10


\* A step that changes neither who sends to whom nor the links.
LEMMA SameSendersKeepQueues ==
  ASSUME TypeOK, FieldsInv, QueueInv, UNCHANGED queueVars, UNCHANGED p_sendto,
         \A r \in Procs : SENDING \in p_flags'[r] <=> SENDING \in p_flags[r]
  PROVE  QueueInv'
<1>1. q_sending' = q_sending /\ next_sending' = next_sending
  BY DEF queueVars
<1>2. \A e : Senders(e)' = Senders(e)
  BY DEF Senders, SendsTo
<1>3. HeadInv'
  BY <1>1, <1>2 DEF QueueInv, HeadInv
<1>4. LinkInv'
  <2>1. SUFFICES ASSUME NEW s \in Procs, next_sending[s] # NULL
                 PROVE  /\ SENDING \in p_flags'[s]
                        /\ next_sending[s] \in Senders(p_sendto[s])'
                        /\ next_sending[s] # q_sending[p_sendto[s]]
                        /\ \A t \in Procs : next_sending[t] = next_sending[s] => t = s
    BY <1>1 DEF LinkInv
  <2>2. /\ SENDING \in p_flags[s]
        /\ next_sending[s] \in Senders(p_sendto[s])
        /\ next_sending[s] # q_sending[p_sendto[s]]
        /\ \A t \in Procs : next_sending[t] = next_sending[s] => t = s
    BY <2>1 DEF QueueInv, LinkInv
  <2> QED
    BY <2>2 DEF Senders, SendsTo
<1>5. LinkedInv'
  BY <1>1, <1>2 DEF QueueInv, LinkedInv
<1>6. EndsInv'
  BY <1>1, <1>2 DEF QueueInv, EndsInv
<1> QED
  BY <1>3, <1>4, <1>5, <1>6 DEF QueueInv

-----------------------------------------------------------------------------
(* Cycles of senders and deadlock().                                       *)

\* A step that changes nothing of who sends to whom makes and breaks no cycle.
LEMMA SameSendersSameCycles ==
  ASSUME \A s, d \in Procs : SendsTo(s, d)' <=> SendsTo(s, d)
  PROVE  SendCycle' <=> SendCycle
BY DEF SendCycle

\* Where deadlock()'s loop has no exit there is a cycle already.
LEMMA SpinningMeansCycle ==
  ASSUME TypeOK, FieldsInv, NEW p \in Procs, NEW d \in Procs, WalkSpins(p, d)
  PROVE  SendCycle
<1> DEFINE W == Orbit(SendEdge, d)
<1>1. d \in W /\ W \subseteq Procs
  BY OrbitStart DEF Orbit
<1>2. ASSUME NEW r \in W PROVE \E e \in W : SendsTo(r, e)
  <2>1. SENDING \in p_flags[r] /\ p_sendto[r] \in Procs
    BY <1>1 DEF WalkSpins, FieldsInv, FieldsOf, TypeOK
  <2>2. SendEdge[r] = p_sendto[r]
    BY <1>1, <2>1 DEF SendEdge
  <2>3. p_sendto[r] \in W
    BY <2>1, <2>2, OrbitClosed
  <2> QED
    BY <2>1, <2>3 DEF SendsTo
<1> QED
  BY <1>1, <1>2 DEF SendCycle

\* msg_send closes a cycle exactly when deadlock() says so.
LEMMA CycleWhenReported ==
  ASSUME TypeOK, FieldsInv, NEW p \in Procs, NEW d \in Procs,
         NEW m \in Bufs, NEW x \in Types,
         p_flags[p] = {}, p # d, SendBlocks(p, d, m, x)
  PROVE  SendCycle' <=> SendCycle \/ deadlock(p, d)
<1> DEFINE W == Orbit(SendEdge, d)
<1>1. d \in W /\ W \subseteq Procs
  BY OrbitStart DEF Orbit
<1>2. \A s, e \in Procs : SendsTo(s, e)' <=> (SendsTo(s, e) \/ (s = p /\ e = d))
  BY DEF SendBlocks, SendsTo, TypeOK
<1>3. \A e \in Procs : ~SendsTo(p, e)
  BY DEF SendsTo
<1>4. \A r \in Procs : SendEdge[r] \in Procs => SendsTo(r, SendEdge[r])
  BY IpcAssumption DEF SendEdge, SendsTo
<1>5. \A r \in Procs, e \in Procs : SendsTo(r, e) => SendEdge[r] = e
  BY DEF SendEdge, SendsTo
<1>6. SendCycle => SendCycle'
  BY <1>2 DEF SendCycle
<1>7. ASSUME deadlock(p, d) PROVE SendCycle'
  <2>1. PICK z \in W : SendsTo(z, p)
    BY <1>7 DEF deadlock
  <2>2. p \in W
    BY <1>1, <1>5, <2>1, OrbitClosed
  \* Every process the walk meets leads to p, which has no link.
  <2>3. PICK V : V = {a \in W : p \in Orbit(SendEdge, a)}
    OBVIOUS
  <2>4. ASSUME NEW a \in V, SendEdge[a] \in Procs PROVE SendEdge[a] \in V
    <3>1. PICK e : e = SendEdge[a]
      OBVIOUS
    <3>2. a \in Procs /\ a # p /\ e \in W /\ e \in Procs
      BY <1>1, <1>3, <1>4, <2>3, <2>4, <3>1, OrbitClosed
    <3>3. PICK S : S = {a} \cup Orbit(SendEdge, e)
      OBVIOUS
    <3>4. S \subseteq Procs
      BY <3>2, <3>3 DEF Orbit
    <3>5. \A r \in S : SendEdge[r] \in Procs => SendEdge[r] \in S
      BY <3>1, <3>2, <3>3, OrbitStart, OrbitClosed
    <3>6. Orbit(SendEdge, a) \subseteq S
      BY <3>2, <3>3, <3>4, <3>5, OrbitLeast
    <3> QED
      BY <2>3, <3>1, <3>2, <3>3, <3>6
  <2>5. W \subseteq V
    BY <1>1, <2>2, <2>3, <2>4, OrbitLeast
  <2>6. ASSUME NEW r \in W, r # p PROVE SENDING \in p_flags[r]
    <3>1. SUFFICES ASSUME SENDING \notin p_flags[r] PROVE FALSE
      OBVIOUS
    <3>2. SendEdge[r] \notin Procs
      BY <1>1, <3>1, IpcAssumption DEF SendEdge
    <3>3. PICK S : S = {r}
      OBVIOUS
    <3>4. Orbit(SendEdge, r) \subseteq S
      BY <1>1, <3>2, <3>3, OrbitLeast
    <3> QED
      BY <2>3, <2>5, <2>6, <3>3, <3>4
  <2>7. ASSUME NEW r \in W PROVE \E e \in W : SendsTo(r, e)'
    <3>1. CASE r = p
      BY <1>1, <1>2, <3>1
    <3>2. CASE r # p
      <4>1. SENDING \in p_flags[r] /\ p_sendto[r] \in Procs
        BY <1>1, <2>6, <3>2 DEF TypeOK, FieldsInv, FieldsOf
      <4>2. SendsTo(r, p_sendto[r]) /\ SendEdge[r] = p_sendto[r]
        BY <1>1, <4>1 DEF SendsTo, SendEdge
      <4>3. p_sendto[r] \in W
        BY <1>1, <4>1, <4>2, OrbitClosed
      <4> QED
        BY <1>1, <1>2, <4>1, <4>2, <4>3
    <3> QED
      BY <3>1, <3>2
  <2> QED
    BY <1>1, <2>7 DEF SendCycle
<1>8. ASSUME SendCycle', ~SendCycle PROVE deadlock(p, d)
  <2>1. PICK S \in SUBSET Procs : S # {} /\ \A s \in S : \E e \in S : SendsTo(s, e)'
    BY <1>8 DEF SendCycle
  <2>2. p \in S
    BY <1>2, <1>8, <2>1 DEF SendCycle
  <2>3. d \in S
    BY <1>2, <1>3, <2>1, <2>2
  <2>4. ASSUME NEW r \in S, SendEdge[r] \in Procs PROVE SendEdge[r] \in S
    BY <1>2, <1>3, <1>4, <1>5, <2>1, <2>4
  <2>5. W \subseteq S
    BY <2>1, <2>3, <2>4, OrbitLeast
  <2>a. SENDING \in p_flags[d]
    BY <1>2, <2>1, <2>3 DEF SendsTo
  <2>6. SUFFICES ASSUME ~deadlock(p, d) PROVE FALSE
    OBVIOUS
  \* Nobody on the walk sends to p, so the walk stays clear of p ...
  <2>7. p \notin W
    <3>1. PICK U : U = W \ {p}
      OBVIOUS
    <3>2. \A r \in U : SendEdge[r] \in Procs => SendEdge[r] \in U
      <4>1. ASSUME NEW r \in U, SendEdge[r] \in Procs PROVE SendEdge[r] \in U
        <5>1. SendEdge[r] \in W
          BY <1>1, <3>1, <4>1, OrbitClosed
        <5>2. SendsTo(r, SendEdge[r])
          BY <1>1, <1>4, <3>1, <4>1
        <5>3. SendEdge[r] # p
          BY <2>a, <2>6, <3>1, <5>2 DEF deadlock
        <5> QED
          BY <3>1, <5>1, <5>3
      <4> QED
        BY <4>1
    <3>3. W \subseteq U
      BY <1>1, <3>1, <3>2, OrbitLeast
    <3> QED
      BY <3>1, <3>3
  \* ... and the processes it meets were a cycle before.
  <2>8. ASSUME NEW r \in W PROVE \E e \in W : SendsTo(r, e)
    <3>1. PICK e \in S : SendsTo(r, e)'
      BY <2>1, <2>5
    <3>2. SendsTo(r, e) /\ e \in Procs /\ r \in Procs
      BY <1>1, <1>2, <2>1, <2>7, <3>1
    <3>3. e \in W
      BY <1>1, <1>5, <3>2, OrbitClosed
    <3> QED
      BY <3>2, <3>3
  <2> QED
    BY <1>1, <1>8, <2>8 DEF SendCycle
<1> QED
  BY <1>6, <1>7, <1>8


-----------------------------------------------------------------------------
(* The inductive invariant and its preservation, call by call.             *)

IpcInv ==
    /\ TypeOK
    /\ FieldsInv
    /\ QueueInv
    /\ NoMissedRendezvous
    /\ NoMissedInterrupt
    /\ DeadlockReported
    /\ SpinCause
    /\ WedgeCause

\* A call that stops the kernel before it changes a process.
LEMMA SameFields ==
  ASSUME IpcInv, UNCHANGED <<procVars, queueVars>>
  PROVE  FieldsInv' /\ QueueInv' /\ NoMissedRendezvous' /\ (SendCycle' <=> SendCycle)
<1>1. FieldsInv'
  BY DEF IpcInv, FieldsInv, FieldsOf, procVars
<1>2. QueueInv'
  BY SameSendersKeepQueues DEF IpcInv, procVars
<1>3. NoMissedRendezvous'
  BY DEF IpcInv, NoMissedRendezvous, SendsTo, WaitsFor, procVars
<1>4. SendCycle' <=> SendCycle
  BY SameSendersSameCycles DEF SendsTo, procVars
<1> QED
  BY <1>1, <1>2, <1>3, <1>4

LEMMA SendKeepsInv ==
  ASSUME IpcInv, TypeOK', NEW p \in Procs, NEW d \in Procs, NEW m \in Bufs, NEW x \in Types,
         Send(p, d, m, x)
  PROVE  IpcInv'
<1> USE DEF IpcInv
<1>1. p_flags[p] = {} /\ kernel = "up" /\ p # d
  BY DEF Send, Running
<1>2. CASE SendSpins(p, d, m, x)
  <2>1. /\ FieldsInv' /\ QueueInv' /\ NoMissedRendezvous' /\ (SendCycle' <=> SendCycle)
    BY <1>2, SameFields DEF SendSpins
  <2>2. SendCycle
    BY <1>2, SpinningMeansCycle DEF SendSpins
  <2>3. reported /\ reported' /\ kernel' = "spinning"
    BY <1>1, <1>2, <2>2 DEF SendSpins, DeadlockReported
  <2> QED
    BY <2>1, <2>2, <2>3 DEF NoMissedInterrupt, DeadlockReported, SpinCause, WedgeCause
<1>3. CASE SendHalts(p, d, m, x)
  <2>1. /\ FieldsInv' /\ QueueInv' /\ NoMissedRendezvous'
    BY <1>3, SameFields DEF SendHalts
  <2>2. kernel' = "halted"
    BY <1>3 DEF SendHalts
  <2> QED
    BY <2>1, <2>2 DEF NoMissedInterrupt, DeadlockReported, SpinCause, WedgeCause
<1>4. CASE SendDelivers(p, d, m, x)
  <2>1. /\ p_msg[d] # NULL /\ p_flags[d] = {RECEIVING} /\ p_sendto[d] = NO_TASK
        /\ p_recvfrom[p] = NO_TASK /\ p_sendto[p] = NO_TASK
    <3>1. RECEIVING \in p_flags[d]
      BY <1>4 DEF SendDelivers, WaitsFor
    <3>2. FieldsOf(d) /\ FieldsOf(p)
      BY DEF FieldsInv
    <3> QED
      BY <1>1, <3>1, <3>2 DEF FieldsOf
  <2>2. kernel' = "up"
    BY <1>1, <1>4, <2>1 DEF SendDelivers, KernelAssert
  <2>3. \A r \in Procs : /\ p_flags'[r] = IF r = d THEN {} ELSE p_flags[r]
                         /\ p_recvfrom'[r] = IF r = d THEN NO_TASK ELSE p_recvfrom[r]
                         /\ p_msg'[r] = IF r \in {p, d} THEN NULL ELSE p_msg[r]
    <3>1. \A r \in Procs : p_flags'[r] = IF r = d THEN {} ELSE p_flags[r]
      <4>1. p_flags' = [p_flags EXCEPT ![d] = @ \ {RECEIVING}] /\ Procs = DOMAIN p_flags
        BY <1>4 DEF SendDelivers, TypeOK
      <4> QED
        BY ONLY <2>1, <4>1
    <3>2. \A r \in Procs : p_recvfrom'[r] = IF r = d THEN NO_TASK ELSE p_recvfrom[r]
      <4>1. p_recvfrom' = [p_recvfrom EXCEPT ![d] = NO_TASK] /\ Procs = DOMAIN p_recvfrom
        BY <1>4 DEF SendDelivers, TypeOK
      <4> QED
        BY ONLY <4>1
    <3>3. \A r \in Procs : p_msg'[r] = IF r \in {p, d} THEN NULL ELSE p_msg[r]
      <4>1. p_msg' = [p_msg EXCEPT ![p] = NULL, ![d] = NULL] /\ Procs = DOMAIN p_msg
        BY <1>4 DEF SendDelivers, TypeOK
      <4> QED
        BY ONLY <4>1
    <3> QED
      BY <3>1, <3>2, <3>3
  <2>4. p_sendto' = p_sendto /\ has_int_msg' = has_int_msg /\ UNCHANGED queueVars
    BY <1>4 DEF SendDelivers
  <2>5. FieldsInv'
    <3>1. SUFFICES ASSUME NEW r \in Procs PROVE FieldsOf(r)'
      BY DEF FieldsInv
    <3>2. CASE r = d
      <4>1. p_flags'[r] = {} /\ p_sendto'[r] = NO_TASK /\ p_msg'[r] = NULL
            /\ p_recvfrom'[r] = NO_TASK /\ has_int_msg'[r] = has_int_msg[r]
        BY <2>1, <2>3, <2>4, <3>2
      <4> QED
        BY <3>2, <4>1, IpcAssumption DEF FieldsInv, FieldsOf
    <3>3. CASE r = p
      <4>1. p_flags'[r] = {} /\ p_sendto'[r] = NO_TASK /\ p_msg'[r] = NULL
            /\ p_recvfrom'[r] = NO_TASK /\ has_int_msg'[r] = has_int_msg[r]
        BY <1>1, <2>1, <2>3, <2>4, <3>3
      <4> QED
        BY <3>3, <4>1, IpcAssumption DEF FieldsInv, FieldsOf
    <3>4. CASE r # d /\ r # p
      BY <2>3, <2>4, <3>4 DEF FieldsInv, FieldsOf
    <3> QED
      BY <3>2, <3>3, <3>4
  <2>6. \A r \in Procs : SENDING \in p_flags'[r] <=> SENDING \in p_flags[r]
    BY <2>1, <2>3
  <2>7. QueueInv'
    BY <2>4, <2>6, SameSendersKeepQueues
  <2>8. NoMissedRendezvous'
    BY <2>3, <2>4, <2>6 DEF NoMissedRendezvous, SendsTo, WaitsFor
  <2>9. NoMissedInterrupt'
    BY <1>1, <2>3, <2>4 DEF NoMissedInterrupt, WaitsForInterrupt
  <2>10. SendCycle' <=> SendCycle
    BY <2>4, <2>6, SameSendersSameCycles DEF SendsTo
  <2>11. ~deadlock(p, d)
    <3>1. SendEdge[d] \notin Procs
      BY <2>1, IpcAssumption DEF SendEdge
    <3>2. PICK S : S = {d}
      OBVIOUS
    <3>3. Orbit(SendEdge, d) \subseteq S
      BY <3>1, <3>2, OrbitLeast
    <3> QED
      BY <2>1, <3>2, <3>3 DEF deadlock, SendsTo
  <2>12. reported' = reported
    BY <1>4, <2>11 DEF SendDelivers, TypeOK
  <2> QED
    BY <1>1, <2>2, <2>5, <2>7, <2>8, <2>9, <2>10, <2>12
       DEF DeadlockReported, SpinCause, WedgeCause
<1>5. CASE SendBlocks(p, d, m, x)
  <2>1. p_recvfrom[p] = NO_TASK /\ p_sendto[p] = NO_TASK
    BY <1>1 DEF FieldsInv, FieldsOf
  <2>2. kernel' = "up"
    BY <1>1, <1>5, <2>1 DEF SendBlocks, KernelAssert
  <2>3. \A r \in Procs : /\ p_flags'[r] = IF r = p THEN {SENDING} ELSE p_flags[r]
                         /\ p_sendto'[r] = IF r = p THEN d ELSE p_sendto[r]
                         /\ p_msg'[r] = IF r = p THEN m ELSE p_msg[r]
    BY <1>1, <1>5 DEF SendBlocks, TypeOK
  <2>4. p_recvfrom' = p_recvfrom /\ has_int_msg' = has_int_msg
    BY <1>5 DEF SendBlocks
  <2>5. FieldsInv'
    <3>1. SUFFICES ASSUME NEW r \in Procs PROVE FieldsOf(r)'
      BY DEF FieldsInv
    <3>2. CASE r = p
      <4>1. p_flags'[r] = {SENDING} /\ p_sendto'[r] = d /\ p_msg'[r] = m
            /\ p_recvfrom'[r] = NO_TASK /\ has_int_msg'[r] = has_int_msg[r]
        BY <2>1, <2>3, <2>4, <3>2
      <4> QED
        BY <1>1, <3>2, <4>1, IpcAssumption DEF FieldsInv, FieldsOf
    <3>3. CASE r # p
      BY <2>3, <2>4, <3>3 DEF FieldsInv, FieldsOf
    <3> QED
      BY <3>2, <3>3
  <2>6. QueueInv'
    BY <1>1, <1>5, AppendKeepsQueues
  <2>7. NoMissedRendezvous'
    <3>1. ~WaitsFor(d, p)
      BY <1>5 DEF SendBlocks
    <3> QED
      BY <1>1, <2>3, <2>4, <3>1 DEF NoMissedRendezvous, SendsTo, WaitsFor
  <2>8. NoMissedInterrupt'
    BY <1>1, <2>3, <2>4 DEF NoMissedInterrupt, WaitsForInterrupt
  <2>9. SendCycle' <=> SendCycle \/ deadlock(p, d)
    BY <1>1, <1>5, CycleWhenReported
  <2>10. reported' = (reported \/ deadlock(p, d))
    BY <1>5 DEF SendBlocks
  <2> QED
    BY <1>1, <2>2, <2>5, <2>6, <2>7, <2>8, <2>9, <2>10
       DEF DeadlockReported, SpinCause, WedgeCause
<1> QED
  BY <1>2, <1>3, <1>4, <1>5 DEF Send


LEMMA ReceiveKeepsInv ==
  ASSUME IpcInv, TypeOK', NEW p \in Procs, NEW src \in Procs \cup {ANY, INTERRUPT},
         NEW m \in Bufs, Receive(p, src, m)
  PROVE  IpcInv'
<1> USE DEF IpcInv
<1>1. p_flags[p] = {} /\ kernel = "up" /\ p # src
  BY DEF Receive, Running
<1>2. p_recvfrom[p] = NO_TASK /\ p_sendto[p] = NO_TASK
  BY <1>1 DEF FieldsInv, FieldsOf
<1>3. CASE ReceivePending(p, src, m)
  <2>1. kernel' = "up"
    BY <1>1, <1>2, <1>3 DEF ReceivePending, KernelAssert
  <2>2. \A r \in Procs : /\ p_msg'[r] = IF r = p THEN NULL ELSE p_msg[r]
                         /\ has_int_msg'[r] = IF r = p THEN FALSE ELSE has_int_msg[r]
    BY <1>3 DEF ReceivePending, TypeOK
  <2>3. UNCHANGED <<p_flags, p_recvfrom, p_sendto, queueVars, reported>>
    BY <1>3 DEF ReceivePending
  <2>4. FieldsInv'
    BY <1>1, <2>2, <2>3 DEF FieldsInv, FieldsOf
  <2>5. QueueInv'
    BY <2>3, SameSendersKeepQueues
  <2>6. NoMissedRendezvous'
    BY <2>3 DEF NoMissedRendezvous, SendsTo, WaitsFor
  <2>7. NoMissedInterrupt'
    BY <1>1, <2>2, <2>3 DEF NoMissedInterrupt, WaitsForInterrupt
  <2>8. SendCycle' <=> SendCycle
    BY <2>3, SameSendersSameCycles DEF SendsTo
  <2> QED
    BY <1>1, <2>1, <2>3, <2>4, <2>5, <2>6, <2>7, <2>8
       DEF DeadlockReported, SpinCause, WedgeCause
<1>4. ASSUME NEW s \in Procs, ReceiveTakes(p, src, s, m) PROVE IpcInv'
  <2>1. /\ p_flags[s] = {SENDING} /\ p_recvfrom[s] = NO_TASK /\ p_sendto[s] = p /\ s # p
    BY <1>1, <1>4 DEF ReceiveTakes, TakeAssertions
  <2>2. kernel' = "up" /\ UNCHANGED <<p_recvfrom, has_int_msg, reported>>
    BY <1>1, <1>4 DEF ReceiveTakes
  <2>3. \A r \in Procs : /\ p_flags'[r] = IF r = s THEN {} ELSE p_flags[r]
                         /\ p_sendto'[r] = IF r = s THEN NO_TASK ELSE p_sendto[r]
                         /\ p_msg'[r] = IF r = s THEN NULL ELSE p_msg[r]
    <3>1. /\ p_flags' = [p_flags EXCEPT ![s] = @ \ {SENDING}] /\ Procs = DOMAIN p_flags
          /\ p_sendto' = [p_sendto EXCEPT ![s] = NO_TASK] /\ Procs = DOMAIN p_sendto
          /\ p_msg' = [p_msg EXCEPT ![s] = NULL] /\ Procs = DOMAIN p_msg
      BY <1>4 DEF ReceiveTakes, TypeOK
    <3> QED
      BY ONLY <2>1, <3>1
  <2>4. FieldsInv'
    <3>1. SUFFICES ASSUME NEW r \in Procs PROVE FieldsOf(r)'
      BY DEF FieldsInv
    <3>2. CASE r = s
      <4>1. p_flags'[r] = {} /\ p_sendto'[r] = NO_TASK /\ p_msg'[r] = NULL
            /\ p_recvfrom'[r] = NO_TASK /\ has_int_msg'[r] = has_int_msg[r]
        BY <2>1, <2>2, <2>3, <3>2
      <4> QED
        BY <3>2, <4>1, IpcAssumption DEF FieldsInv, FieldsOf
    <3>3. CASE r # s
      BY <2>2, <2>3, <3>3 DEF FieldsInv, FieldsOf
    <3> QED
      BY <3>2, <3>3
  <2>5. QueueInv'
    BY <1>4, UnlinkKeepsQueues
  <2>6. NoMissedRendezvous'
    BY <2>2, <2>3 DEF NoMissedRendezvous, SendsTo, WaitsFor
  <2>7. NoMissedInterrupt'
    BY <1>1, <2>1, <2>2, <2>3 DEF NoMissedInterrupt, WaitsForInterrupt
  <2>8. \A a, e \in Procs : SendsTo(a, e)' <=> SendsTo(a, e) /\ a # s
    BY <2>3 DEF SendsTo
  \* p runs, so s was on no cycle.
  <2>9. SendCycle' <=> SendCycle
    <3>1. SendCycle' => SendCycle
      BY <2>8 DEF SendCycle
    <3>2. ASSUME SendCycle PROVE SendCycle'
      <4>1. PICK S \in SUBSET Procs : S # {} /\ \A a \in S : \E e \in S : SendsTo(a, e)
        BY <3>2 DEF SendCycle
      <4>2. p \notin S
        BY <1>1, <4>1 DEF SendsTo
      <4>3. s \notin S
        BY <2>1, <4>1, <4>2 DEF SendsTo
      <4> QED
        BY <2>8, <4>1, <4>3 DEF SendCycle
    <3> QED
      BY <3>1, <3>2
  <2> QED
    BY <1>1, <2>2, <2>4, <2>5, <2>6, <2>7, <2>9
       DEF DeadlockReported, SpinCause, WedgeCause
<1>5. ASSUME NEW s \in Procs, ReceiveFails(p, src, s, m) PROVE IpcInv'
  <2>1. FieldsInv' /\ QueueInv' /\ NoMissedRendezvous' /\ (SendCycle' <=> SendCycle)
    BY <1>5, SameFields DEF ReceiveFails
  <2>2. kernel' = "wedged" /\ reported' = reported /\ p_flags' = p_flags /\ p_msg' = p_msg
    BY <1>5 DEF ReceiveFails, procVars
  <2>3. SendsTo(s, p)
    <3>1. CASE src = ANY
      <4>1. q_sending[p] = s
        BY <1>5, <3>1 DEF ReceiveFails, Offers
      <4> QED
        BY <4>1, IpcAssumption DEF QueueInv, HeadInv, Senders
    <3>2. CASE src # ANY
      BY <1>5, <3>2 DEF ReceiveFails, Offers
    <3> QED
      BY <3>1, <3>2
  <2>4. p_flags[s] = {SENDING} /\ p_msg[s] # NULL /\ p_recvfrom[s] = NO_TASK /\ p_sendto[s] = p
    BY <2>3, SenderFacts DEF SendsTo
  <2>5. q_sending[p] # NULL
    BY <2>3 DEF QueueInv, HeadInv, Senders
  <2>6. p_msg[p] # NULL
    BY <1>2, <1>5, <2>4, <2>5 DEF ReceiveFails, TakeAssertions
  <2>7. p \in IntTasks
    BY <1>1, <2>6 DEF FieldsInv, FieldsOf
  <2> QED
    BY <1>1, <2>1, <2>2, <2>6, <2>7
       DEF NoMissedInterrupt, DeadlockReported, SpinCause, WedgeCause
<1>6. CASE ReceiveBlocks(p, src, m)
  <2>1. \A r \in Procs : /\ p_flags'[r] = IF r = p THEN {RECEIVING} ELSE p_flags[r]
                         /\ p_recvfrom'[r] = IF r = p THEN src ELSE p_recvfrom[r]
                         /\ p_msg'[r] = IF r = p THEN m ELSE p_msg[r]
    BY <1>1, <1>6 DEF ReceiveBlocks, TypeOK
  <2>2. UNCHANGED <<p_sendto, has_int_msg, queueVars, reported>>
    BY <1>6 DEF ReceiveBlocks
  <2>3. kernel' = IF has_int_msg[p] THEN "wedged" ELSE "up"
    BY <1>1, <1>2, <1>6 DEF ReceiveBlocks, KernelAssert
  <2>4. FieldsInv'
    <3>1. SUFFICES ASSUME NEW r \in Procs PROVE FieldsOf(r)'
      BY DEF FieldsInv
    <3>2. CASE r = p
      <4>1. p_flags'[r] = {RECEIVING} /\ p_sendto'[r] = NO_TASK /\ p_msg'[r] = m
            /\ p_recvfrom'[r] = src /\ has_int_msg'[r] = has_int_msg[r]
        BY <1>2, <2>1, <2>2, <3>2
      <4> QED
        BY <1>1, <3>2, <4>1, IpcAssumption DEF FieldsInv, FieldsOf
    <3>3. CASE r # p
      BY <2>1, <2>2, <3>3 DEF FieldsInv, FieldsOf
    <3> QED
      BY <3>2, <3>3
  <2>5. \A r \in Procs : SENDING \in p_flags'[r] <=> SENDING \in p_flags[r]
    BY <1>1, <2>1
  <2>6. QueueInv'
    BY <2>2, <2>5, SameSendersKeepQueues
  <2>7. NoMissedRendezvous'
    <3>1. SUFFICES ASSUME NEW s \in Procs, NEW e \in Procs, SendsTo(s, e)
                   PROVE  ~WaitsFor(e, s)'
      BY <2>2, <2>5 DEF NoMissedRendezvous, SendsTo
    <3>2. CASE e = p
      <4>1. src # ANY
        <5>1. SUFFICES ASSUME src = ANY PROVE FALSE
          OBVIOUS
        <5>2. q_sending[p] = NULL
          BY <1>6, <5>1 DEF ReceiveBlocks, Offers, TypeOK
        <5> QED
          BY <3>1, <3>2, <5>2 DEF QueueInv, HeadInv, Senders
      <4>2. src # s
        BY <1>6, <3>1, <3>2, <4>1 DEF ReceiveBlocks, Offers
      <4> QED
        BY <2>1, <3>2, <4>1, <4>2 DEF WaitsFor
    <3>3. CASE e # p
      BY <2>1, <3>1, <3>3 DEF NoMissedRendezvous, WaitsFor
    <3> QED
      BY <3>2, <3>3
  <2>8. NoMissedInterrupt'
    BY <1>1, <1>6, <2>1, <2>2, <2>3 DEF NoMissedInterrupt, WaitsForInterrupt, ReceiveBlocks,
       PendingInterrupt
  <2>9. SendCycle' <=> SendCycle
    BY <2>2, <2>5, SameSendersSameCycles DEF SendsTo
  <2>10. WedgeCause'
    BY <2>1, <2>2, <2>3 DEF WedgeCause, FieldsInv, FieldsOf
  <2> QED
    BY <1>1, <2>2, <2>3, <2>4, <2>6, <2>7, <2>8, <2>9, <2>10
       DEF DeadlockReported, SpinCause
<1> QED
  BY <1>3, <1>4, <1>5, <1>6 DEF Receive

LEMMA SendintKeepsInv ==
  ASSUME IpcInv, TypeOK', NEW d \in IntTasks, sys_sendint(d)
  PROVE  IpcInv'
<1> USE DEF IpcInv
<1>1. kernel = "up" /\ d \in Procs
  BY IpcAssumption DEF sys_sendint
<1>2. CASE SendintDelivers(d)
  <2>1. p_flags[d] = {RECEIVING} /\ p_sendto[d] = NO_TASK
    BY <1>1, <1>2 DEF SendintDelivers, WaitsForInterrupt, FieldsInv, FieldsOf
  <2>2. kernel' = "up"
    BY <1>1, <1>2, <2>1 DEF SendintDelivers, KernelAssert
  <2>3. \A r \in Procs : /\ p_flags'[r] = IF r = d THEN {} ELSE p_flags[r]
                         /\ p_recvfrom'[r] = IF r = d THEN NO_TASK ELSE p_recvfrom[r]
                         /\ has_int_msg'[r] = IF r = d THEN FALSE ELSE has_int_msg[r]
    <3>1. /\ p_flags' = [p_flags EXCEPT ![d] = @ \ {RECEIVING}] /\ Procs = DOMAIN p_flags
          /\ p_recvfrom' = [p_recvfrom EXCEPT ![d] = NO_TASK] /\ Procs = DOMAIN p_recvfrom
          /\ has_int_msg' = [has_int_msg EXCEPT ![d] = FALSE] /\ Procs = DOMAIN has_int_msg
      BY <1>2 DEF SendintDelivers, TypeOK
    <3> QED
      BY ONLY <2>1, <3>1
  <2>4. UNCHANGED <<p_msg, p_sendto, queueVars, reported>>
    BY <1>2 DEF SendintDelivers
  <2>5. FieldsInv'
    <3>1. SUFFICES ASSUME NEW r \in Procs PROVE FieldsOf(r)'
      BY DEF FieldsInv
    <3>2. CASE r = d
      <4>1. p_flags'[r] = {} /\ p_sendto'[r] = NO_TASK /\ p_msg'[r] = p_msg[r]
            /\ p_recvfrom'[r] = NO_TASK /\ has_int_msg'[r] = FALSE
        BY <2>1, <2>3, <2>4, <3>2
      <4> QED
        BY <3>2, <4>1, IpcAssumption DEF FieldsInv, FieldsOf
    <3>3. CASE r # d
      BY <2>3, <2>4, <3>3 DEF FieldsInv, FieldsOf
    <3> QED
      BY <3>2, <3>3
  <2>6. \A r \in Procs : SENDING \in p_flags'[r] <=> SENDING \in p_flags[r]
    <3>1. SENDING \notin p_flags[d]
      BY <2>1
    <3> QED
      BY <2>3, <3>1
  <2>7. QueueInv'
    BY <2>4, <2>6, SameSendersKeepQueues
  <2>8. NoMissedRendezvous'
    BY <2>3, <2>4, <2>6 DEF NoMissedRendezvous, SendsTo, WaitsFor
  <2>9. NoMissedInterrupt'
    BY <1>1, <2>3 DEF NoMissedInterrupt, WaitsForInterrupt
  <2>10. SendCycle' <=> SendCycle
    BY <2>4, <2>6, SameSendersSameCycles DEF SendsTo
  <2> QED
    BY <1>1, <2>2, <2>4, <2>5, <2>7, <2>8, <2>9, <2>10
       DEF DeadlockReported, SpinCause, WedgeCause
<1>3. CASE SendintMarks(d)
  <2>1. UNCHANGED <<p_flags, p_msg, p_recvfrom, p_sendto, queueVars, kernel, reported>>
    BY <1>3 DEF SendintMarks
  <2>2. \A r \in Procs : has_int_msg'[r] = IF r = d THEN TRUE ELSE has_int_msg[r]
    BY <1>3 DEF SendintMarks, TypeOK
  <2>3. FieldsInv'
    BY <2>1, <2>2 DEF FieldsInv, FieldsOf
  <2>4. QueueInv'
    BY <2>1, SameSendersKeepQueues
  <2>5. NoMissedRendezvous'
    BY <2>1 DEF NoMissedRendezvous, SendsTo, WaitsFor
  <2>6. NoMissedInterrupt'
    BY <1>1, <1>3, <2>1, <2>2 DEF NoMissedInterrupt, WaitsForInterrupt, SendintMarks
  <2>7. SendCycle' <=> SendCycle
    BY <2>1, SameSendersSameCycles DEF SendsTo
  <2> QED
    BY <1>1, <2>1, <2>3, <2>4, <2>5, <2>6, <2>7
       DEF DeadlockReported, SpinCause, WedgeCause
<1> QED
  BY <1>2, <1>3 DEF sys_sendint

LEMMA InitEstablishesInv == Init /\ TypeOK => IpcInv
<1> SUFFICES ASSUME Init, TypeOK PROVE IpcInv
  OBVIOUS
<1>1. \A d \in Procs : Senders(d) = {}
  BY DEF Init, Senders, SendsTo
<1>2. FieldsInv
  BY IpcAssumption DEF Init, FieldsInv, FieldsOf
<1>3. QueueInv
  BY <1>1 DEF Init, QueueInv, HeadInv, LinkInv, LinkedInv, EndsInv
<1>4. ~SendCycle
  BY DEF Init, SendCycle, SendsTo
<1> QED
  BY <1>2, <1>3, <1>4 DEF Init, IpcInv, NoMissedRendezvous, NoMissedInterrupt, SendsTo,
     DeadlockReported, SpinCause, WedgeCause

\* No call of any process breaks the invariant.
LEMMA IpcInvKept == IpcInv /\ [Next]_vars => IpcInv'
<1> SUFFICES ASSUME IpcInv, [Next]_vars PROVE IpcInv'
  OBVIOUS
<1>0. TypeOK'
  BY TypeKept DEF IpcInv
<1>1. CASE \E p, d \in Procs, m \in Bufs, x \in Types : Send(p, d, m, x)
  BY <1>1, <1>0, SendKeepsInv
<1>2. CASE \E p \in Procs, src \in Procs \cup {ANY, INTERRUPT}, m \in Bufs :
             Receive(p, src, m)
  BY <1>2, <1>0, ReceiveKeepsInv
<1>3. CASE \E d \in IntTasks : sys_sendint(d)
  BY <1>3, <1>0, SendintKeepsInv
<1>4. CASE UNCHANGED vars
  <2>1. FieldsInv' /\ QueueInv' /\ NoMissedRendezvous' /\ (SendCycle' <=> SendCycle)
    BY <1>4, SameFields DEF vars
  <2> QED
    BY <1>0, <1>4, <2>1 DEF IpcInv, vars, procVars, NoMissedInterrupt, WaitsForInterrupt,
       DeadlockReported, SpinCause, WedgeCause
<1> QED
  BY <1>1, <1>2, <1>3, <1>4 DEF Next

\* The inductive invariant: every reachable state of the message passing, with
\* whatever callers, has consistent fields, queues and deadlock reports.
THEOREM IpcCorrect == Spec => []IpcInv
BY InitTyped, InitEstablishesInv, IpcInvKept, PTL DEF Spec


-----------------------------------------------------------------------------
(* What follows for the reader.                                            *)

\* q_sending and next_sending always hold exactly the blocked senders.
THEOREM QueuesHoldTheSenders == Spec => [](FieldsInv /\ QueueInv)
BY IpcCorrect, PTL DEF IpcInv

\* No interleaving of calls leaves a matching sender and receiver, or a task
\* and its interrupt, waiting for each other.
THEOREM WakeupsNeverLost == Spec => []NoLostWakeup
BY IpcCorrect, PTL DEF IpcInv, NoLostWakeup

\* deadlock() reports a cycle of senders in the call that closes it, reports
\* no other call, and is trapped only by a cycle it has reported.
THEOREM DeadlockDetectionExact == Spec => []DeadlockExact
BY IpcCorrect, PTL DEF IpcInv, DeadlockExact

\* No assertion of the message passing fails but the two that an interrupt
\* can falsify.
THEOREM AssertionsHold == Spec => []WedgeCause
BY IpcCorrect, PTL DEF IpcInv

\* A blocked sender is released by the copy of its message and nothing else.
LEMMA SendersReleasedByDelivery == IpcInv /\ [Next]_vars => [DeliveryStep]_vars
<1> SUFFICES ASSUME IpcInv, Next, NEW s \in Procs, NEW d \in Procs,
                    SendsTo(s, d), ~SendsTo(s, d)'
             PROVE  \E b \in Bufs : mem' = [mem EXCEPT ![d][b] = mem[s][p_msg[s]]]
  BY DEF DeliveryStep
<1> USE DEF IpcInv
<1>1. ASSUME NEW p \in Procs, NEW e \in Procs, NEW m \in Bufs, NEW x \in Types,
             Send(p, e, m, x)
      PROVE  FALSE
  <2>1. CASE SendSpins(p, e, m, x) \/ SendHalts(p, e, m, x)
    BY <2>1 DEF SendSpins, SendHalts, procVars, SendsTo
  <2>2. CASE SendDelivers(p, e, m, x)
    BY <2>2 DEF SendDelivers, SendsTo, TypeOK
  <2>3. CASE SendBlocks(p, e, m, x)
    <3>1. s # p
      BY <1>1 DEF Send, Running, SendsTo
    <3> QED
      BY <2>3, <3>1 DEF SendBlocks, SendsTo, TypeOK
  <2> QED
    BY <1>1, <2>1, <2>2, <2>3 DEF Send
<1>2. ASSUME NEW p \in Procs, NEW src \in Procs \cup {ANY, INTERRUPT}, NEW m \in Bufs,
             Receive(p, src, m)
      PROVE  mem' = [mem EXCEPT ![d][m] = mem[s][p_msg[s]]]
  <2>1. CASE ReceivePending(p, src, m)
    BY <2>1 DEF ReceivePending, SendsTo
  <2>2. ASSUME NEW r \in Procs, ReceiveTakes(p, src, r, m)
        PROVE  mem' = [mem EXCEPT ![d][m] = mem[s][p_msg[s]]]
    <3>1. r = s
      BY <2>2 DEF ReceiveTakes, SendsTo, TypeOK
    <3>2. d = p
      BY <2>2, <3>1 DEF ReceiveTakes, TakeAssertions, SendsTo
    <3> QED
      BY <2>2, <3>1, <3>2 DEF ReceiveTakes, Stamped, TypeOK
  <2>3. ASSUME NEW r \in Procs, ReceiveFails(p, src, r, m) PROVE FALSE
    BY <2>3 DEF ReceiveFails, procVars, SendsTo
  <2>4. CASE ReceiveBlocks(p, src, m)
    BY <2>4 DEF ReceiveBlocks, SendsTo, TypeOK
  <2> QED
    BY <1>2, <2>1, <2>2, <2>3, <2>4 DEF Receive
<1>3. ASSUME NEW e \in IntTasks, sys_sendint(e) PROVE FALSE
  BY <1>3, IpcAssumption DEF sys_sendint, SendintDelivers, SendintMarks, SendsTo, TypeOK
<1> QED
  BY <1>1, <1>2, <1>3 DEF Next

\* A receiver that names a process gets a message of that process.
LEMMA ReceiversReleasedBySource == IpcInv /\ [Next]_vars => [SourceStep]_vars
<1> SUFFICES ASSUME IpcInv, Next, NEW d \in Procs, NEW s \in Procs,
                    p_flags[d] = {RECEIVING}, p_recvfrom[d] = s, p_flags'[d] = {}
             PROVE  mem'[d][p_msg[d]].source = s
  BY DEF SourceStep
<1> USE DEF IpcInv
<1>1. ASSUME NEW p \in Procs, NEW e \in Procs, NEW m \in Bufs, NEW x \in Types,
             Send(p, e, m, x)
      PROVE  mem'[d][p_msg[d]].source = s
  <2>1. CASE SendSpins(p, e, m, x) \/ SendHalts(p, e, m, x)
    BY <2>1 DEF SendSpins, SendHalts, procVars
  <2>2. CASE SendDelivers(p, e, m, x)
    <3>1. e = d
      BY <2>2 DEF SendDelivers, TypeOK
    <3>2. s = p
      BY <2>2, <3>1, IpcAssumption DEF SendDelivers, WaitsFor
    <3>3. p # d
      BY <1>1, <3>1 DEF Send
    <3>4. mem'[d][p_msg[d]] = Sent(p, x)
      BY <2>2, <3>1, <3>3 DEF SendDelivers, TypeOK
    <3> QED
      BY <3>2, <3>4 DEF Sent
  <2>3. CASE SendBlocks(p, e, m, x)
    BY <2>3 DEF SendBlocks, TypeOK
  <2> QED
    BY <1>1, <2>1, <2>2, <2>3 DEF Send
<1>2. ASSUME NEW p \in Procs, NEW src \in Procs \cup {ANY, INTERRUPT}, NEW m \in Bufs,
             Receive(p, src, m)
      PROVE  FALSE
  <2>1. CASE ReceivePending(p, src, m)
    BY <2>1 DEF ReceivePending
  <2>2. ASSUME NEW r \in Procs, ReceiveTakes(p, src, r, m) PROVE FALSE
    BY <2>2 DEF ReceiveTakes, TakeAssertions, TypeOK
  <2>3. ASSUME NEW r \in Procs, ReceiveFails(p, src, r, m) PROVE FALSE
    BY <2>3 DEF ReceiveFails, procVars
  <2>4. CASE ReceiveBlocks(p, src, m)
    BY <2>4 DEF ReceiveBlocks, TypeOK
  <2> QED
    BY <1>2, <2>1, <2>2, <2>3, <2>4 DEF Receive
<1>3. ASSUME NEW e \in IntTasks, sys_sendint(e) PROVE FALSE
  <2>1. CASE SendintDelivers(e)
    <3>1. e = d
      BY <2>1 DEF SendintDelivers, TypeOK
    <3> QED
      BY <2>1, <3>1, IpcAssumption DEF SendintDelivers, WaitsForInterrupt
  <2>2. CASE SendintMarks(e)
    BY <2>2 DEF SendintMarks
  <2> QED
    BY <1>3, <2>1, <2>2 DEF sys_sendint
<1> QED
  BY <1>1, <1>2, <1>3 DEF Next

\* A blocked process is released by the partner it waits for, with its message.
THEOREM ReleasedByPartnerOnly == Spec => ReleasedByPartner
<1>1. IpcInv /\ [Next]_vars => [DeliveryStep /\ SourceStep]_vars
  BY SendersReleasedByDelivery, ReceiversReleasedBySource
<1> QED
  BY <1>1, IpcCorrect, PTL DEF Spec, ReleasedByPartner

-----------------------------------------------------------------------------
(* Ipc implements Rendezvous.  A list is told from its sequence (the       *)
(* operators of IpcRefinement), the queues keep their sequences, and each  *)
(* way a call can go is one step of Rendezvous.                            *)

(* The sequence of a linked list.                                          *)

\* The links f, from the head h, run through S without a cycle.
Chained(S, f, h) ==
    /\ NULL \notin S
    /\ \A t \in S : f[t] # NULL => /\ f[t] # h
                                   /\ \A r \in S : f[r] = f[t] => r = t
    /\ \A T \in SUBSET S : T # {} => \E s \in T : \A t \in T : f[t] # s

LEMMA ChainedFirst ==
  ASSUME NEW S, NEW f, NEW h, Chained(S, f, h), NEW T, T \subseteq S, T # {}
  PROVE  \E s \in T : \A t \in T : f[t] # s
BY DEF Chained

\* What links to the element at i is at i - 1, if i is not the first.
LEMMA ListsBefore ==
  ASSUME NEW S, NEW f, NEW h, Chained(S, f, h),
         NEW q \in Seq(S), Lists(q, f, h), NEW i \in 1..Len(q)
  PROVE  /\ q[i] \in S
         /\ i = 1 => q[i] = h
         /\ i # 1 => i - 1 \in 1..Len(q) /\ q[i - 1] \in S /\ f[q[i - 1]] = q[i]
<1>1. Len(q) \in Nat /\ q # <<>>
  OBVIOUS
<1>2. i # 1 => i - 1 \in 1..Len(q) /\ i - 1 < Len(q) /\ (i - 1) + 1 = i
  BY <1>1
<1> QED
  BY <1>1, <1>2 DEF Lists

\* A list meets no element twice.
LEMMA ListsInjective ==
  ASSUME NEW S, NEW f, NEW h, Chained(S, f, h), NEW q \in Seq(S), Lists(q, f, h)
  PROVE  \A i, j \in 1..Len(q) : q[i] = q[j] => i = j
<1> DEFINE Twice(s) == \E i, j \in 1..Len(q) : q[i] = s /\ q[j] = s /\ i < j
<1>1. PICK T : T = {s \in S : Twice(s)}
  OBVIOUS
<1>2. T = {}
  <2>1. SUFFICES ASSUME T # {} PROVE FALSE
    OBVIOUS
  <2>0. T \subseteq S
    BY <1>1
  <2>2. PICK s \in T : \A t \in T : f[t] # s
    BY ONLY Chained(S, f, h), <2>0, <2>1, ChainedFirst
  <2>3. PICK i \in 1..Len(q), j \in 1..Len(q) : q[i] = s /\ q[j] = s /\ i < j
    BY <1>1, <2>2
  <2>4. j - 1 \in 1..Len(q) /\ q[j - 1] \in S /\ f[q[j - 1]] = s
    BY <2>3, ListsBefore
  <2>5. s \in S /\ s # NULL
    BY <1>1, <2>2 DEF Chained
  <2>6. i # 1
    <3>1. s # h
      BY <2>4, <2>5 DEF Chained
    <3> QED
      BY <2>3, <3>1, ListsBefore
  <2>7. i - 1 \in 1..Len(q) /\ q[i - 1] \in S /\ f[q[i - 1]] = s
    BY <2>3, <2>6, ListsBefore
  <2>8. q[i - 1] = q[j - 1]
    BY <2>4, <2>5, <2>7 DEF Chained
  <2>9. q[j - 1] \in T
    BY <1>1, <2>3, <2>4, <2>7, <2>8
  <2> QED
    BY <2>2, <2>4, <2>9
<1>3. SUFFICES ASSUME NEW i \in 1..Len(q), NEW j \in 1..Len(q), q[i] = q[j], i < j
               PROVE  FALSE
  OBVIOUS
<1>4. q[i] \in S
  OBVIOUS
<1> QED
  BY <1>1, <1>2, <1>3, <1>4

\* Two sequences of one list agree as far as the first goes.
LEMMA ListsAgree ==
  ASSUME NEW S, NEW f, NEW h, Chained(S, f, h),
         NEW q \in Seq(S), Lists(q, f, h), NEW r \in Seq(S), Lists(r, f, h)
  PROVE  \A i \in 1..Len(q) : i \in 1..Len(r) /\ r[i] = q[i]
<1> DEFINE Same(i) == i \in 1..Len(r) /\ r[i] = q[i]
<1>1. PICK T : T = {s \in S : \E i \in 1..Len(q) : q[i] = s /\ ~Same(i)}
  OBVIOUS
<1>2. T = {}
  <2>1. SUFFICES ASSUME T # {} PROVE FALSE
    OBVIOUS
  <2>0. T \subseteq S
    BY <1>1
  <2>2. PICK s \in T : \A t \in T : f[t] # s
    BY ONLY Chained(S, f, h), <2>0, <2>1, ChainedFirst
  <2>3. PICK i \in 1..Len(q) : q[i] = s /\ ~Same(i)
    BY <1>1, <2>2
  <2>4. s \in S /\ s # NULL
    BY <1>1, <2>2 DEF Chained
  <2>5. CASE i = 1
    <3>1. q # <<>>
      BY <2>3
    <3>2. r # <<>> /\ r[1] = h /\ q[1] = h
      BY <3>1 DEF Lists
    <3>3. 1 \in 1..Len(r)
      BY <3>2
    <3> QED
      BY <2>3, <2>5, <3>2, <3>3
  <2>6. CASE i # 1
    <3>1. i - 1 \in 1..Len(q) /\ q[i - 1] \in S /\ f[q[i - 1]] = s
      BY <2>3, <2>6, ListsBefore
    <3>2. q[i - 1] \notin T
      BY <2>2, <3>1
    <3>3. Same(i - 1)
      BY <1>1, <3>1, <3>2
    <3>4. f[r[i - 1]] = s /\ i - 1 \in 1..Len(r)
      BY <3>1, <3>3
    <3>5. i - 1 < Len(r) /\ r[(i - 1) + 1] = s
      BY <2>4, <3>4 DEF Lists
    <3>6. (i - 1) + 1 = i /\ i \in 1..Len(r)
      BY <3>5
    <3> QED
      BY <2>3, <3>5, <3>6
  <2> QED
    BY <2>5, <2>6
<1>3. SUFFICES ASSUME NEW i \in 1..Len(q), ~Same(i) PROVE FALSE
  OBVIOUS
<1>4. q[i] \in S
  OBVIOUS
<1> QED
  BY <1>1, <1>2, <1>3, <1>4

\* ListFrom finds the sequence of a list that has one.
LEMMA ListFromIs ==
  ASSUME NEW S, IsFiniteSet(S), NEW f, NEW h, Chained(S, f, h),
         NEW q \in Seq(S), Lists(q, f, h)
  PROVE  ListFrom(S, f, h) = q
<1>1. Len(q) <= Cardinality(S)
  <2>1. SUFFICES ASSUME Cardinality(S) < Len(q) PROVE FALSE
    BY FS_CardinalityType
  <2>2. IsFiniteSet(1..Len(q)) /\ Cardinality(1..Len(q)) = Len(q)
    <3>1. Len(q) \in Nat
      OBVIOUS
    <3> QED
      BY <3>1, FS_Interval
  <2>3. q \in [1..Len(q) -> S]
    OBVIOUS
  <2>4. \E i, j \in 1..Len(q) : i # j /\ q[i] = q[j]
    BY <2>1, <2>2, <2>3, FS_PigeonHole
  <2> QED
    BY <2>4, ListsInjective
<1>2. q \in SeqOf(S, Cardinality(S))
  BY <1>1, FS_CardinalityType DEF SeqOf
<1>3. ASSUME NEW r \in SeqOf(S, Cardinality(S)), Lists(r, f, h) PROVE r = q
  <2>1. r \in Seq(S)
    BY <1>3, FS_CardinalityType DEF SeqOf
  <2>2. \A i \in 1..Len(q) : i \in 1..Len(r) /\ r[i] = q[i]
    BY <1>3, <2>1, ListsAgree
  <2>3. \A i \in 1..Len(r) : i \in 1..Len(q) /\ q[i] = r[i]
    BY <1>3, <2>1, ListsAgree
  <2>4. Len(q) = Len(r)
    <3>1. Len(q) \in Nat /\ Len(r) \in Nat
      BY <2>1
    <3>2. Len(q) <= Len(r)
      BY <2>2, <3>1
    <3>3. Len(r) <= Len(q)
      BY <2>3, <3>1
    <3> QED
      BY <3>1, <3>2, <3>3
  <2> QED
    BY <2>1, <2>2, <2>4
<1> QED
  BY <1>2, <1>3 DEF ListFrom

\* A list meets every element that is its head or another's link.
LEMMA ListsCover ==
  ASSUME NEW S, NEW f, NEW h, Chained(S, f, h), NEW q \in Seq(S), Lists(q, f, h),
         \A s \in S : s = h \/ \E t \in S : f[t] = s
  PROVE  \A s \in S : \E i \in 1..Len(q) : q[i] = s
<1>1. PICK T : T = {s \in S : ~\E i \in 1..Len(q) : q[i] = s}
  OBVIOUS
<1>2. T = {}
  <2>1. SUFFICES ASSUME T # {} PROVE FALSE
    OBVIOUS
  <2>2. PICK s \in T : \A t \in T : f[t] # s
    BY <1>1, <2>1, ChainedFirst
  <2>3. s \in S /\ s # NULL
    BY <1>1, <2>2 DEF Chained
  <2>4. s # h
    <3>1. SUFFICES ASSUME s = h PROVE FALSE
      OBVIOUS
    <3>2. q # <<>> /\ q[1] = h
      BY <2>3, <3>1 DEF Lists
    <3>3. 1 \in 1..Len(q)
      BY <3>2
    <3> QED
      BY <1>1, <2>2, <3>1, <3>2, <3>3
  <2>5. PICK t \in S : f[t] = s
    BY <2>3, <2>4
  <2>6. PICK i \in 1..Len(q) : q[i] = t
    BY <1>1, <2>2, <2>5
  <2>7. i < Len(q) /\ q[i + 1] = s
    BY <2>3, <2>5, <2>6 DEF Lists
  <2>8. i + 1 \in 1..Len(q)
    BY <2>7
  <2> QED
    BY <1>1, <2>2, <2>7, <2>8
<1> QED
  BY <1>1, <1>2

LEMMA RemoveAtFacts ==
  ASSUME NEW S, NEW q \in Seq(S), NEW i \in 1..Len(q)
  PROVE  /\ RemoveAt(q, i) \in Seq(S)
         /\ Len(RemoveAt(q, i)) = Len(q) - 1
         /\ \A j \in 1..Len(q) - 1 :
               RemoveAt(q, i)[j] = IF j < i THEN q[j] ELSE q[j + 1]
<1> DEFINE a == SubSeq(q, 1, i - 1)
<1> DEFINE b == SubSeq(q, i + 1, Len(q))
<1>1. /\ a \in Seq(S) /\ Len(a) = i - 1
      /\ \A j \in 1..i - 1 : a[j] = q[j]
  OBVIOUS
<1>2. /\ b \in Seq(S) /\ Len(b) = Len(q) - i
      /\ \A j \in 1..Len(q) - i : b[j] = q[i + j]
  OBVIOUS
<1>3. RemoveAt(q, i) = a \o b
  BY DEF RemoveAt
<1>4. Len(q) \in Nat
  OBVIOUS
<1> HIDE DEF a, b
<1>5. /\ a \o b \in Seq(S) /\ Len(a \o b) = Len(q) - 1
  <2>1. a \o b \in Seq(S) /\ Len(a \o b) = Len(a) + Len(b)
    BY <1>1, <1>2, ConcatProperties
  <2> QED
    BY <1>1, <1>2, <1>4, <2>1
<1>6. ASSUME NEW j \in 1..Len(q) - 1
      PROVE  (a \o b)[j] = IF j < i THEN q[j] ELSE q[j + 1]
  <2>1. CASE j < i
    BY <1>1, <1>2, <1>4, <2>1
  <2>2. CASE ~(j < i)
    <3>1. j - (i - 1) \in 1..Len(q) - i
      BY <1>4, <2>2
    <3>2. (a \o b)[j] = b[j - (i - 1)]
      BY <1>1, <1>2, <1>4, <2>2
    <3>3. i + (j - (i - 1)) = j + 1
      BY <1>4
    <3> QED
      BY <1>2, <2>2, <3>1, <3>2, <3>3
  <2> QED
    BY <2>1, <2>2
<1> QED
  BY <1>3, <1>5, <1>6

\* A list extended at its end by p.
LEMMA ListsAppend ==
  ASSUME NEW S, NEW f, NEW h, NEW q \in Seq(S), Lists(q, f, h),
         NEW p, p # NULL, NEW g, g[p] = NULL,
         \A i \in 1..Len(q) : g[q[i]] = IF i < Len(q) THEN f[q[i]] ELSE p
  PROVE  Lists(Append(q, p), g, IF q = <<>> THEN p ELSE h)
<1>1. Len(q) \in Nat /\ Len(Append(q, p)) = Len(q) + 1
  OBVIOUS
<1>2. \A i \in 1..Len(q) : Append(q, p)[i] = q[i]
  OBVIOUS
<1>3. Append(q, p)[Len(q) + 1] = p
  OBVIOUS
<1>4. Append(q, p) # <<>>
  BY <1>1
<1>5. Append(q, p)[1] = IF q = <<>> THEN p ELSE h
  <2>1. CASE q = <<>>
    BY <1>3, <2>1
  <2>2. CASE q # <<>>
    <3>1. 1 \in 1..Len(q)
      BY <2>2
    <3> QED
      BY <1>2, <2>2, <3>1 DEF Lists
  <2> QED
    BY <2>1, <2>2
<1>6. q = <<>> \/ h # NULL
  BY DEF Lists
<1>7. ASSUME NEW i \in 1..Len(q) + 1
      PROVE  g[Append(q, p)[i]] = IF i < Len(q) + 1 THEN Append(q, p)[i + 1] ELSE NULL
  <2>1. CASE i = Len(q) + 1
    BY <1>1, <1>3, <2>1
  <2>2. CASE i = Len(q)
    BY <1>1, <1>2, <1>3, <2>2
  <2>3. CASE i < Len(q)
    <3>1. i \in 1..Len(q) /\ i + 1 \in 1..Len(q)
      BY <1>1, <2>3
    <3>2. f[q[i]] = q[i + 1]
      BY <2>3, <3>1 DEF Lists
    <3>3. g[q[i]] = f[q[i]]
      BY <2>3, <3>1
    <3> QED
      BY <1>1, <1>2, <2>3, <3>1, <3>2, <3>3
  <2> QED
    BY <1>1, <2>1, <2>2, <2>3
<1> QED
  BY <1>1, <1>4, <1>5, <1>6, <1>7 DEF Lists

\* A list without its element at i, once what linked to it links past it.
LEMMA ListsRemove ==
  ASSUME NEW S, NEW f, NEW h, NULL \notin S, NEW q \in Seq(S), Lists(q, f, h),
         NEW i \in 1..Len(q), NEW g, NEW k,
         k = IF i = 1 THEN f[q[1]] ELSE h,
         \A j \in 1..Len(q) : j # i => g[q[j]] = IF j + 1 = i THEN f[q[i]] ELSE f[q[j]]
  PROVE  Lists(RemoveAt(q, i), g, k)
<1> DEFINE r == RemoveAt(q, i)
<1>1. /\ Len(q) \in Nat /\ Len(r) = Len(q) - 1
      /\ r \in Seq(S)
      /\ \A j \in 1..Len(q) - 1 : r[j] = IF j < i THEN q[j] ELSE q[j + 1]
  BY RemoveAtFacts
<1>2. \A j \in 1..Len(q) : f[q[j]] = IF j < Len(q) THEN q[j + 1] ELSE NULL
  BY DEF Lists
<1>3. \A j \in 1..Len(q) : q[j] # NULL
  OBVIOUS
<1>4. q[1] = h /\ 1 \in 1..Len(q)
  <2>1. q # <<>>
    OBVIOUS
  <2> QED
    BY <2>1 DEF Lists
<1> HIDE DEF r
<1>5. r = <<>> <=> Len(q) = 1
  BY <1>1
<1>6. CASE Len(q) = 1
  <2>1. k = NULL
    BY <1>2, <1>4, <1>6
  <2> QED
    BY <1>1, <1>5, <1>6, <2>1 DEF Lists, r
<1>7. CASE Len(q) # 1
  <2>1. 1 \in 1..Len(q) - 1 /\ 2 \in 1..Len(q)
    BY <1>1, <1>7
  <2>2. k # NULL /\ r[1] = k
    BY <1>1, <1>2, <1>3, <1>4, <1>7, <2>1
  <2>3. ASSUME NEW j \in 1..Len(q) - 1
        PROVE  g[r[j]] = IF j < Len(q) - 1 THEN r[j + 1] ELSE NULL
    <3>1. CASE j + 1 < i
      <4>1. j \in 1..Len(q) /\ j < Len(q) - 1 /\ r[j] = q[j] /\ r[j + 1] = q[j + 1]
        BY <1>1, <3>1
      <4> QED
        BY <1>1, <1>2, <3>1, <4>1
    <3>2. CASE j + 1 = i
      <4>1. j \in 1..Len(q) /\ r[j] = q[j] /\ g[q[j]] = f[q[i]]
        BY <1>1, <3>2
      <4>2. j < Len(q) - 1 => r[j + 1] = q[i + 1]
        BY <1>1, <3>2
      <4> QED
        BY <1>1, <1>2, <3>2, <4>1, <4>2
    <3>3. CASE j >= i
      <4>1. j + 1 \in 1..Len(q) /\ r[j] = q[j + 1] /\ g[q[j + 1]] = f[q[j + 1]]
        BY <1>1, <3>3
      <4>2. j < Len(q) - 1 => r[j + 1] = q[(j + 1) + 1]
        BY <1>1, <3>3
      <4> QED
        BY <1>1, <1>2, <3>3, <4>1, <4>2
    <3> QED
      BY <1>1, <3>1, <3>2, <3>3
  <2> QED
    BY <1>1, <1>5, <1>7, <2>2, <2>3 DEF Lists, r
<1> QED
  BY <1>6, <1>7

-----------------------------------------------------------------------------
(* The queues of Rendezvous.                                               *)

QueuesChained == \A d \in Procs :
    /\ IsFiniteSet(Senders(d))
    /\ Chained(Senders(d), next_sending, q_sending[d])
    /\ \A s \in Senders(d) : s = q_sending[d] \/ \E t \in Senders(d) : next_sending[t] = s

LEMMA SendersChained == IpcInv => QueuesChained
<1> SUFFICES ASSUME IpcInv, NEW d \in Procs
             PROVE  /\ IsFiniteSet(Senders(d))
                    /\ Chained(Senders(d), next_sending, q_sending[d])
                    /\ \A s \in Senders(d) :
                          s = q_sending[d] \/ \E t \in Senders(d) : next_sending[t] = s
  BY DEF QueuesChained
<1> USE DEF IpcInv
<1>1. IsFiniteSet(Senders(d))
  BY ProcsFinite, FS_Subset DEF Senders
<1>2. \A s \in Senders(d) : s = q_sending[d] \/ \E t \in Senders(d) : next_sending[t] = s
  BY DEF QueueInv, LinkedInv
<1>3. NULL \notin Senders(d)
  BY IpcAssumption DEF Senders
<1>4. \A t \in Senders(d) : next_sending[t] # NULL =>
         /\ next_sending[t] # q_sending[d]
         /\ \A r \in Senders(d) : next_sending[r] = next_sending[t] => r = t
  BY DEF QueueInv, LinkInv, Senders, SendsTo
<1>5. \A T \in SUBSET Senders(d) : T # {} => \E s \in T : \A t \in T : next_sending[t] # s
  BY DEF QueueInv, EndsInv
<1> QED
  BY <1>1, <1>2, <1>3, <1>4, <1>5 DEF Chained

\* Each queue has its sequence: the list ends.
QueuesListed ==
    \A d \in Procs : \E q \in Seq(Senders(d)) : Lists(q, next_sending, q_sending[d])

\* What a blocked sender left in its buffer carries its name.
BlockedSigned ==
    \A s, d \in Procs : SendsTo(s, d) => mem[s][p_msg[s]].source = s

\* What the refinement needs while the kernel runs.
RunningInv == IpcInv /\ QueuesListed /\ BlockedSigned

LEMMA QueueIs ==
  ASSUME IpcInv, NEW d \in Procs, NEW q \in Seq(Senders(d)),
         Lists(q, next_sending, q_sending[d])
  PROVE  QueueOf(d) = q
BY SendersChained, ListFromIs DEF QueuesChained, QueueOf

LEMMA QueueNext ==
  ASSUME IpcInv', NEW d \in Procs, NEW q \in Seq(Senders(d)'),
         Lists(q, next_sending', q_sending'[d])
  PROVE  QueueOf(d)' = q
<1>1. IpcInv' => QueuesChained'
  BY SendersChained, PTL
<1>2. /\ IsFiniteSet(Senders(d)')
      /\ Chained(Senders(d)', next_sending', q_sending'[d])
  BY <1>1 DEF QueuesChained
<1> QED
  BY <1>2, ListFromIs DEF QueueOf

LEMMA QueueFacts ==
  ASSUME RunningInv, NEW d \in Procs
  PROVE  /\ QueueOf(d) \in Seq(Senders(d))
         /\ Lists(QueueOf(d), next_sending, q_sending[d])
         /\ \A i, j \in 1..Len(QueueOf(d)) : QueueOf(d)[i] = QueueOf(d)[j] => i = j
         /\ \A s \in Senders(d) : \E i \in 1..Len(QueueOf(d)) : QueueOf(d)[i] = s
<1>1. PICK q \in Seq(Senders(d)) : Lists(q, next_sending, q_sending[d])
  BY DEF RunningInv, QueuesListed
<1>2. QueueOf(d) = q
  BY <1>1, QueueIs DEF RunningInv
<1>3. /\ Chained(Senders(d), next_sending, q_sending[d])
      /\ \A s \in Senders(d) : s = q_sending[d] \/ \E t \in Senders(d) : next_sending[t] = s
  BY SendersChained DEF QueuesChained, RunningInv
<1>4. \A i, j \in 1..Len(q) : q[i] = q[j] => i = j
  BY <1>1, <1>3, ListsInjective
<1>5. \A s \in Senders(d) : \E i \in 1..Len(q) : q[i] = s
  BY <1>1, <1>3, ListsCover
<1> QED
  BY <1>1, <1>2, <1>4, <1>5

\* A step that changes nothing of the senders to d keeps the queue of d.
LEMMA SameQueue ==
  ASSUME RunningInv, IpcInv', NEW d \in Procs,
         Senders(d)' = Senders(d), q_sending'[d] = q_sending[d],
         \A s \in Senders(d) : /\ next_sending'[s] = next_sending[s]
                               /\ mem'[s][p_msg'[s]] = mem[s][p_msg[s]]
  PROVE  /\ \E q \in Seq(Senders(d)') : Lists(q, next_sending', q_sending'[d])
         /\ Inbox(d)' = Inbox(d)
<1>1. PICK q : q = QueueOf(d)
  OBVIOUS
<1>2. q \in Seq(Senders(d)) /\ Lists(q, next_sending, q_sending[d])
  BY <1>1, QueueFacts
<1>3. \A i \in 1..Len(q) : q[i] \in Senders(d)
  BY <1>2
<1>4. Lists(q, next_sending', q_sending'[d])
  BY <1>2, <1>3 DEF Lists
<1>5. q = QueueOf(d)'
  BY <1>2, <1>4, QueueNext
<1>6. \A i \in 1..Len(q) : mem'[q[i]][p_msg'[q[i]]] = mem[q[i]][p_msg[q[i]]]
  BY <1>3
<1> QED
  BY <1>1, <1>2, <1>4, <1>5, <1>6 DEF Inbox

\* A step that changes nothing of any sender keeps every inbox.
LEMMA SameInboxes ==
  ASSUME RunningInv, IpcInv', UNCHANGED queueVars,
         \A s, d \in Procs : SendsTo(s, d)' <=> SendsTo(s, d),
         \A s, d \in Procs : SendsTo(s, d) => mem'[s][p_msg'[s]] = mem[s][p_msg[s]]
  PROVE  /\ RunningInv'
         /\ \A d \in Procs : Inbox(d)' = Inbox(d)
<1>1. \A d \in Procs : /\ Senders(d)' = Senders(d)
                       /\ \A s \in Senders(d) : mem'[s][p_msg'[s]] = mem[s][p_msg[s]]
  BY DEF Senders
<1>2. \A d \in Procs : /\ \E q \in Seq(Senders(d)') : Lists(q, next_sending', q_sending'[d])
                       /\ Inbox(d)' = Inbox(d)
  BY <1>1, SameQueue DEF queueVars
<1>3. BlockedSigned'
  BY DEF BlockedSigned, RunningInv
<1> QED
  BY <1>2, <1>3 DEF RunningInv, QueuesListed

-----------------------------------------------------------------------------
(* Every call is a step of Rendezvous.                                     *)

\* What a process waits for, told from its flags.
LEMMA WaitFacts ==
  ASSUME TypeOK, FieldsInv, NEW p \in Procs
  PROVE  /\ p_flags[p] = {} => WaitOf(p) = Abstract!Ready
         /\ p_flags[p] = {SENDING} => WaitOf(p) = Abstract!Sending(p_sendto[p])
         /\ p_flags[p] = {RECEIVING} =>
               WaitOf(p) = Abstract!Receiving(p_recvfrom[p], p_msg[p])
BY DEF WaitOf, Abstract!Ready, Abstract!Sending, Abstract!Receiving

LEMMA ExpectsFacts ==
  ASSUME TypeOK, FieldsInv, NEW d \in Procs, NEW s
  PROVE  /\ Abstract!Expects(d, s) <=> RECEIVING \in p_flags[d] /\ p_recvfrom[d] \in {s, ANY}
         /\ Abstract!Expects(d, s) =>
               /\ p_flags[d] = {RECEIVING}
               /\ WaitOf(d).buf = p_msg[d]
               /\ p_msg[d] \in Bufs
<1>1. p_flags[d] \in {{}, {SENDING}, {RECEIVING}}
  BY DEF FieldsInv, FieldsOf
<1>2. CASE p_flags[d] = {}
  BY <1>2 DEF WaitOf, Abstract!Expects
<1>3. CASE p_flags[d] = {SENDING}
  BY <1>3 DEF WaitOf, Abstract!Expects
<1>4. CASE p_flags[d] = {RECEIVING}
  <2>1. WaitOf(d) = [op |-> "receive", from |-> p_recvfrom[d], buf |-> p_msg[d]]
    BY <1>4 DEF WaitOf
  <2>2. p_msg[d] \in Bufs
    BY <1>4 DEF TypeOK, FieldsInv, FieldsOf
  <2> QED
    BY <1>4, <2>1, <2>2 DEF Abstract!Expects
<1> QED
  BY <1>1, <1>2, <1>3, <1>4

\* A call after which the kernel runs no more.
LEMMA StopIsStep ==
  ASSUME kernel = "up", kernel' # "up"
  PROVE  Abstract!Step
BY DEF Abstract!Step, Abstract!Stop

LEMMA SendDeliversIsDeliver ==
  ASSUME RunningInv, IpcInv',
         NEW p \in Procs, NEW d \in Procs, NEW m \in Bufs, NEW x \in Types,
         Running(p), p # d, SendDelivers(p, d, m, x), kernel' = "up"
  PROVE  /\ RunningInv'
         /\ Abstract!Deliver(p, d, m, Sent(p, x))
<1> USE DEF RunningInv, IpcInv
<1>1. kernel = "up" /\ p_flags[p] = {}
  BY DEF Running
<1>2. /\ Abstract!Expects(d, p)
      /\ p_flags[d] = {RECEIVING}
      /\ WaitOf(d).buf = p_msg[d]
      /\ p_msg[d] \in Bufs
  <2>1. Abstract!Expects(d, p)
    BY ExpectsFacts DEF SendDelivers, WaitsFor
  <2> QED
    BY <2>1, ExpectsFacts
<1>3. WaitOf(p) = Abstract!Ready
  BY <1>1, WaitFacts
<1>4. \A r \in Procs : /\ p_flags'[r] = IF r = d THEN {} ELSE p_flags[r]
                       /\ r # p /\ r # d => p_msg'[r] = p_msg[r] /\ mem'[r] = mem[r]
                       /\ r # d => p_recvfrom'[r] = p_recvfrom[r]
  <2>1. /\ p_flags' = [p_flags EXCEPT ![d] = @ \ {RECEIVING}] /\ Procs = DOMAIN p_flags
        /\ p_msg' = [p_msg EXCEPT ![p] = NULL, ![d] = NULL] /\ Procs = DOMAIN p_msg
        /\ p_recvfrom' = [p_recvfrom EXCEPT ![d] = NO_TASK] /\ Procs = DOMAIN p_recvfrom
        /\ Procs = DOMAIN mem
    BY DEF SendDelivers, TypeOK
  <2>2. \A r \in Procs : r # p /\ r # d => mem'[r] = mem[r]
    BY <2>1 DEF SendDelivers
  <2> QED
    BY ONLY <1>2, <2>1, <2>2
<1>5. UNCHANGED <<p_sendto, has_int_msg, queueVars>>
  BY DEF SendDelivers
<1>6. \A s, e \in Procs : /\ SendsTo(s, e)' <=> SendsTo(s, e)
                          /\ SendsTo(s, e) => s # p /\ s # d
  BY <1>1, <1>2, <1>4, <1>5 DEF SendsTo
<1>7. RunningInv' /\ \A e \in Procs : Inbox(e)' = Inbox(e)
  BY <1>4, <1>5, <1>6, SameInboxes
<1>8. \A r \in Procs : WaitOf(r)' = IF r = d THEN Abstract!Ready ELSE WaitOf(r)
  <2>1. ASSUME NEW r \in Procs, r # d, r # p PROVE WaitOf(r)' = WaitOf(r)
    BY <1>4, <1>5, <2>1 DEF WaitOf
  <2>2. WaitOf(d)' = Abstract!Ready
    BY <1>4 DEF WaitOf, Abstract!Ready
  <2>3. WaitOf(p)' = Abstract!Ready
    BY <1>1, <1>4 DEF WaitOf, Abstract!Ready
  <2> QED
    BY <1>3, <2>1, <2>2, <2>3
<1>9. [r \in Procs |-> [b \in Bufs |-> mem'[r][b]]]
        = [Abstract!Fill(p, m, Sent(p, x)) EXCEPT ![d][p_msg[d]] = Sent(p, x)]
  <2>1. PICK msg : msg = Sent(p, x)
    OBVIOUS
  <2>2. mem' = [mem EXCEPT ![p][m] = msg, ![d][p_msg[d]] = msg]
    BY <2>1 DEF SendDelivers
  <2>3. mem \in [Procs -> [Bufs \cup {NULL} -> Message]]
    BY DEF TypeOK
  <2>4. [r \in Procs |-> [b \in Bufs |-> mem'[r][b]]]
          = [[[r \in Procs |-> [b \in Bufs |-> mem[r][b]]] EXCEPT ![p][m] = msg]
               EXCEPT ![d][p_msg[d]] = msg]
    BY ONLY p \in Procs, d \in Procs, m \in Bufs, <1>2, <2>2, <2>3, p # d
  <2> QED
    BY <2>1, <2>4 DEF Abstract!Fill
<1>10. Sent(p, x).source = p
  BY DEF Sent
<1> QED
  BY <1>1, <1>2, <1>3, <1>5, <1>7, <1>8, <1>9, <1>10 DEF Abstract!Deliver, Abstract!Caller

LEMMA SendintDeliversIsRaise ==
  ASSUME RunningInv, IpcInv', NEW d \in IntTasks,
         kernel = "up", SendintDelivers(d), kernel' = "up"
  PROVE  /\ RunningInv'
         /\ Abstract!Raise(d)
<1> USE DEF RunningInv, IpcInv
<1>0. d \in Procs
  BY IpcAssumption
<1>2. /\ Abstract!Expects(d, INTERRUPT)
      /\ p_flags[d] = {RECEIVING}
      /\ WaitOf(d).buf = p_msg[d]
      /\ p_msg[d] \in Bufs
  <2>1. Abstract!Expects(d, INTERRUPT)
    BY <1>0, ExpectsFacts DEF SendintDelivers, WaitsForInterrupt
  <2> QED
    BY <1>0, <2>1, ExpectsFacts
<1>4. \A r \in Procs : /\ p_flags'[r] = IF r = d THEN {} ELSE p_flags[r]
                       /\ r # d => mem'[r] = mem[r]
                       /\ r # d => p_recvfrom'[r] = p_recvfrom[r]
  <2>1. /\ p_flags' = [p_flags EXCEPT ![d] = @ \ {RECEIVING}] /\ Procs = DOMAIN p_flags
        /\ p_recvfrom' = [p_recvfrom EXCEPT ![d] = NO_TASK] /\ Procs = DOMAIN p_recvfrom
        /\ Procs = DOMAIN mem
    BY DEF SendintDelivers, TypeOK
  <2>2. \A r \in Procs : r # d => mem'[r] = mem[r]
    BY <2>1 DEF SendintDelivers
  <2> QED
    BY ONLY <1>2, <2>1, <2>2
<1>5. UNCHANGED <<p_sendto, p_msg, queueVars>>
  BY DEF SendintDelivers
<1>6. \A s, e \in Procs : /\ SendsTo(s, e)' <=> SendsTo(s, e)
                          /\ SendsTo(s, e) => s # d
  BY <1>2, <1>4, <1>5 DEF SendsTo
<1>7. RunningInv' /\ \A e \in Procs : Inbox(e)' = Inbox(e)
  BY <1>4, <1>5, <1>6, SameInboxes
<1>8. \A r \in Procs : WaitOf(r)' = IF r = d THEN Abstract!Ready ELSE WaitOf(r)
  <2>1. ASSUME NEW r \in Procs, r # d PROVE WaitOf(r)' = WaitOf(r)
    BY <1>4, <1>5, <2>1 DEF WaitOf
  <2>2. WaitOf(d)' = Abstract!Ready
    BY <1>0, <1>4 DEF WaitOf, Abstract!Ready
  <2> QED
    BY <2>1, <2>2
<1>9. [r \in Procs |-> [b \in Bufs |-> mem'[r][b]]]
        = [[r \in Procs |-> [b \in Bufs |-> mem[r][b]]] EXCEPT
             ![d][p_msg[d]] = [source |-> INTERRUPT, type |-> HARD_INT]]
  <2>1. PICK msg : msg = [source |-> INTERRUPT, type |-> HARD_INT]
    OBVIOUS
  <2>2. mem' = [mem EXCEPT ![d][p_msg[d]] = msg]
    BY <2>1 DEF SendintDelivers
  <2>3. mem \in [Procs -> [Bufs \cup {NULL} -> Message]]
    BY DEF TypeOK
  <2>4. [r \in Procs |-> [b \in Bufs |-> mem'[r][b]]]
          = [[r \in Procs |-> [b \in Bufs |-> mem[r][b]]] EXCEPT ![d][p_msg[d]] = msg]
    BY ONLY <1>0, <1>2, <2>2, <2>3
  <2> QED
    BY <2>1, <2>4
<1>10. has_int_msg' = [has_int_msg EXCEPT ![d] = FALSE]
  BY DEF SendintDelivers
<1> QED
  BY <1>0, <1>2, <1>7, <1>8, <1>9, <1>10 DEF Abstract!Raise

LEMMA SendintMarksIsNote ==
  ASSUME RunningInv, IpcInv', NEW d \in IntTasks, kernel = "up", SendintMarks(d)
  PROVE  /\ RunningInv'
         /\ Abstract!Note(d)
<1> USE DEF RunningInv, IpcInv
<1>0. d \in Procs
  BY IpcAssumption
<1>1. UNCHANGED <<p_flags, p_msg, p_recvfrom, p_sendto, queueVars, mem, kernel>>
  BY DEF SendintMarks
<1>2. ~Abstract!Expects(d, INTERRUPT)
  BY <1>0, ExpectsFacts DEF SendintMarks, WaitsForInterrupt
<1>3. RunningInv' /\ \A e \in Procs : Inbox(e)' = Inbox(e)
  BY <1>1, SameInboxes DEF SendsTo
<1>4. \A r \in Procs : WaitOf(r)' = WaitOf(r)
  BY <1>1 DEF WaitOf
<1>5. has_int_msg' = [has_int_msg EXCEPT ![d] = TRUE]
  BY DEF SendintMarks
<1> QED
  BY <1>1, <1>2, <1>3, <1>4, <1>5 DEF Abstract!Note

LEMMA ReceivePendingIsTakeInterrupt ==
  ASSUME RunningInv, IpcInv', NEW p \in Procs, NEW src \in Procs \cup {ANY, INTERRUPT},
         NEW m \in Bufs, Running(p), ReceivePending(p, src, m), kernel' = "up"
  PROVE  /\ RunningInv'
         /\ \E msg \in Message : Abstract!TakeInterrupt(p, m, msg)
<1> USE DEF RunningInv, IpcInv
<1>1. kernel = "up" /\ p_flags[p] = {}
  BY DEF Running
<1>2. PICK msg : msg = Stamped(p, m)[p][p_msg[p]]
  OBVIOUS
<1>3. mem \in [Procs -> [Bufs \cup {NULL} -> Message]]
  BY DEF TypeOK
<1>4. [source |-> p, type |-> mem[p][m].type] \in Message
  BY <1>3 DEF Message
<1>5. msg \in Message
  BY <1>2, <1>3, <1>4 DEF Stamped, TypeOK
<1>6. mem' = [mem EXCEPT ![p][m] = msg]
  <2>1. mem' = [Stamped(p, m) EXCEPT ![p][m] = msg]
    BY <1>2 DEF ReceivePending
  <2> QED
    BY <1>3, <2>1 DEF Stamped
<1>7. UNCHANGED <<p_flags, p_recvfrom, p_sendto, queueVars>>
  BY DEF ReceivePending
<1>8. \A r \in Procs : r # p => p_msg'[r] = p_msg[r] /\ mem'[r] = mem[r]
  BY <1>3, <1>6 DEF ReceivePending, TypeOK
<1>9. \A s, e \in Procs : /\ SendsTo(s, e)' <=> SendsTo(s, e)
                          /\ SendsTo(s, e) => s # p
  BY <1>1, <1>7 DEF SendsTo
<1>10. RunningInv' /\ \A e \in Procs : Inbox(e)' = Inbox(e)
  BY <1>7, <1>8, <1>9, SameInboxes
<1>11. \A r \in Procs : WaitOf(r)' = WaitOf(r)
  BY <1>1, <1>7, <1>8 DEF WaitOf
<1>12. [r \in Procs |-> [b \in Bufs |-> mem'[r][b]]] = Abstract!Fill(p, m, msg)
  BY <1>3, <1>6 DEF Abstract!Fill
<1>13. WaitOf(p) = Abstract!Ready
  BY <1>1, WaitFacts
<1>14. has_int_msg[p] /\ has_int_msg' = [has_int_msg EXCEPT ![p] = FALSE]
  BY DEF ReceivePending, PendingInterrupt
<1>15. Abstract!TakeInterrupt(p, m, msg)
  BY <1>1, <1>10, <1>11, <1>12, <1>13, <1>14 DEF Abstract!TakeInterrupt, Abstract!Caller
<1> QED
  BY <1>5, <1>10, <1>15

\* The messages on their way to a process are those its blocked senders left.
InboxesRight == \A d \in Procs :
    /\ Inbox(d) \in Seq(Message)
    /\ Len(Inbox(d)) = Len(QueueOf(d))
    /\ \A i \in 1..Len(QueueOf(d)) :
          /\ Inbox(d)[i] = mem[QueueOf(d)[i]][p_msg[QueueOf(d)[i]]]
          /\ Inbox(d)[i].source = QueueOf(d)[i]

LEMMA InboxFacts == RunningInv => InboxesRight
<1> SUFFICES ASSUME RunningInv, NEW d \in Procs
             PROVE  /\ Inbox(d) \in Seq(Message)
                    /\ Len(Inbox(d)) = Len(QueueOf(d))
                    /\ \A i \in 1..Len(QueueOf(d)) :
                          /\ Inbox(d)[i] = mem[QueueOf(d)[i]][p_msg[QueueOf(d)[i]]]
                          /\ Inbox(d)[i].source = QueueOf(d)[i]
  BY DEF InboxesRight
<1>1. PICK q : q = QueueOf(d)
  OBVIOUS
<1>2. q \in Seq(Senders(d)) /\ Len(q) \in Nat
  BY <1>1, QueueFacts
<1>3. \A i \in 1..Len(q) : q[i] \in Procs /\ SendsTo(q[i], d)
  <2>1. \A i \in 1..Len(q) : q[i] \in Senders(d)
    BY <1>2
  <2> QED
    BY <2>1 DEF Senders
<1>4. \A i \in 1..Len(q) : /\ mem[q[i]][p_msg[q[i]]] \in Message
                           /\ mem[q[i]][p_msg[q[i]]].source = q[i]
  BY <1>3 DEF RunningInv, IpcInv, TypeOK, BlockedSigned
<1>5. Inbox(d) = [i \in 1..Len(q) |-> mem[q[i]][p_msg[q[i]]]]
  BY <1>1 DEF Inbox
<1>6. Inbox(d) \in [1..Len(q) -> Message]
  BY <1>4, <1>5
<1>7. Inbox(d) \in Seq(Message) /\ Len(Inbox(d)) = Len(q)
  BY <1>2, <1>6
<1> QED
  BY <1>1, <1>4, <1>5, <1>7

LEMMA ReceiveBlocksIsAwait ==
  ASSUME RunningInv, IpcInv', NEW p \in Procs, NEW src \in Procs \cup {ANY, INTERRUPT},
         NEW m \in Bufs, Running(p), ReceiveBlocks(p, src, m), kernel' = "up"
  PROVE  /\ RunningInv'
         /\ Abstract!Await(p, src, m)
<1> USE DEF RunningInv, IpcInv
<1>1. kernel = "up" /\ p_flags[p] = {}
  BY DEF Running
<1>2. WaitOf(p) = Abstract!Ready
  BY <1>1, WaitFacts
<1>3. mem \in [Procs -> [Bufs \cup {NULL} -> Message]]
  BY DEF TypeOK
<1>4. mem' = [mem EXCEPT ![p][m] = [source |-> p, type |-> mem[p][m].type]]
  BY <1>3 DEF ReceiveBlocks, Stamped
<1>5. \A r \in Procs : /\ p_flags'[r] = IF r = p THEN {RECEIVING} ELSE p_flags[r]
                       /\ p_msg'[r] = IF r = p THEN m ELSE p_msg[r]
                       /\ p_recvfrom'[r] = IF r = p THEN src ELSE p_recvfrom[r]
  BY <1>1 DEF ReceiveBlocks, TypeOK
<1>6. UNCHANGED <<p_sendto, has_int_msg, queueVars>>
  BY DEF ReceiveBlocks
<1>7. \A r \in Procs : r # p => mem'[r] = mem[r]
  BY <1>3, <1>4
<1>8. \A s, e \in Procs : /\ SendsTo(s, e)' <=> SendsTo(s, e)
                          /\ SendsTo(s, e) => s # p
  BY <1>1, <1>5, <1>6 DEF SendsTo
<1>9. RunningInv' /\ \A e \in Procs : Inbox(e)' = Inbox(e)
  BY <1>5, <1>6, <1>7, <1>8, SameInboxes
<1>10. \A r \in Procs : WaitOf(r)' = IF r = p THEN Abstract!Receiving(src, m) ELSE WaitOf(r)
  <2>1. ASSUME NEW r \in Procs, r # p PROVE WaitOf(r)' = WaitOf(r)
    BY <1>5, <1>6, <2>1 DEF WaitOf
  <2>2. WaitOf(p)' = Abstract!Receiving(src, m)
    BY <1>5 DEF WaitOf, Abstract!Receiving
  <2> QED
    BY <2>1, <2>2
<1>11. [r \in Procs |-> [b \in Bufs |-> mem'[r][b]]]
         = [[r \in Procs |-> [b \in Bufs |-> mem[r][b]]] EXCEPT ![p][m].source = p]
  <2>1. mem[p][m] \in Message
    BY <1>3
  <2>2. [mem[p][m] EXCEPT !.source = p] = [source |-> p, type |-> mem[p][m].type]
    BY <2>1 DEF Message
  <2> QED
    BY <1>3, <1>4, <2>2
<1>12. ~(has_int_msg[p] /\ src \in {ANY, INTERRUPT})
  BY DEF ReceiveBlocks, PendingInterrupt
<1>13. IF src = ANY THEN Inbox(p) = <<>>
                    ELSE \A i \in DOMAIN Inbox(p) : Inbox(p)[i].source # src
  <2>0. /\ Inbox(p) \in Seq(Message)
        /\ Len(Inbox(p)) = Len(QueueOf(p))
        /\ \A i \in 1..Len(QueueOf(p)) : Inbox(p)[i].source = QueueOf(p)[i]
    BY InboxFacts DEF InboxesRight
  <2>1. /\ QueueOf(p) \in Seq(Senders(p))
        /\ Lists(QueueOf(p), next_sending, q_sending[p])
    BY QueueFacts
  <2>2. CASE src = ANY
    <3>1. q_sending[p] = NULL
      BY <2>2 DEF ReceiveBlocks, Offers, TypeOK
    <3>2. QueueOf(p) = <<>>
      BY <2>1, <3>1 DEF Lists
    <3>3. Len(Inbox(p)) = 0
      BY <2>0, <3>2
    <3> QED
      BY <2>0, <2>2, <3>3
  <2>3. CASE src # ANY
    <3>1. src \notin Senders(p)
      BY <2>3 DEF ReceiveBlocks, Offers, Senders
    <3>2. \A i \in 1..Len(QueueOf(p)) : QueueOf(p)[i] # src
      BY <2>1, <3>1
    <3>3. DOMAIN Inbox(p) = 1..Len(QueueOf(p))
      BY <2>0
    <3> QED
      BY <2>0, <2>3, <3>2, <3>3
  <2> QED
    BY <2>2, <2>3
<1> QED
  BY <1>1, <1>2, <1>6, <1>9, <1>10, <1>11, <1>12, <1>13 DEF Abstract!Await, Abstract!Caller

\* The queue of d once p has blocked: p comes last.
LEMMA QueueAppended ==
  ASSUME RunningInv, IpcInv',
         NEW p \in Procs, NEW d \in Procs, NEW m \in Bufs, NEW x \in Types,
         p_flags[p] = {}, p # d, SendBlocks(p, d, m, x)
  PROVE  /\ Append(QueueOf(d), p) \in Seq(Senders(d)')
         /\ Lists(Append(QueueOf(d), p), next_sending', q_sending'[d])
         /\ Senders(d)' = Senders(d) \cup {p}
         /\ \A e \in Procs \ {d} : /\ Senders(e)' = Senders(e)
                                   /\ q_sending'[e] = q_sending[e]
                                   /\ \A s \in Senders(e) : next_sending'[s] = next_sending[s]
<1> USE DEF RunningInv, IpcInv
<1>1. /\ next_sending[p] = NULL
      /\ \A e \in Procs : p \notin Senders(e)
  BY RunningIsUnlinked
<1>2. \A r \in Procs : /\ p_flags'[r] = IF r = p THEN {SENDING} ELSE p_flags[r]
                       /\ p_sendto'[r] = IF r = p THEN d ELSE p_sendto[r]
  BY DEF SendBlocks, TypeOK
<1>3. Senders(d)' = Senders(d) \cup {p}
  BY <1>2 DEF Senders, SendsTo
<1>4. \A e \in Procs \ {d} : Senders(e)' = Senders(e)
  BY <1>1, <1>2 DEF Senders, SendsTo
<1>5. PICK q : q = QueueOf(d)
  OBVIOUS
<1>6. /\ q \in Seq(Senders(d))
      /\ Lists(q, next_sending, q_sending[d])
      /\ \A i, j \in 1..Len(q) : q[i] = q[j] => i = j
      /\ \A s \in Senders(d) : \E i \in 1..Len(q) : q[i] = s
  BY <1>5, QueueFacts
<1>7. \A i \in 1..Len(q) : q[i] \in Senders(d) /\ q[i] \in Procs /\ q[i] # p
  <2>1. \A i \in 1..Len(q) : q[i] \in Senders(d)
    BY <1>6
  <2> QED
    BY <1>1, <2>1 DEF Senders
<1>8. Append(q, p) \in Seq(Senders(d)')
  BY <1>3, <1>6
<1>9. p # NULL
  BY IpcAssumption
<1>10. CASE q_sending[d] = NULL
  <2>1. q = <<>>
    BY <1>6, <1>10 DEF Lists
  <2>2. \A r \in Procs : /\ next_sending'[r] = next_sending[r]
                         /\ q_sending'[r] = IF r = d THEN p ELSE q_sending[r]
    BY <1>1, <1>10 DEF SendBlocks, TypeOK
  <2>3. Lists(Append(q, p), next_sending', IF q = <<>> THEN p ELSE q_sending[d])
    <3>1. \A i \in 1..Len(q) :
             next_sending'[q[i]] = IF i < Len(q) THEN next_sending[q[i]] ELSE p
      BY <2>1
    <3>2. next_sending'[p] = NULL
      BY <1>1, <2>2
    <3> QED
      BY <1>6, <1>9, <3>1, <3>2, ListsAppend
  <2>4. Lists(Append(q, p), next_sending', q_sending'[d])
    BY <2>1, <2>2, <2>3
  <2> QED
    BY <1>3, <1>4, <1>5, <1>8, <2>2, <2>4 DEF Senders
<1>11. CASE q_sending[d] # NULL
  <2>1. PICK t : t = LastQueued(d)
    OBVIOUS
  <2>2. t \in Senders(d) /\ next_sending[t] = NULL
    BY <1>11, <2>1, LastOfQueue
  <2>3. t \in Procs /\ t # p
    BY <1>1, <2>2 DEF Senders
  <2>4. \A r \in Procs : /\ next_sending'[r] = IF r = p THEN NULL
                                               ELSE IF r = t THEN p ELSE next_sending[r]
                         /\ q_sending'[r] = q_sending[r]
    BY <1>11, <2>1, <2>3 DEF SendBlocks, TypeOK
  <2>5. q # <<>>
    BY <1>6, <1>11 DEF Lists
  <2>6. q[Len(q)] = t
    <3>1. PICK i \in 1..Len(q) : q[i] = t
      BY <1>6, <2>2
    <3>2. ~(i < Len(q))
      <4>1. SUFFICES ASSUME i < Len(q) PROVE FALSE
        OBVIOUS
      <4>2. next_sending[t] = q[i + 1]
        BY <1>6, <3>1, <4>1 DEF Lists
      <4>3. i + 1 \in 1..Len(q)
        BY <1>6, <4>1
      <4> QED
        BY <1>7, <2>2, <4>2, <4>3, IpcAssumption
    <3>3. i = Len(q)
      BY <1>6, <3>2
    <3> QED
      BY <3>1, <3>3
  <2>7. ASSUME NEW i \in 1..Len(q)
        PROVE  next_sending'[q[i]] = IF i < Len(q) THEN next_sending[q[i]] ELSE p
    <3>1. CASE i < Len(q)
      <4>1. Len(q) \in 1..Len(q) /\ i # Len(q)
        BY <1>6, <3>1
      <4>2. q[i] # t
        BY <1>6, <2>6, <4>1
      <4> QED
        BY <1>7, <2>4, <3>1, <4>2
    <3>2. CASE i = Len(q)
      BY <1>6, <2>3, <2>4, <2>6, <3>2
    <3> QED
      BY <1>6, <3>1, <3>2
  <2>8. next_sending'[p] = NULL
    BY <2>4
  <2>9. Lists(Append(q, p), next_sending', IF q = <<>> THEN p ELSE q_sending[d])
    BY <1>6, <1>9, <2>7, <2>8, ListsAppend
  <2>10. Lists(Append(q, p), next_sending', q_sending'[d])
    BY <2>4, <2>5, <2>9
  <2>11. \A e \in Procs \ {d} : \A s \in Senders(e) : s # t /\ s # p /\ s \in Procs
    BY <1>1, <2>2 DEF Senders, SendsTo
  <2> QED
    BY <1>3, <1>4, <1>5, <1>8, <2>4, <2>10, <2>11
<1> QED
  BY <1>10, <1>11

LEMMA SendBlocksIsEnqueue ==
  ASSUME RunningInv, IpcInv',
         NEW p \in Procs, NEW d \in Procs, NEW m \in Bufs, NEW x \in Types,
         Running(p), p # d, SendBlocks(p, d, m, x), kernel' = "up"
  PROVE  /\ RunningInv'
         /\ Abstract!Enqueue(p, d, m, Sent(p, x))
<1> USE DEF RunningInv, IpcInv
<1>1. kernel = "up" /\ p_flags[p] = {}
  BY DEF Running
<1>2. WaitOf(p) = Abstract!Ready
  BY <1>1, WaitFacts
<1>3. PICK msg : msg = Sent(p, x)
  OBVIOUS
<1>4. msg \in Message /\ msg.source = p
  BY <1>3 DEF Sent, Message
<1>5. mem \in [Procs -> [Bufs \cup {NULL} -> Message]] /\ mem' = [mem EXCEPT ![p][m] = msg]
  BY <1>3 DEF SendBlocks, TypeOK
<1>6. \A r \in Procs : /\ p_flags'[r] = IF r = p THEN {SENDING} ELSE p_flags[r]
                       /\ p_msg'[r] = IF r = p THEN m ELSE p_msg[r]
                       /\ p_sendto'[r] = IF r = p THEN d ELSE p_sendto[r]
  BY <1>1 DEF SendBlocks, TypeOK
<1>7. UNCHANGED <<p_recvfrom, has_int_msg>>
  BY DEF SendBlocks
<1>8. /\ \A r \in Procs : r # p => mem'[r][p_msg'[r]] = mem[r][p_msg[r]]
      /\ mem'[p][p_msg'[p]] = msg
  BY <1>5, <1>6
<1>9. ~Abstract!Expects(d, p)
  BY ExpectsFacts DEF SendBlocks, WaitsFor
<1>10. \A r \in Procs : WaitOf(r)' = IF r = p THEN Abstract!Sending(d) ELSE WaitOf(r)
  <2>1. ASSUME NEW r \in Procs, r # p PROVE WaitOf(r)' = WaitOf(r)
    BY <1>6, <1>7, <2>1 DEF WaitOf
  <2>2. WaitOf(p)' = Abstract!Sending(d)
    BY <1>6 DEF WaitOf, Abstract!Sending
  <2> QED
    BY <2>1, <2>2
<1>11. [r \in Procs |-> [b \in Bufs |-> mem'[r][b]]] = Abstract!Fill(p, m, msg)
  BY <1>5 DEF Abstract!Fill
<1>12. PICK q : q = QueueOf(d)
  OBVIOUS
<1>13. /\ Append(q, p) \in Seq(Senders(d)')
       /\ Lists(Append(q, p), next_sending', q_sending'[d])
       /\ \A e \in Procs \ {d} : /\ Senders(e)' = Senders(e)
                                 /\ q_sending'[e] = q_sending[e]
                                 /\ \A s \in Senders(e) : next_sending'[s] = next_sending[s]
  BY <1>1, <1>12, QueueAppended
<1>14. QueueOf(d)' = Append(q, p)
  BY <1>13, QueueNext
<1>15. \A e \in Procs \ {d} :
          /\ \E r \in Seq(Senders(e)') : Lists(r, next_sending', q_sending'[e])
          /\ Inbox(e)' = Inbox(e)
  <2>1. SUFFICES ASSUME NEW e \in Procs \ {d}
                 PROVE  /\ \E r \in Seq(Senders(e)') : Lists(r, next_sending', q_sending'[e])
                        /\ Inbox(e)' = Inbox(e)
    OBVIOUS
  <2>2. \A s \in Senders(e) : s # p /\ s \in Procs
    BY <1>1 DEF Senders, SendsTo
  <2> QED
    BY <1>8, <1>13, <2>2, SameQueue
<1>16. BlockedSigned'
  <2>1. \A s, e \in Procs : SendsTo(s, e)' => s = p \/ SendsTo(s, e)
    BY <1>6 DEF SendsTo
  <2>2. \A s, e \in Procs : SendsTo(s, e) => mem[s][p_msg[s]].source = s
    BY DEF BlockedSigned
  <2>3. \A s, e \in Procs : SendsTo(s, e)' => mem'[s][p_msg'[s]].source = s
    BY <1>4, <1>8, <2>1, <2>2
  <2> QED
    BY <2>3 DEF BlockedSigned
<1>17. RunningInv'
  BY <1>13, <1>15, <1>16 DEF QueuesListed
<1>18. Inbox(d)' = Append(Inbox(d), msg)
  <2>1. /\ Inbox(d) \in Seq(Message)
        /\ Len(Inbox(d)) = Len(q)
        /\ \A i \in 1..Len(q) : Inbox(d)[i] = mem[q[i]][p_msg[q[i]]]
    BY <1>12, InboxFacts DEF InboxesRight
  <2>2. q \in Seq(Senders(d)) /\ Len(q) \in Nat
    BY <1>12, QueueFacts
  <2>3. \A i \in 1..Len(q) : q[i] \in Procs /\ q[i] # p
    <3>1. \A i \in 1..Len(q) : q[i] \in Senders(d)
      BY <2>2
    <3> QED
      BY <1>1, <3>1 DEF Senders, SendsTo
  <2>4. PICK z : z = Append(q, p)
    OBVIOUS
  <2>5. Len(z) = Len(q) + 1 /\ z[Len(q) + 1] = p /\ \A i \in 1..Len(q) : z[i] = q[i]
    BY <2>2, <2>4
  <2>6. Inbox(d)' = [i \in 1..Len(z) |-> mem'[z[i]][p_msg'[z[i]]]]
    BY <1>14, <2>4 DEF Inbox
  <2>7. \A i \in 1..Len(q) : mem'[z[i]][p_msg'[z[i]]] = Inbox(d)[i]
    BY <1>8, <2>1, <2>3, <2>5
  <2>8. PICK a : a = Inbox(d)
    OBVIOUS
  <2>9. Append(a, msg) = [i \in 1..Len(q) + 1 |-> IF i = Len(q) + 1 THEN msg ELSE a[i]]
    <3>1. /\ Append(a, msg) \in Seq(Message) /\ Len(Append(a, msg)) = Len(q) + 1
          /\ \A i \in 1..Len(q) : Append(a, msg)[i] = a[i]
          /\ Append(a, msg)[Len(q) + 1] = msg
      BY <1>4, <2>1, <2>2, <2>8, AppendProperties
    <3>2. \A i \in 1..Len(q) + 1 : i = Len(q) + 1 \/ i \in 1..Len(q)
      BY <2>2
    <3>3. Append(a, msg) \in [1..Len(q) + 1 -> Message]
      BY <3>1, LenProperties
    <3> QED
      BY <3>1, <3>2, <3>3
  <2>10. \A i \in 1..Len(q) + 1 :
           mem'[z[i]][p_msg'[z[i]]] = IF i = Len(q) + 1 THEN msg ELSE a[i]
    <3>1. SUFFICES ASSUME NEW i \in 1..Len(q) + 1
                   PROVE  mem'[z[i]][p_msg'[z[i]]] = IF i = Len(q) + 1 THEN msg ELSE a[i]
      OBVIOUS
    <3>2. i = Len(q) + 1 \/ i \in 1..Len(q)
      BY <2>2
    <3> QED
      BY <1>8, <2>2, <2>5, <2>7, <2>8, <3>2
  <2> QED
    BY <2>5, <2>6, <2>8, <2>9, <2>10
<1>19. Abstract!Enqueue(p, d, m, msg)
  BY <1>1, <1>2, <1>4, <1>7, <1>9, <1>10, <1>11, <1>15, <1>18
     DEF Abstract!Enqueue, Abstract!Caller
<1> QED
  BY <1>3, <1>17, <1>19

\* The queue of p once it has taken the message of s, the i-th of it.
LEMMA QueueShortened ==
  ASSUME RunningInv, IpcInv', NEW p \in Procs, NEW s \in Procs, NEW src, NEW m \in Bufs,
         p_flags[p] = {}, ReceiveTakes(p, src, s, m),
         NEW q, q = QueueOf(p), NEW i \in 1..Len(q), q[i] = s
  PROVE  /\ RemoveAt(q, i) \in Seq(Senders(p)')
         /\ Lists(RemoveAt(q, i), next_sending', q_sending'[p])
         /\ \A e \in Procs \ {p} : /\ Senders(e)' = Senders(e)
                                   /\ q_sending'[e] = q_sending[e]
                                   /\ \A r \in Senders(e) : next_sending'[r] = next_sending[r]
<1> USE DEF RunningInv, IpcInv
<1>1. p_sendto[s] = p /\ s \in Senders(p)
  BY DEF ReceiveTakes, TakeAssertions, Senders, SendsTo
<1>2. \A r \in Procs : /\ SENDING \in p_flags'[r] <=> r # s /\ SENDING \in p_flags[r]
                       /\ p_sendto'[r] = IF r = s THEN NO_TASK ELSE p_sendto[r]
  BY DEF ReceiveTakes, TypeOK
<1>3. Senders(p)' = Senders(p) \ {s}
  BY <1>2 DEF Senders, SendsTo
<1>4. \A e \in Procs \ {p} : Senders(e)' = Senders(e) /\ Senders(e) \cap Senders(p) = {}
  BY <1>1, <1>2 DEF Senders, SendsTo
<1>6. /\ q \in Seq(Senders(p)) /\ Len(q) \in Nat
      /\ Lists(q, next_sending, q_sending[p])
      /\ \A j, k \in 1..Len(q) : q[j] = q[k] => j = k
      /\ \A r \in Senders(p) : \E j \in 1..Len(q) : q[j] = r
  <2>1. q \in Seq(Senders(p))
    BY QueueFacts
  <2>2. Len(q) \in Nat
    BY <2>1, LenProperties
  <2>3. Lists(q, next_sending, q_sending[p])
    BY QueueFacts
  <2>4. \A j, k \in 1..Len(q) : q[j] = q[k] => j = k
    BY QueueFacts
  <2>5. \A r \in Senders(p) : \E j \in 1..Len(q) : q[j] = r
    BY QueueFacts
  <2> QED
    BY <2>1, <2>2, <2>3, <2>4, <2>5
<1>7. \A j \in 1..Len(q) : q[j] \in Senders(p) /\ q[j] \in Procs
  <2>1. \A j \in 1..Len(q) : q[j] \in Senders(p)
    BY <1>6
  <2> QED
    BY <2>1 DEF Senders
<1>8. RemoveAt(q, i) \in Seq(Senders(p)')
  <2>1. PICK r : r = RemoveAt(q, i)
    OBVIOUS
  <2>2. /\ r \in Seq(Senders(p)) /\ Len(r) = Len(q) - 1
        /\ \A j \in 1..Len(q) - 1 : r[j] = IF j < i THEN q[j] ELSE q[j + 1]
    <3>1. PICK S : S = Senders(p)
      OBVIOUS
    <3>2. q \in Seq(S) /\ i \in 1..Len(q)
      BY <1>6, <3>1
    <3>3. /\ RemoveAt(q, i) \in Seq(S) /\ Len(RemoveAt(q, i)) = Len(q) - 1
          /\ \A j \in 1..Len(q) - 1 :
                RemoveAt(q, i)[j] = IF j < i THEN q[j] ELSE q[j + 1]
      BY ONLY <3>2, RemoveAtFacts
    <3> QED
      BY <2>1, <3>1, <3>3
  <2>3. ASSUME NEW j \in 1..Len(q) - 1 PROVE r[j] \in Senders(p)'
    <3>1. CASE j < i
      <4>1. j \in 1..Len(q) /\ j # i
        BY <1>6, <3>1
      <4>2. r[j] = q[j]
        BY <2>2, <3>1
      <4> QED
        BY <1>3, <1>6, <1>7, <4>1, <4>2
    <3>2. CASE ~(j < i)
      <4>1. j + 1 \in 1..Len(q) /\ j + 1 # i
        BY <1>6, <3>2
      <4>2. r[j] = q[j + 1]
        BY <2>2, <3>2
      <4> QED
        BY <1>3, <1>6, <1>7, <4>1, <4>2
    <3> QED
      BY <3>1, <3>2
  <2>4. r \in [1..Len(q) - 1 -> Senders(p)]
    BY <2>2, LenProperties
  <2>5. r \in [1..Len(q) - 1 -> Senders(p)']
    BY <2>3, <2>4
  <2>6. Len(q) - 1 \in Nat
    BY <1>6
  <2> QED
    BY <2>1, <2>5, <2>6
<1>9. NULL \notin Senders(p)
  BY IpcAssumption DEF Senders
<1>10. q[1] = q_sending[p] /\ 1 \in 1..Len(q)
  <2>1. q # <<>>
    BY <1>6
  <2> QED
    BY <1>6, <2>1 DEF Lists
<1>11. /\ q_sending'[p] = IF i = 1 THEN next_sending[q[1]] ELSE q_sending[p]
       /\ \A j \in 1..Len(q) : j # i =>
            next_sending'[q[j]] = IF j + 1 = i THEN next_sending[q[i]] ELSE next_sending[q[j]]
       /\ \A e \in Procs \ {p} : /\ q_sending'[e] = q_sending[e]
                                 /\ \A r \in Senders(e) : next_sending'[r] = next_sending[r]
  <2>1. CASE q_sending[p] = s
    <3>1. i = 1
      BY <1>6, <1>10, <2>1
    <3>2. \A r \in Procs : /\ next_sending'[r] = IF r = s THEN NULL ELSE next_sending[r]
                           /\ q_sending'[r] = IF r = p THEN next_sending[s] ELSE q_sending[r]
      BY <2>1 DEF ReceiveTakes, Unlink, TypeOK
    <3>3. q_sending'[p] = IF i = 1 THEN next_sending[q[1]] ELSE q_sending[p]
      BY <1>6, <3>1, <3>2
    <3>4. \A j \in 1..Len(q) : j # i =>
             next_sending'[q[j]] = IF j + 1 = i THEN next_sending[q[i]] ELSE next_sending[q[j]]
      BY <1>6, <1>7, <3>1, <3>2
    <3>5. \A e \in Procs \ {p} : \A r \in Senders(e) : r # s /\ r \in Procs
      BY <1>1, <1>4 DEF Senders
    <3> QED
      BY <3>2, <3>3, <3>4, <3>5
  <2>2. CASE q_sending[p] # s
    <3>1. PICK b : b = QueuedBefore(p, s)
      OBVIOUS
    <3>2. b \in Senders(p) \ {s} /\ next_sending[b] = s
      BY <1>1, <2>2, <3>1, BeforeInQueue
    <3>3. i # 1
      BY <1>6, <1>10, <2>2
    <3>4. \A r \in Procs : /\ next_sending'[r] = IF r = s THEN NULL ELSE
                                IF r = b THEN next_sending[s] ELSE next_sending[r]
                           /\ q_sending'[r] = q_sending[r]
      BY <2>2, <3>1, <3>2 DEF ReceiveTakes, Unlink, TypeOK, Senders
    <3>5. PICK k \in 1..Len(q) : q[k] = b
      BY <1>6, <3>2
    <3>6. k + 1 = i
      <4>1. s # NULL
        BY IpcAssumption
      <4>2. k < Len(q) /\ q[k + 1] = s
        BY <1>6, <3>2, <3>5, <4>1 DEF Lists
      <4>3. k + 1 \in 1..Len(q)
        BY <4>2
      <4> QED
        BY <1>6, <4>2, <4>3
    <3>7. ASSUME NEW j \in 1..Len(q), j # i
          PROVE  next_sending'[q[j]]
                   = IF j + 1 = i THEN next_sending[q[i]] ELSE next_sending[q[j]]
      <4>1. q[j] # s /\ q[j] \in Procs
        BY <1>6, <1>7, <3>7
      <4>2. CASE j = k
        BY <1>6, <3>4, <3>5, <3>6, <4>1, <4>2
      <4>3. CASE j # k
        <5>1. q[j] # b
          BY <1>6, <3>5, <4>3
        <5>2. j + 1 # i
          BY <3>6, <4>3
        <5> QED
          BY <3>4, <4>1, <5>1, <5>2
      <4> QED
        BY <4>2, <4>3
    <3>8. \A e \in Procs \ {p} : \A r \in Senders(e) : r # s /\ r # b /\ r \in Procs
      BY <1>1, <1>4, <3>2 DEF Senders
    <3> QED
      BY <3>3, <3>4, <3>7, <3>8
  <2> QED
    BY <2>1, <2>2
<1>12. Lists(RemoveAt(q, i), next_sending', q_sending'[p])
  <2>1. PICK S, f, g, h, k :
           /\ S = Senders(p) /\ f = next_sending /\ g = next_sending'
           /\ h = q_sending[p] /\ k = q_sending'[p]
    OBVIOUS
  <2>2. /\ NULL \notin S /\ q \in Seq(S) /\ Lists(q, f, h) /\ i \in 1..Len(q)
        /\ k = IF i = 1 THEN f[q[1]] ELSE h
        /\ \A j \in 1..Len(q) : j # i => g[q[j]] = IF j + 1 = i THEN f[q[i]] ELSE f[q[j]]
    BY <1>6, <1>9, <1>11, <2>1
  <2>3. Lists(RemoveAt(q, i), g, k)
    BY ONLY <2>2, ListsRemove, ZenonT(40)
  <2> QED
    BY <2>1, <2>3
<1> QED
  BY <1>4, <1>8, <1>11, <1>12

LEMMA ReceiveTakesIsTake ==
  ASSUME RunningInv, IpcInv', NEW p \in Procs, NEW s \in Procs,
         NEW src \in Procs \cup {ANY, INTERRUPT},
         NEW m \in Bufs, Running(p), ReceiveTakes(p, src, s, m)
  PROVE  /\ RunningInv'
         /\ \E i \in DOMAIN Inbox(p) : Abstract!Take(p, src, m, i)
<1> USE DEF RunningInv, IpcInv
<1>1. kernel = "up" /\ kernel' = "up" /\ p_flags[p] = {}
  BY DEF Running, ReceiveTakes
<1>2. WaitOf(p) = Abstract!Ready
  BY <1>1, WaitFacts
<1>3. /\ s \in Senders(p) /\ s # p
      /\ p_flags[s] = {SENDING}
  BY <1>1 DEF ReceiveTakes, TakeAssertions, Senders, SendsTo
<1>4. PICK q : q = QueueOf(p)
  OBVIOUS
<1>5. /\ q \in Seq(Senders(p)) /\ Len(q) \in Nat
      /\ Lists(q, next_sending, q_sending[p])
      /\ \A j, k \in 1..Len(q) : q[j] = q[k] => j = k
  BY <1>4, QueueFacts
<1>6. PICK i \in 1..Len(q) : q[i] = s
  BY <1>3, <1>4, QueueFacts
<1>7. PICK z : z = RemoveAt(q, i)
  OBVIOUS
<1>8. /\ z \in Seq(Senders(p)')
      /\ Lists(z, next_sending', q_sending'[p])
      /\ \A e \in Procs \ {p} : /\ Senders(e)' = Senders(e)
                                /\ q_sending'[e] = q_sending[e]
                                /\ \A r \in Senders(e) : next_sending'[r] = next_sending[r]
  BY <1>1, <1>4, <1>6, <1>7, QueueShortened
<1>9. QueueOf(p)' = z
  BY <1>8, QueueNext
<1>10. PICK a : a = Inbox(p)
  OBVIOUS
<1>11. /\ a \in Seq(Message) /\ Len(a) = Len(q)
       /\ \A j \in 1..Len(q) : a[j] = mem[q[j]][p_msg[q[j]]] /\ a[j].source = q[j]
  BY <1>4, <1>10, InboxFacts DEF InboxesRight
<1>12. PICK msg : msg = mem[s][p_msg[s]]
  OBVIOUS
<1>13. a[i] = msg /\ msg.source = s
  BY <1>6, <1>11, <1>12
<1>14. mem \in [Procs -> [Bufs \cup {NULL} -> Message]] /\ mem' = [mem EXCEPT ![p][m] = msg]
  <2>1. mem \in [Procs -> [Bufs \cup {NULL} -> Message]]
    BY DEF TypeOK
  <2>2. mem' = [Stamped(p, m) EXCEPT ![p][m] = msg]
    BY <1>12 DEF ReceiveTakes
  <2> QED
    BY <2>1, <2>2 DEF Stamped
<1>15. \A r \in Procs : /\ p_flags'[r] = IF r = s THEN {} ELSE p_flags[r]
                        /\ p_msg'[r] = IF r = s THEN NULL ELSE p_msg[r]
                        /\ p_sendto'[r] = IF r = s THEN NO_TASK ELSE p_sendto[r]
  <2>1. /\ p_flags' = [p_flags EXCEPT ![s] = @ \ {SENDING}] /\ Procs = DOMAIN p_flags
        /\ p_msg' = [p_msg EXCEPT ![s] = NULL] /\ Procs = DOMAIN p_msg
        /\ p_sendto' = [p_sendto EXCEPT ![s] = NO_TASK] /\ Procs = DOMAIN p_sendto
    BY DEF ReceiveTakes, TypeOK
  <2> QED
    BY ONLY <1>3, <2>1
<1>16. UNCHANGED <<p_recvfrom, has_int_msg>>
  BY DEF ReceiveTakes
<1>17. \A r \in Procs : r # p /\ r # s => mem'[r][p_msg'[r]] = mem[r][p_msg[r]]
  BY <1>14, <1>15
<1>18. \A e \in Procs : \A r \in Senders(e) : r \in Procs /\ r # p /\ (r = s => e = p)
  BY <1>1, <1>3 DEF Senders, SendsTo
<1>19. \A e \in Procs \ {p} :
          /\ \E r \in Seq(Senders(e)') : Lists(r, next_sending', q_sending'[e])
          /\ Inbox(e)' = Inbox(e)
  <2>1. SUFFICES ASSUME NEW e \in Procs \ {p}
                 PROVE  /\ \E r \in Seq(Senders(e)') : Lists(r, next_sending', q_sending'[e])
                        /\ Inbox(e)' = Inbox(e)
    OBVIOUS
  <2>2. \A r \in Senders(e) : mem'[r][p_msg'[r]] = mem[r][p_msg[r]]
    BY <1>17, <1>18
  <2> QED
    BY <1>8, <2>2, SameQueue
<1>20. BlockedSigned'
  <2>1. \A r, e \in Procs : SendsTo(r, e)' => r # s /\ r # p /\ SendsTo(r, e)
    BY <1>1, <1>15 DEF SendsTo
  <2>2. \A r, e \in Procs : SendsTo(r, e) => mem[r][p_msg[r]].source = r
    BY DEF BlockedSigned
  <2>3. \A r, e \in Procs : SendsTo(r, e)' => mem'[r][p_msg'[r]].source = r
    BY <1>17, <2>1, <2>2
  <2> QED
    BY <2>3 DEF BlockedSigned
<1>21. RunningInv'
  BY <1>8, <1>19, <1>20 DEF QueuesListed
<1>22. Inbox(p)' = RemoveAt(a, i)
  <2>1. /\ Len(z) = Len(q) - 1
        /\ \A j \in 1..Len(q) - 1 : z[j] = IF j < i THEN q[j] ELSE q[j + 1]
    BY <1>5, <1>7, RemoveAtFacts
  <2>2. PICK y : y = RemoveAt(a, i)
    OBVIOUS
  <2>3. /\ y \in Seq(Message) /\ Len(y) = Len(q) - 1
        /\ \A j \in 1..Len(q) - 1 : y[j] = IF j < i THEN a[j] ELSE a[j + 1]
    BY <1>11, <2>2, RemoveAtFacts
  <2>4. y \in [1..Len(q) - 1 -> Message]
    BY <2>3, LenProperties
  <2>5. \A j \in 1..Len(q) : q[j] \in Senders(p)
    BY <1>5
  <2>6. ASSUME NEW k \in 1..Len(q), k # i
        PROVE  mem'[q[k]][p_msg'[q[k]]] = a[k]
    <3>1. q[k] # s /\ q[k] # p /\ q[k] \in Procs
      BY <1>5, <1>6, <1>18, <2>5, <2>6
    <3> QED
      BY <1>11, <1>17, <3>1
  <2>7. ASSUME NEW j \in 1..Len(q) - 1
        PROVE  mem'[z[j]][p_msg'[z[j]]] = y[j]
    <3>1. CASE j < i
      <4>1. j \in 1..Len(q) /\ j # i /\ z[j] = q[j] /\ y[j] = a[j]
        BY <1>5, <2>1, <2>3, <3>1
      <4> QED
        BY <2>6, <4>1
    <3>2. CASE ~(j < i)
      <4>1. j + 1 \in 1..Len(q) /\ j + 1 # i /\ z[j] = q[j + 1] /\ y[j] = a[j + 1]
        BY <1>5, <2>1, <2>3, <3>2
      <4> QED
        BY <2>6, <4>1
    <3> QED
      BY <3>1, <3>2
  <2>8. Inbox(p)' = [j \in 1..Len(z) |-> mem'[z[j]][p_msg'[z[j]]]]
    BY <1>9 DEF Inbox
  <2> QED
    BY <2>1, <2>2, <2>4, <2>7, <2>8
<1>23. \A r \in Procs : WaitOf(r)' = IF r = s THEN Abstract!Ready ELSE WaitOf(r)
  <2>1. ASSUME NEW r \in Procs, r # s PROVE WaitOf(r)' = WaitOf(r)
    BY <1>15, <1>16, <2>1 DEF WaitOf
  <2>2. WaitOf(s)' = Abstract!Ready
    BY <1>15 DEF WaitOf, Abstract!Ready
  <2> QED
    BY <2>1, <2>2
<1>24. [r \in Procs |-> [b \in Bufs |-> mem'[r][b]]]
         = [[r \in Procs |-> [b \in Bufs |-> mem[r][b]]] EXCEPT ![p][m] = msg]
  BY <1>14
<1>25. ~(has_int_msg[p] /\ src \in {ANY, INTERRUPT})
  BY DEF ReceiveTakes, PendingInterrupt
<1>26. IF src = ANY THEN i = 1 ELSE msg.source = src
  <2>1. CASE src = ANY
    <3>1. q_sending[p] = s
      BY <2>1 DEF ReceiveTakes, Offers
    <3>2. q # <<>>
      BY <1>5, <1>6
    <3>3. q[1] = s /\ 1 \in 1..Len(q)
      BY <1>5, <3>1, <3>2 DEF Lists
    <3> QED
      BY <1>5, <1>6, <2>1, <3>3
  <2>2. CASE src # ANY
    BY <1>13, <2>2 DEF ReceiveTakes, Offers
  <2> QED
    BY <2>1, <2>2
<1>27. i \in DOMAIN a
  BY <1>6, <1>11
<1>28. Abstract!RemoveAt(a, i) = RemoveAt(a, i)
  BY DEF RemoveAt, Abstract!RemoveAt
<1>29. [e \in Procs |-> Inbox(e)']
         = [[e \in Procs |-> Inbox(e)] EXCEPT ![p] = Abstract!RemoveAt(@, i)]
  BY <1>10, <1>19, <1>22, <1>28
<1>30. [r \in Procs |-> WaitOf(r)']
         = [[r \in Procs |-> WaitOf(r)] EXCEPT
              ![[e \in Procs |-> Inbox(e)][p][i].source] = Abstract!Ready]
  <2>1. [e \in Procs |-> Inbox(e)][p][i].source = s
    BY <1>10, <1>13
  <2> QED
    BY <1>23, <2>1
<1>31. [r \in Procs |-> [b \in Bufs |-> mem'[r][b]]]
         = [[r \in Procs |-> [b \in Bufs |-> mem[r][b]]] EXCEPT
              ![p][m] = [e \in Procs |-> Inbox(e)][p][i]]
  BY <1>10, <1>13, <1>24
<1>32. IF src = ANY THEN i = 1 ELSE [e \in Procs |-> Inbox(e)][p][i].source = src
  BY <1>10, <1>13, <1>26
<1>33. Abstract!Caller(p)
  BY <1>1, <1>2 DEF Abstract!Caller
<1>34. Abstract!Take(p, src, m, i)
  BY <1>16, <1>25, <1>29, <1>30, <1>31, <1>32, <1>33 DEF Abstract!Take
<1> QED
  BY <1>10, <1>21, <1>27, <1>34

\* While the kernel runs, every queue has its sequence and every blocked
\* message its sender's name; once it has stopped no call follows.
RefinementInv == IpcInv /\ (kernel = "up" => QueuesListed /\ BlockedSigned)

LEMMA SendImplements ==
  ASSUME RunningInv, IpcInv',
         NEW p \in Procs, NEW d \in Procs, NEW m \in Bufs, NEW x \in Types,
         Send(p, d, m, x)
  PROVE  RefinementInv' /\ Abstract!Step
<1>1. kernel = "up" /\ Running(p) /\ p # d
  BY DEF Send, Running
<1>2. CASE kernel' # "up"
  BY <1>1, <1>2, StopIsStep DEF RefinementInv
<1>3. CASE kernel' = "up"
  <2>0. Sent(p, x) \in Message
    BY DEF Sent, Message
  <2>1. CASE SendDelivers(p, d, m, x)
    <3>1. RunningInv' /\ Abstract!Deliver(p, d, m, Sent(p, x))
      BY <1>1, <1>3, <2>1, SendDeliversIsDeliver
    <3> QED
      BY <2>0, <3>1 DEF RunningInv, RefinementInv, Abstract!Step
  <2>2. CASE SendBlocks(p, d, m, x)
    <3>1. RunningInv' /\ Abstract!Enqueue(p, d, m, Sent(p, x))
      BY <1>1, <1>3, <2>2, SendBlocksIsEnqueue
    <3> QED
      BY <2>0, <3>1 DEF RunningInv, RefinementInv, Abstract!Step
  <2>3. ~SendSpins(p, d, m, x) /\ ~SendHalts(p, d, m, x)
    BY <1>3 DEF SendSpins, SendHalts
  <2> QED
    BY <2>1, <2>2, <2>3 DEF Send
<1> QED
  BY <1>2, <1>3

LEMMA ReceiveImplements ==
  ASSUME RunningInv, IpcInv', NEW p \in Procs, NEW src \in Procs \cup {ANY, INTERRUPT},
         NEW m \in Bufs, Receive(p, src, m)
  PROVE  RefinementInv' /\ Abstract!Step
<1>1. kernel = "up" /\ Running(p)
  BY DEF Receive, Running
<1>2. CASE kernel' # "up"
  BY <1>1, <1>2, StopIsStep DEF RefinementInv
<1>3. CASE kernel' = "up"
  <2>1. CASE ReceivePending(p, src, m)
    <3>1. RunningInv' /\ \E msg \in Message : Abstract!TakeInterrupt(p, m, msg)
      BY <1>1, <1>3, <2>1, ReceivePendingIsTakeInterrupt
    <3> QED
      BY <3>1 DEF RunningInv, RefinementInv, Abstract!Step
  <2>2. ASSUME NEW s \in Procs, ReceiveTakes(p, src, s, m)
        PROVE  RefinementInv' /\ Abstract!Step
    <3>1. RunningInv' /\ \E i \in DOMAIN Inbox(p) : Abstract!Take(p, src, m, i)
      BY <1>1, <2>2, ReceiveTakesIsTake
    <3>2. [e \in Procs |-> Inbox(e)][p] = Inbox(p)
      OBVIOUS
    <3> QED
      BY <3>1, <3>2 DEF RunningInv, RefinementInv, Abstract!Step
  <2>3. ASSUME NEW s \in Procs, ReceiveFails(p, src, s, m) PROVE FALSE
    BY <1>3, <2>3 DEF ReceiveFails
  <2>4. CASE ReceiveBlocks(p, src, m)
    <3>1. RunningInv' /\ Abstract!Await(p, src, m)
      BY <1>1, <1>3, <2>4, ReceiveBlocksIsAwait
    <3> QED
      BY <3>1 DEF RunningInv, RefinementInv, Abstract!Step
  <2> QED
    BY <2>1, <2>2, <2>3, <2>4 DEF Receive
<1> QED
  BY <1>2, <1>3

LEMMA SendintImplements ==
  ASSUME RunningInv, IpcInv', NEW d \in IntTasks, sys_sendint(d)
  PROVE  RefinementInv' /\ Abstract!Step
<1>1. kernel = "up"
  BY DEF sys_sendint
<1>2. CASE kernel' # "up"
  BY <1>1, <1>2, StopIsStep DEF RefinementInv
<1>3. CASE kernel' = "up"
  <2>1. CASE SendintDelivers(d)
    <3>1. RunningInv' /\ Abstract!Raise(d)
      BY <1>1, <1>3, <2>1, SendintDeliversIsRaise
    <3> QED
      BY <3>1 DEF RunningInv, RefinementInv, Abstract!Step
  <2>2. CASE SendintMarks(d)
    <3>1. RunningInv' /\ Abstract!Note(d)
      BY <1>1, <2>2, SendintMarksIsNote
    <3> QED
      BY <3>1 DEF RunningInv, RefinementInv, Abstract!Step
  <2> QED
    BY <2>1, <2>2 DEF sys_sendint
<1> QED
  BY <1>2, <1>3

\* Every step of the kernel maps to a step of Rendezvous or to none.
LEMMA StepImplements ==
  RefinementInv /\ [Next]_vars => RefinementInv' /\ [Abstract!Step]_Abstract!rendezvous
<1> SUFFICES ASSUME RefinementInv, [Next]_vars
             PROVE  RefinementInv' /\ [Abstract!Step]_Abstract!rendezvous
  OBVIOUS
<1>1. IpcInv /\ IpcInv'
  BY IpcInvKept DEF RefinementInv
<1>2. CASE Next
  <2>1. kernel = "up"
    BY <1>2 DEF Next, Send, Receive, Running, sys_sendint
  <2>2. RunningInv
    BY <2>1 DEF RefinementInv, RunningInv
  <2>3. CASE \E p, d \in Procs, m \in Bufs, x \in Types : Send(p, d, m, x)
    BY <1>1, <2>2, <2>3, SendImplements
  <2>4. CASE \E p \in Procs, src \in Procs \cup {ANY, INTERRUPT}, m \in Bufs :
                Receive(p, src, m)
    BY <1>1, <2>2, <2>4, ReceiveImplements
  <2>5. CASE \E d \in IntTasks : sys_sendint(d)
    BY <1>1, <2>2, <2>5, SendintImplements
  <2> QED
    BY <1>2, <2>3, <2>4, <2>5 DEF Next
<1>3. CASE UNCHANGED vars
  <2>1. \A d \in Procs : Senders(d)' = Senders(d)
    BY <1>3 DEF vars, procVars, Senders, SendsTo
  <2>2. \A d \in Procs : QueueOf(d)' = QueueOf(d)
    BY <1>3, <2>1 DEF vars, queueVars, QueueOf
  <2>3. \A d \in Procs : Inbox(d)' = Inbox(d)
    BY <1>3, <2>2 DEF vars, procVars, Inbox
  <2>4. \A p \in Procs : WaitOf(p)' = WaitOf(p)
    BY <1>3 DEF vars, procVars, WaitOf
  <2>5. UNCHANGED Abstract!rendezvous
    BY <1>3, <2>3, <2>4 DEF vars, procVars, Abstract!rendezvous
  <2>6. QueuesListed' <=> QueuesListed
    BY <1>3, <2>1 DEF vars, queueVars, QueuesListed
  <2>7. BlockedSigned' <=> BlockedSigned
    BY <1>3 DEF vars, procVars, BlockedSigned, SendsTo
  <2> QED
    BY <1>1, <1>3, <2>5, <2>6, <2>7 DEF RefinementInv, vars
<1> QED
  BY <1>2, <1>3

LEMMA InitImplements == Init => RefinementInv /\ Abstract!Start
<1> SUFFICES ASSUME Init PROVE RefinementInv /\ Abstract!Start
  OBVIOUS
<1>1. TypeOK /\ IpcInv
  BY InitTyped, InitEstablishesInv
<1>2. \A d \in Procs : <<>> \in Seq(Senders(d)) /\ Lists(<<>>, next_sending, q_sending[d])
  BY DEF Init, Lists
<1>3. \A d \in Procs : QueueOf(d) = <<>>
  BY <1>1, <1>2, QueueIs
<1>4. QueuesListed /\ BlockedSigned
  BY <1>2 DEF Init, QueuesListed, BlockedSigned, SendsTo
<1>5. \A d \in Procs : Inbox(d) = <<>>
  <2>1. \A d \in Procs : Inbox(d) \in Seq(Message) /\ Len(Inbox(d)) = Len(QueueOf(d))
    BY <1>1, <1>4, InboxFacts DEF RunningInv, InboxesRight
  <2>2. SUFFICES ASSUME NEW d \in Procs PROVE Inbox(d) = <<>>
    OBVIOUS
  <2>3. Len(QueueOf(d)) = 0
    BY <1>3, EmptySeq
  <2>4. PICK a : a = Inbox(d)
    OBVIOUS
  <2>5. a \in Seq(Message) /\ Len(a) = 0
    BY <2>1, <2>3, <2>4
  <2>6. a = <<>>
    BY ONLY <2>5, EmptySeq
  <2> QED
    BY <2>4, <2>6
<1>6. \A p \in Procs : WaitOf(p) = Abstract!Ready
  BY DEF Init, WaitOf, Abstract!Ready
<1>7. [p \in Procs |-> [b \in Bufs |-> mem[p][b]]] \in [Procs -> [Bufs -> Message]]
  BY <1>1 DEF TypeOK
<1>8. Abstract!Start
  BY <1>5, <1>6, <1>7 DEF Init, Abstract!Start
<1> QED
  BY <1>1, <1>4, <1>8 DEF RefinementInv

\* The linked lists, flags and copies of the kernel implement Rendezvous, for
\* every number of processes and whatever they call: messages arrive in the
\* order they were sent, each once, whole and signed.
THEOREM RendezvousImplemented == Spec => ImplementsRendezvous
<1>1. Init => RefinementInv /\ Abstract!Start
  BY InitImplements
<1>2. RefinementInv /\ [Next]_vars => RefinementInv' /\ [Abstract!Step]_Abstract!rendezvous
  BY StepImplements
<1> QED
  BY <1>1, <1>2, PTL DEF Spec, ImplementsRendezvous, Abstract!Spec
=============================================================================
