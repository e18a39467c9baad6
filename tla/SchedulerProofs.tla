-------------------------- MODULE SchedulerProofs --------------------------
(***************************************************************************)
(* Proofs about Scheduler.  The three invariants and the types are         *)
(* inductive together: the search ends with a choice that can run, and     *)
(* what the search has seen is what makes a refill right.                  *)
(***************************************************************************)
EXTENDS Scheduler, TLAPS

NothingFound == mode = "refill" => greatest_ticks = 0

SchedulerInv ==
    SchedulerTypeOK /\ CurrentCanRun /\ ChoiceIsGreatest /\ RefillWhenUsedUp /\ NothingFound

LEMMA SchedulerInitEstablishesInv ==
  ASSUME SchedulerInit
  PROVE  SchedulerInv
BY SchedulerAssumption
   DEF SchedulerInit, SchedulerInv, SchedulerTypeOK, CurrentCanRun, ChoiceIsGreatest,
       RefillWhenUsedUp, NothingFound, Pids, Mode

\* The types survive every step; for ticks - 1 that takes CurrentCanRun.
LEMMA SchedulerKeepsTypes ==
  ASSUME SchedulerInv, [SchedulerNext]_schedulerVars
  PROVE  SchedulerTypeOK'
<1> USE SchedulerAssumption
    DEF SchedulerInv, SchedulerTypeOK, Pids, Mode, Search, Restart, walkVars
<1>1. CASE clock_handler
  <2>1. ticks[p_current_process] - 1 \in Nat
    BY <1>1 DEF clock_handler, CurrentCanRun
  <2> QED
    BY <1>1, <2>1 DEF clock_handler
<1>2. CASE sys_call
  BY <1>2 DEF sys_call
<1>3. CASE CallReturns
  BY <1>3 DEF CallReturns
<1>4. CASE block
  <2>1. blocked' \subseteq Pids /\ mode' \in Mode /\ p' \in 0..NR_ALL /\ greatest_ticks' \in Nat
    BY <1>4 DEF block
  <2>2. UNCHANGED <<ticks, p_current_process>>
    BY <1>4 DEF block
  <2>3. interrupts' \in BOOLEAN
    BY <1>4, Zenon DEF block
  <2> QED
    BY <2>1, <2>2, <2>3
<1>5. CASE hd_handler
  BY <1>5 DEF hd_handler
<1>6. CASE SearchStep
  <2>1. p \in Pids /\ p' \in 0..NR_ALL /\ UNCHANGED <<blocked, ticks, mode, interrupts>>
    BY <1>6 DEF SearchStep
  <2>2. greatest_ticks' \in {ticks[p], greatest_ticks} /\ p_current_process' \in {p, p_current_process}
    BY <1>6 DEF SearchStep
  <2>3. greatest_ticks' \in Nat /\ p_current_process' \in Pids
    BY <2>1, <2>2
  <2> QED
    BY <2>1, <2>3
<1>7. CASE SearchEnds
  <2>1. CASE greatest_ticks > 0
    BY <1>7, <2>1 DEF SearchEnds
  <2>2. CASE ~(greatest_ticks > 0)
    BY <1>7, <2>2 DEF SearchEnds
  <2> QED
    BY <2>1, <2>2
<1>8. CASE RefillStep
  BY <1>8 DEF RefillStep
<1>9. CASE RefillEnds
  BY <1>9 DEF RefillEnds
<1>10. CASE UNCHANGED schedulerVars
  BY <1>10 DEF schedulerVars
<1> QED
  BY <1>1, <1>2, <1>3, <1>4, <1>5, <1>6, <1>7, <1>8, <1>9, <1>10
     DEF SchedulerNext, Call, schedule

\* Only the end of a search hands the processor to a process, and the
\* search's choice can run.
LEMMA SchedulerKeepsCurrent ==
  ASSUME SchedulerInv, [SchedulerNext]_schedulerVars
  PROVE  CurrentCanRun'
<1> USE SchedulerAssumption
    DEF SchedulerInv, SchedulerTypeOK, CurrentCanRun, Pids, Mode, Search, Restart, walkVars
<1>1. CASE clock_handler
  BY <1>1 DEF clock_handler
<1>2. CASE sys_call
  BY <1>2 DEF sys_call
<1>3. CASE CallReturns
  BY <1>3 DEF CallReturns
<1>4. CASE block
  BY <1>4 DEF block
<1>5. CASE hd_handler
  BY <1>5 DEF hd_handler
<1>6. CASE SearchStep
  BY <1>6 DEF SearchStep
<1>7. CASE SearchEnds
  BY <1>7 DEF SearchEnds, ChoiceIsGreatest
<1>8. CASE RefillStep
  BY <1>8 DEF RefillStep
<1>9. CASE RefillEnds
  BY <1>9 DEF RefillEnds
<1>10. CASE UNCHANGED schedulerVars
  BY <1>10 DEF schedulerVars
<1> QED
  BY <1>1, <1>2, <1>3, <1>4, <1>5, <1>6, <1>7, <1>8, <1>9, <1>10
     DEF SchedulerNext, Call, schedule

LEMMA SchedulerKeepsChoice ==
  ASSUME SchedulerInv, [SchedulerNext]_schedulerVars
  PROVE  ChoiceIsGreatest'
<1> USE SchedulerAssumption
    DEF SchedulerInv, SchedulerTypeOK, ChoiceIsGreatest, Pids, Mode, Search, Restart, walkVars
<1>1. CASE clock_handler
  BY <1>1 DEF clock_handler
<1>2. CASE sys_call
  BY <1>2 DEF sys_call
<1>3. CASE CallReturns
  BY <1>3 DEF CallReturns
<1>4. CASE block
  BY <1>4 DEF block
<1>5. CASE hd_handler
  BY <1>5 DEF hd_handler
<1>6. CASE SearchStep
  <2>1. p \in Pids /\ p' = p + 1 /\ UNCHANGED <<blocked, ticks, mode, interrupts>>
    BY <1>6 DEF SearchStep
  <2>2. CASE p \notin blocked /\ ticks[p] > greatest_ticks
    <3>1. greatest_ticks' = ticks[p] /\ p_current_process' = p
      BY <1>6, <2>2 DEF SearchStep
    <3>2. ASSUME NEW q \in 0..(p' - 1)
          PROVE  q \in blocked \/ ticks[q] <= ticks[p] \/ (q = TASK_HD /\ interrupts)
      <4>1. q \in 0..(p - 1) \/ q = p
        BY <2>1
      <4>2. mode = "search" /\ ticks[q] \in Nat /\ ticks[p] \in Nat /\ greatest_ticks \in Nat
        BY <1>6, <2>1, <4>1 DEF SearchStep
      <4>3. CASE q = p
        BY <4>2, <4>3
      <4>4. CASE q \in 0..(p - 1)
        <5>1. q \in blocked \/ ticks[q] <= greatest_ticks \/ (q = TASK_HD /\ interrupts)
          BY <4>2, <4>4
        <5>2. greatest_ticks < ticks[p]
          BY <2>2, <4>2
        <5>3. ticks[q] <= greatest_ticks => ticks[q] <= ticks[p]
          BY <4>2, <5>2
        <5> QED
          BY <5>1, <5>3
      <4> QED
        BY <4>1, <4>3, <4>4
    <3> QED
      BY <2>1, <2>2, <3>1, <3>2
  <2>3. CASE ~(p \notin blocked /\ ticks[p] > greatest_ticks)
    <3>1. UNCHANGED <<greatest_ticks, p_current_process>>
      BY <1>6, <2>3 DEF SearchStep
    <3>2. ASSUME NEW q \in 0..(p' - 1)
          PROVE  q \in blocked \/ ticks[q] <= greatest_ticks \/ (q = TASK_HD /\ interrupts)
      <4>1. q \in 0..(p - 1) \/ q = p
        BY <2>1
      <4>2. mode = "search" /\ ticks[p] \in Nat /\ greatest_ticks \in Nat
        BY <1>6, <2>1 DEF SearchStep
      <4>3. CASE q = p
        BY <2>3, <4>2, <4>3
      <4>4. CASE q \in 0..(p - 1)
        BY <4>2, <4>4
      <4> QED
        BY <4>1, <4>3, <4>4
    <3> QED
      BY <2>1, <3>1, <3>2
  <2> QED
    BY <2>2, <2>3
<1>7. CASE SearchEnds
  BY <1>7 DEF SearchEnds
<1>8. CASE RefillStep
  BY <1>8 DEF RefillStep
<1>9. CASE RefillEnds
  BY <1>9 DEF RefillEnds, NothingFound
<1>10. CASE UNCHANGED schedulerVars
  BY <1>10 DEF schedulerVars
<1> QED
  BY <1>1, <1>2, <1>3, <1>4, <1>5, <1>6, <1>7, <1>8, <1>9, <1>10
     DEF SchedulerNext, Call, schedule

\* A refill begins when a search has found nobody with ticks left.
LEMMA SchedulerKeepsRefill ==
  ASSUME SchedulerInv, [SchedulerNext]_schedulerVars
  PROVE  (RefillWhenUsedUp /\ NothingFound)'
<1> USE SchedulerAssumption
    DEF SchedulerInv, SchedulerTypeOK, RefillWhenUsedUp, NothingFound, Pids, Mode, Search,
        Restart, walkVars
<1>1. CASE clock_handler
  BY <1>1 DEF clock_handler
<1>2. CASE sys_call
  BY <1>2 DEF sys_call
<1>3. CASE CallReturns
  BY <1>3 DEF CallReturns
<1>4. CASE block
  BY <1>4 DEF block
<1>5. CASE hd_handler
  BY <1>5 DEF hd_handler
<1>6. CASE SearchStep
  BY <1>6 DEF SearchStep
<1>7. CASE SearchEnds
  BY <1>7 DEF SearchEnds, ChoiceIsGreatest
<1>8. CASE RefillStep
  BY <1>8 DEF RefillStep
<1>9. CASE RefillEnds
  BY <1>9 DEF RefillEnds
<1>10. CASE UNCHANGED schedulerVars
  BY <1>10 DEF schedulerVars
<1> QED
  BY <1>1, <1>2, <1>3, <1>4, <1>5, <1>6, <1>7, <1>8, <1>9, <1>10
     DEF SchedulerNext, Call, schedule

LEMMA SchedulerInvariant == SchedulerSpec => []SchedulerInv
<1>1. SchedulerInit => SchedulerInv
  BY SchedulerInitEstablishesInv
<1>2. SchedulerInv /\ [SchedulerNext]_schedulerVars => SchedulerInv'
  BY SchedulerKeepsTypes, SchedulerKeepsCurrent, SchedulerKeepsChoice, SchedulerKeepsRefill
     DEF SchedulerInv
<1> QED
  BY <1>1, <1>2, PTL DEF SchedulerSpec

\* The types hold in every state; no share falls below 0.
THEOREM SchedulerTypeCorrect == SchedulerSpec => []SchedulerTypeOK
<1>1. SchedulerInv => SchedulerTypeOK
  BY DEF SchedulerInv
<1> QED
  BY <1>1, SchedulerInvariant, PTL

\* For any process table and priorities: the process whose code runs is never
\* a blocked one, and the clock never takes its ticks below 0.
THEOREM CurrentAlwaysRunnable == SchedulerSpec => []CurrentCanRun
<1>1. SchedulerInv => CurrentCanRun
  BY DEF SchedulerInv
<1> QED
  BY <1>1, SchedulerInvariant, PTL

\* For any process table and priorities: schedule() picks a process with the
\* most ticks of those that could run when it passed them, and hands out new
\* shares only when all of them are used up.
THEOREM SharesRespected == SchedulerSpec => []SharesKept
<1>1. SchedulerInv => SharesKept
  BY DEF SchedulerInv, SharesKept
<1> QED
  BY <1>1, SchedulerInvariant, PTL
=============================================================================
