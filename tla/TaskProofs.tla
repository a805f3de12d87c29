----------------------------- MODULE TaskProofs -----------------------------
(***************************************************************************)
(* Proofs about tasks: the safety of the scheduler, module Sched, for      *)
(* every set of tasks, every set of sleep durations and every horizon of   *)
(* the clock; and of the receive task with the input queue, module         *)
(* InputQueue, for every queue size, retry limit and number of packets,    *)
(* and that the queue implements the bounded FIFO.                         *)
(***************************************************************************)
EXTENDS SchedProps, InputQueueProps, Integers, SequenceTheorems, TLAPS

-----------------------------------------------------------------------------
(***************************************************************************)
(* The scheduler.                                                          *)
(***************************************************************************)
\* The main task sleeps or runs; it is never created nor gone.
MainAlive == pc[Main] \in {"running", "searching", "asleep"}

IInv ==
  /\ TypeOK
  /\ ListIsWaiting
  /\ OneTaskExecutes
  /\ MainAlive
  /\ SortedByWakeTime

-----------------------------------------------------------------------------
\* A task polls only if somebody is in the list: itself, or the main task.
LEMMA SomebodyWaits ==
  ASSUME IInv, pc[current] \in {"searching", "finishing"}
  PROVE  sleepList # << >>
<1> USE DEF IInv
<1>1. CASE pc[current] = "searching"
  <2>1. current \in Listed
    BY <1>1 DEF ListIsWaiting, Waiting, TypeOK
  <2> QED BY <2>1 DEF Listed
<1>2. CASE pc[current] = "finishing"
  <2>1. Main # current
    BY <1>2 DEF MainAlive
  <2>2. pc[Main] = "asleep"
    BY <2>1, MainAssumption DEF MainAlive, OneTaskExecutes
  <2>3. Main \in Listed
    BY <2>2, MainAssumption DEF ListIsWaiting, Waiting
  <2> QED BY <2>3 DEF Listed
<1> QED BY <1>1, <1>2

\* What sched_poll_sleeping returns: a waiting task with the least wake time.
LEMMA HeadOfList ==
  ASSUME IInv, sleepList # << >>
  PROVE  /\ Head(sleepList) \in Task
         /\ Waiting(Head(sleepList))
         /\ \A u \in Task : Waiting(u) => wakeTime[Head(sleepList)] <= wakeTime[u]
<1> USE DEF IInv
<1>1. Len(sleepList) \in Nat /\ 1 \in 1 .. Len(sleepList) /\ Head(sleepList) = sleepList[1]
  BY DEF TypeOK
<1>2. Head(sleepList) \in Listed /\ Head(sleepList) \in Task
  BY <1>1 DEF Listed, TypeOK
<1>3. ASSUME NEW u \in Task, Waiting(u)
      PROVE  wakeTime[Head(sleepList)] <= wakeTime[u]
  <2>1. PICK i \in 1 .. Len(sleepList) : sleepList[i] = u
    BY <1>3 DEF ListIsWaiting, Listed
  <2> QED BY <1>1, <2>1 DEF SortedByWakeTime
<1> QED BY <1>2, <1>3 DEF ListIsWaiting

LEMMA InitInv == Init => IInv
<1> SUFFICES ASSUME Init PROVE IInv
  OBVIOUS
<1>1. TypeOK
  BY MainAssumption DEF Init, TypeOK, TaskState
<1> QED
  BY <1>1, MainAssumption
  DEF Init, IInv, ListIsWaiting, OneTaskExecutes, MainAlive, SortedByWakeTime,
      Listed, Waiting

\* Putting a task that is not waiting into the list.
LEMMA AddSleepingInv ==
  ASSUME IInv, NEW t \in Task, NEW time \in Nat, AddSleeping(t, time),
         ~Waiting(t)
  PROVE  /\ sleepList' \in Seq(Task)
         /\ wakeTime' \in [Task -> Nat]
         /\ Listed' = Listed \cup {t}
         /\ \A i, j \in 1 .. Len(sleepList') :
              sleepList'[i] = sleepList'[j] => i = j
         /\ SortedByWakeTime'
<1> USE DEF IInv
<1> DEFINE n == Len(sleepList)
<1>1. PICK p \in 1 .. n + 1 :
        /\ InsertPosition(time, p)
        /\ sleepList' = [j \in 1 .. n + 1 |->
                           IF j < p THEN sleepList[j]
                           ELSE IF j = p THEN t ELSE sleepList[j - 1]]
  BY DEF AddSleeping
<1>2. n \in Nat /\ sleepList \in [1 .. n -> Task] /\ wakeTime \in [Task -> Nat]
  BY DEF TypeOK
<1>3. wakeTime' = [wakeTime EXCEPT ![t] = time] /\ wakeTime' \in [Task -> Nat]
  BY <1>2 DEF AddSleeping
<1>4. sleepList' \in [1 .. n + 1 -> Task]
  BY <1>1, <1>2
<1>5. sleepList' \in Seq(Task) /\ Len(sleepList') = n + 1
  BY <1>2, <1>4
<1>6. \A j \in 1 .. n + 1 :
        /\ j < p => j \in 1 .. n /\ sleepList'[j] = sleepList[j]
        /\ j = p => sleepList'[j] = t
        /\ j > p => j - 1 \in 1 .. n /\ sleepList'[j] = sleepList[j - 1]
  BY <1>1, <1>2
<1>7. \A j \in 1 .. n : sleepList[j] \in Task /\ sleepList[j] # t
  BY <1>2 DEF ListIsWaiting, Listed
<1>8. Listed' = Listed \cup {t}
  <2>1. ASSUME NEW j \in 1 .. n + 1 PROVE sleepList'[j] \in Listed \cup {t}
    BY <1>2, <1>6 DEF Listed
  <2>2. ASSUME NEW j \in 1 .. n
        PROVE  \E k \in 1 .. n + 1 : sleepList'[k] = sleepList[j]
    <3>1. CASE j < p
      BY <1>2, <1>6, <3>1
    <3>2. CASE j >= p
      <4>1. j + 1 \in 1 .. n + 1 /\ j + 1 > p /\ (j + 1) - 1 = j
        BY <1>2, <3>2
      <4>2. sleepList'[j + 1] = sleepList[j]
        BY <1>6, <4>1
      <4> QED BY <4>1, <4>2
    <3> QED BY <1>2, <3>1, <3>2
  <2>3. sleepList'[p] = t
    BY <1>6
  <2>4. Listed' = {sleepList'[i] : i \in 1 .. n + 1}
    BY <1>5 DEF Listed
  <2> QED BY <2>1, <2>2, <2>3, <2>4 DEF Listed
<1>9. ASSUME NEW i \in 1 .. n + 1, NEW j \in 1 .. n + 1, sleepList'[i] = sleepList'[j]
      PROVE  i = j
  <2>1. \A a, b \in 1 .. n : sleepList[a] = sleepList[b] => a = b
    BY DEF ListIsWaiting
  <2> QED BY <1>2, <1>6, <1>7, <1>9, <2>1
<1>10. ASSUME NEW i \in 1 .. n + 1, NEW j \in 1 .. n + 1, i <= j
       PROVE  wakeTime'[sleepList'[i]] <= wakeTime'[sleepList'[j]]
  <2>1. \A a \in 1 .. n : wakeTime'[sleepList[a]] = wakeTime[sleepList[a]]
    BY <1>2, <1>3, <1>7
  <2>2. \A a, b \in 1 .. n : a <= b => wakeTime[sleepList[a]] <= wakeTime[sleepList[b]]
    BY DEF SortedByWakeTime
  <2>3. wakeTime'[t] = time
    BY <1>2, <1>3
  <2>4. \A a \in 1 .. n : a < p => wakeTime[sleepList[a]] <= time
    BY <1>1, <1>2 DEF InsertPosition
  <2>5. \A a \in 1 .. n : a >= p => time <= wakeTime[sleepList[a]]
    <3> SUFFICES ASSUME NEW a \in 1 .. n, a >= p
                 PROVE  time <= wakeTime[sleepList[a]]
      OBVIOUS
    <3>1. p \in 1 .. n /\ wakeTime[sleepList[p]] > time
      BY <1>1, <1>2 DEF InsertPosition
    <3>2. wakeTime[sleepList[p]] <= wakeTime[sleepList[a]]
      BY <2>2, <3>1
    <3>3. wakeTime[sleepList[p]] \in Nat /\ wakeTime[sleepList[a]] \in Nat
      BY <1>2, <3>1
    <3> QED BY <3>1, <3>2, <3>3
  <2>6. \A a \in 1 .. n : wakeTime[sleepList[a]] \in Nat
    BY <1>2
  <2>7. CASE i < p /\ j > p
    <3>1. i \in 1 .. n /\ j - 1 \in 1 .. n /\ i <= j - 1
      BY <1>2, <2>7
    <3>2. sleepList'[i] = sleepList[i] /\ sleepList'[j] = sleepList[j - 1]
      BY <1>6, <2>7, <3>1
    <3>3. wakeTime[sleepList[i]] <= wakeTime[sleepList[j - 1]]
      BY <2>2, <3>1
    <3> QED BY <2>1, <3>1, <3>2, <3>3
  <2>8. CASE i > p
    <3>1. i - 1 \in 1 .. n /\ j - 1 \in 1 .. n /\ i - 1 <= j - 1 /\ j > p
      BY <1>2, <1>10, <2>8
    <3>2. sleepList'[i] = sleepList[i - 1] /\ sleepList'[j] = sleepList[j - 1]
      BY <1>6, <2>8, <3>1
    <3>3. wakeTime[sleepList[i - 1]] <= wakeTime[sleepList[j - 1]]
      BY <2>2, <3>1
    <3> QED BY <2>1, <3>1, <3>2, <3>3
  <2>9. CASE i < p /\ j <= p
    <3>1. i \in 1 .. n /\ sleepList'[i] = sleepList[i]
      BY <1>6, <2>9
    <3>2. CASE j = p
      BY <1>6, <2>1, <2>3, <2>4, <2>9, <3>1, <3>2
    <3>3. CASE j < p
      <4>1. j \in 1 .. n /\ sleepList'[j] = sleepList[j]
        BY <1>6, <3>3
      <4> QED BY <1>10, <2>1, <2>2, <3>1, <4>1
    <3> QED BY <1>2, <2>9, <3>2, <3>3
  <2>10. CASE i = p /\ j > p
    <3>1. j - 1 \in 1 .. n /\ j - 1 >= p
      BY <1>2, <2>10
    <3>2. sleepList'[i] = t /\ sleepList'[j] = sleepList[j - 1]
      BY <1>6, <2>10, <3>1
    <3>3. time <= wakeTime[sleepList[j - 1]]
      BY <2>5, <3>1
    <3> QED BY <2>1, <2>3, <3>1, <3>2, <3>3
  <2>11. CASE i = p /\ j = p
    BY <1>2, <1>6, <2>3, <2>11
  <2> QED BY <1>2, <1>10, <2>7, <2>8, <2>9, <2>10, <2>11
<1>11. SortedByWakeTime'
  BY <1>5, <1>10 DEF SortedByWakeTime
<1> QED BY <1>3, <1>5, <1>8, <1>9, <1>11

\* Taking the head out of the list.
LEMMA RemoveHead ==
  ASSUME IInv, sleepList # << >>, sleepList' = Tail(sleepList),
         wakeTime' = wakeTime
  PROVE  /\ sleepList' \in Seq(Task)
         /\ Listed' = Listed \ {Head(sleepList)}
         /\ \A i, j \in 1 .. Len(sleepList') :
              sleepList'[i] = sleepList'[j] => i = j
         /\ SortedByWakeTime'
<1> USE DEF IInv
<1> DEFINE n == Len(sleepList)
<1>1. n \in Nat /\ n >= 1 /\ sleepList \in Seq(Task) /\ Head(sleepList) = sleepList[1]
  BY DEF TypeOK
<1>2. /\ sleepList' \in Seq(Task) /\ Len(sleepList') = n - 1
      /\ \A i \in 1 .. n - 1 : sleepList'[i] = sleepList[i + 1] /\ i + 1 \in 1 .. n
  BY <1>1
<1>3. \A i, j \in 1 .. n : sleepList[i] = sleepList[j] => i = j
  BY DEF ListIsWaiting
<1>4. \A i, j \in 1 .. n - 1 : sleepList'[i] = sleepList'[j] => i = j
  <2> SUFFICES ASSUME NEW i \in 1 .. n - 1, NEW j \in 1 .. n - 1,
                      sleepList'[i] = sleepList'[j]
               PROVE  i = j
    OBVIOUS
  <2>1. sleepList[i + 1] = sleepList[j + 1] /\ i + 1 \in 1 .. n /\ j + 1 \in 1 .. n
    BY <1>2
  <2>2. i + 1 = j + 1
    BY <1>3, <2>1
  <2> QED BY <1>1, <2>2
<1>5. Listed' = {sleepList'[i] : i \in 1 .. n - 1}
  BY <1>2 DEF Listed
<1>6. Listed' = Listed \ {Head(sleepList)}
  <2>1. ASSUME NEW i \in 1 .. n - 1
        PROVE  sleepList'[i] \in Listed /\ sleepList'[i] # sleepList[1]
    <3>1. sleepList'[i] = sleepList[i + 1] /\ i + 1 \in 1 .. n /\ i + 1 # 1 /\ 1 \in 1 .. n
      BY <1>1, <1>2
    <3> QED BY <1>3, <3>1 DEF Listed
  <2>2. ASSUME NEW i \in 1 .. n, i # 1
        PROVE  sleepList[i] \in Listed'
    <3>1. i - 1 \in 1 .. n - 1 /\ (i - 1) + 1 = i
      BY <1>1, <2>2
    <3>2. sleepList'[i - 1] = sleepList[i]
      BY <1>2, <3>1
    <3> QED BY <1>5, <3>1, <3>2
  <2>3. ASSUME NEW i \in 1 .. n, sleepList[i] # sleepList[1]
        PROVE  sleepList[i] \in Listed'
    BY <2>2, <2>3
  <2> QED BY <1>1, <1>5, <2>1, <2>3 DEF Listed
<1>7. SortedByWakeTime'
  <2> SUFFICES ASSUME NEW i \in 1 .. n - 1, NEW j \in 1 .. n - 1, i <= j
               PROVE  wakeTime[sleepList'[i]] <= wakeTime[sleepList'[j]]
    BY <1>2 DEF SortedByWakeTime
  <2>1. i + 1 \in 1 .. n /\ j + 1 \in 1 .. n /\ i + 1 <= j + 1
    BY <1>1
  <2> QED BY <1>2, <2>1 DEF SortedByWakeTime
<1> QED BY <1>2, <1>4, <1>6, <1>7

-----------------------------------------------------------------------------
LEMMA CreateTaskInv ==
  ASSUME IInv, NEW t \in Task, CreateTask(t)
  PROVE  IInv'
<1> USE DEF IInv
<1>1. /\ pc[t] = "unborn" /\ pc \in [Task -> TaskState]
      /\ pc' = [pc EXCEPT ![t] = "created"]
      /\ t # current /\ current' = current /\ now' = now
      /\ pc[current] = "running"
  BY DEF CreateTask, TypeOK
<1>2. ~Waiting(t) /\ AddSleeping(t, 0)
  BY <1>1 DEF CreateTask, Waiting
<1>3. /\ sleepList' \in Seq(Task) /\ wakeTime' \in [Task -> Nat]
      /\ Listed' = Listed \cup {t}
      /\ \A i, j \in 1 .. Len(sleepList') :
           sleepList'[i] = sleepList'[j] => i = j
      /\ SortedByWakeTime'
  BY <1>2, AddSleepingInv
<1>4. TypeOK'
  BY <1>1, <1>3 DEF TypeOK, TaskState
<1>5. \A u \in Task : Waiting(u)' <=> Waiting(u) \/ u = t
  BY <1>1 DEF Waiting
<1>6. ListIsWaiting'
  BY <1>3, <1>5 DEF ListIsWaiting
<1>7. OneTaskExecutes' /\ MainAlive'
  BY <1>1, MainAssumption DEF OneTaskExecutes, MainAlive
<1> QED BY <1>3, <1>4, <1>6, <1>7

LEMMA BeginSleepInv ==
  ASSUME IInv, NEW d \in Durations, BeginSleep(d)
  PROVE  IInv'
<1> USE DEF IInv
<1>1. /\ pc[current] = "running" /\ pc \in [Task -> TaskState]
      /\ pc' = [pc EXCEPT ![current] = "searching"]
      /\ current \in Task /\ current' = current /\ now' = now
  BY DEF BeginSleep, TypeOK
<1>2. ~Waiting(current) /\ AddSleeping(current, now + d) /\ now + d \in Nat
  BY <1>1, DurationsAssumption DEF BeginSleep, Waiting, TypeOK
<1>3. /\ sleepList' \in Seq(Task) /\ wakeTime' \in [Task -> Nat]
      /\ Listed' = Listed \cup {current}
      /\ \A i, j \in 1 .. Len(sleepList') :
           sleepList'[i] = sleepList'[j] => i = j
      /\ SortedByWakeTime'
  BY <1>1, <1>2, AddSleepingInv
<1>4. TypeOK'
  BY <1>1, <1>3 DEF TypeOK, TaskState
<1>5. \A u \in Task : Waiting(u)' <=> Waiting(u) \/ u = current
  BY <1>1 DEF Waiting
<1>6. ListIsWaiting'
  BY <1>3, <1>5 DEF ListIsWaiting
<1>7. OneTaskExecutes' /\ MainAlive'
  BY <1>1, MainAssumption DEF OneTaskExecutes, MainAlive
<1> QED BY <1>3, <1>4, <1>6, <1>7

LEMMA ResumeInv ==
  ASSUME IInv, Resume
  PROVE  IInv'
<1> USE DEF IInv
<1> DEFINE next == Head(sleepList)
<1>1. /\ pc[current] = "searching" /\ sleepList' = Tail(sleepList)
      /\ current' = next /\ wakeTime' = wakeTime /\ now' = now
      /\ pc' = [pc EXCEPT ![current] = "asleep", ![next] = "running"]
  BY DEF Resume
<1>2. sleepList # << >>
  BY <1>1, SomebodyWaits
<1>3. next \in Task /\ Waiting(next) /\ current \in Task /\ pc \in [Task -> TaskState]
  BY <1>2, HeadOfList DEF TypeOK
<1>4. /\ sleepList' \in Seq(Task)
      /\ Listed' = Listed \ {next}
      /\ \A i, j \in 1 .. Len(sleepList') :
           sleepList'[i] = sleepList'[j] => i = j
      /\ SortedByWakeTime'
  BY <1>1, <1>2, RemoveHead
<1>5. TypeOK'
  BY <1>1, <1>3, <1>4 DEF TypeOK, TaskState
<1>6. \A u \in Task : pc'[u] = IF u = next THEN "running"
                               ELSE IF u = current THEN "asleep" ELSE pc[u]
  BY <1>1, <1>3
<1>7. \A u \in Task : Waiting(u)' <=> Waiting(u) /\ u # next
  BY <1>1, <1>3, <1>6 DEF Waiting
<1>8. ListIsWaiting'
  BY <1>4, <1>7 DEF ListIsWaiting
<1>9. OneTaskExecutes'
  BY <1>1, <1>3, <1>6 DEF OneTaskExecutes
<1>10. MainAlive'
  BY <1>3, <1>6, MainAssumption DEF MainAlive
<1> QED BY <1>4, <1>5, <1>8, <1>9, <1>10

LEMMA FinalSwitchInv ==
  ASSUME IInv, FinalSwitch
  PROVE  IInv'
<1> USE DEF IInv
<1> DEFINE next == Head(sleepList)
<1>1. /\ pc[current] = "finishing" /\ sleepList' = Tail(sleepList)
      /\ current' = next /\ wakeTime' = wakeTime /\ now' = now
      /\ pc' = [pc EXCEPT ![current] = "gone", ![next] = "running"]
  BY DEF FinalSwitch
<1>2. sleepList # << >>
  BY <1>1, SomebodyWaits
<1>3. next \in Task /\ Waiting(next) /\ current \in Task /\ pc \in [Task -> TaskState]
  BY <1>2, HeadOfList DEF TypeOK
<1>4. /\ sleepList' \in Seq(Task)
      /\ Listed' = Listed \ {next}
      /\ \A i, j \in 1 .. Len(sleepList') :
           sleepList'[i] = sleepList'[j] => i = j
      /\ SortedByWakeTime'
  BY <1>1, <1>2, RemoveHead
<1>5. TypeOK'
  BY <1>1, <1>3, <1>4 DEF TypeOK, TaskState
<1>6. \A u \in Task : pc'[u] = IF u = next THEN "running"
                               ELSE IF u = current THEN "gone" ELSE pc[u]
  BY <1>1, <1>3
<1>7. \A u \in Task : Waiting(u)' <=> Waiting(u) /\ u # next
  BY <1>1, <1>3, <1>6 DEF Waiting
<1>8. ListIsWaiting'
  BY <1>4, <1>7 DEF ListIsWaiting
<1>9. OneTaskExecutes'
  BY <1>1, <1>3, <1>6 DEF OneTaskExecutes
<1>10. MainAlive'
  BY <1>1, <1>3, <1>6, MainAssumption DEF MainAlive
<1> QED BY <1>4, <1>5, <1>8, <1>9, <1>10

LEMMA NextInv == IInv /\ [Next]_vars => IInv'
<1> SUFFICES ASSUME IInv, [Next]_vars PROVE IInv'
  OBVIOUS
<1>1. CASE Tick
  BY <1>1 DEF Tick, IInv, TypeOK, ListIsWaiting, OneTaskExecutes, MainAlive,
              SortedByWakeTime, Listed, Waiting
<1>2. ASSUME NEW t \in Task, CreateTask(t) PROVE IInv'
  BY <1>2, CreateTaskInv
<1>3. ASSUME NEW d \in Durations, BeginSleep(d) PROVE IInv'
  BY <1>3, BeginSleepInv
<1>4. CASE Resume
  BY <1>4, ResumeInv
<1>5. CASE Finish
  <2> USE <1>5 DEF Finish, IInv
  <2>1. TypeOK'
    BY DEF TypeOK, TaskState
  <2>2. \A u \in Task : Waiting(u)' <=> Waiting(u)
    BY DEF TypeOK, Waiting
  <2>3. ListIsWaiting' /\ SortedByWakeTime'
    BY <2>2 DEF ListIsWaiting, SortedByWakeTime, Listed
  <2>4. OneTaskExecutes' /\ MainAlive'
    BY MainAssumption DEF TypeOK, OneTaskExecutes, MainAlive
  <2> QED BY <2>1, <2>3, <2>4
<1>6. CASE FinalSwitch
  BY <1>6, FinalSwitchInv
<1>7. CASE UNCHANGED vars
  BY <1>7 DEF vars, IInv, TypeOK, ListIsWaiting, OneTaskExecutes, MainAlive,
              SortedByWakeTime, Listed, Waiting
<1> QED BY <1>1, <1>2, <1>3, <1>4, <1>5, <1>6, <1>7 DEF Next

LEMMA Invariance == Spec => []IInv
BY InitInv, NextInv, PTL DEF Spec

-----------------------------------------------------------------------------
\* The sleep list is exactly the set of waiting tasks, in order of wake time,
\* and a single task executes.
THEOREM SleepListAlwaysCorrect == Spec => []SleepListCorrect
<1>1. IInv => SleepListCorrect
  BY DEF IInv, SleepListCorrect
<1> QED BY <1>1, Invariance, PTL

\* No task ever reads the head of an empty sleep list: because the main task
\* cannot finish, it is there whenever nobody else is.
THEOREM PollsNonEmptyList == Spec => []NeverPollsEmptyList
<1>1. IInv => NeverPollsEmptyList
  BY SomebodyWaits DEF NeverPollsEmptyList
<1> QED BY <1>1, Invariance, PTL

\* What a step that lets a waiting task run looks like.
LEMMA WakingStep ==
  ASSUME IInv, [Next]_vars, NEW t \in Task, Waiting(t), pc'[t] = "running"
  PROVE  /\ t = Head(sleepList) /\ Due /\ sleepList # << >>
<1> USE DEF IInv
<1>1. pc \in [Task -> TaskState] /\ pc[t] \in {"created", "searching", "asleep"}
  BY DEF TypeOK, Waiting
<1>2. CASE Resume
  <2>1. sleepList # << >>
    BY <1>2, SomebodyWaits DEF Resume
  <2>2. pc'[t] = "running" => t = Head(sleepList)
    BY <1>1, <1>2 DEF Resume
  <2> QED BY <1>2, <2>1, <2>2 DEF Resume
<1>3. CASE FinalSwitch
  <2>1. sleepList # << >>
    BY <1>3, SomebodyWaits DEF FinalSwitch
  <2>2. pc'[t] = "running" => t = Head(sleepList)
    BY <1>1, <1>3 DEF FinalSwitch
  <2> QED BY <1>3, <2>1, <2>2 DEF FinalSwitch
<1> QED
  BY <1>1, <1>2, <1>3
  DEF Next, Tick, CreateTask, BeginSleep, Finish, vars

\* sleep_ms never returns early.
THEOREM SleepsLongEnough == Spec => NoPrematureWake
<1>1. IInv /\ [Next]_vars =>
        \A t \in Task : Waiting(t) /\ pc'[t] = "running" => now >= wakeTime[t]
  BY WakingStep DEF Due
<1> QED BY <1>1, Invariance, PTL DEF Spec, NoPrematureWake

\* The task that runs next has the earliest wake time of all that wait.
THEOREM RunsEarliestFirst == Spec => EarliestFirst
<1>1. IInv /\ [Next]_vars =>
        \A t, u \in Task : Waiting(t) /\ pc'[t] = "running" /\ Waiting(u)
                            => wakeTime[t] <= wakeTime[u]
  BY WakingStep, HeadOfList
<1> QED BY <1>1, Invariance, PTL DEF Spec, EarliestFirst

\* Both together: a task wakes neither early nor before one that is due earlier.
THEOREM WakingIsInOrder == Spec => WakesInOrder
BY SleepsLongEnough, RunsEarliestFirst, PTL DEF WakesInOrder

-----------------------------------------------------------------------------
(***************************************************************************)
(* The receive task and the input queue.                                   *)
(***************************************************************************)
USE DEF Slots, NoPacket, Packet

\* The inductive invariant: the checked invariants, and that an empty queue
\* has no attempts on the books for the packet that arrives next.
QInv ==
  /\ QTypeOK
  /\ HoldsTail
  /\ QueueContents
  /\ FailureCounts
  /\ RetryBudget
  /\ Empty => attempts = 0

-----------------------------------------------------------------------------
\* The index k places further on in a ring of N: no modulo is needed.
LEMMA Wrap ==
  ASSUME NEW N \in Nat \ {0}, NEW i \in 0 .. N - 1, NEW k \in Nat, k <= N
  PROVE  (i + k) % N = IF i + k < N THEN i + k ELSE i + k - N
<1>1. CASE i + k < N
  BY <1>1
<1>2. CASE ~(i + k < N)
  BY <1>2
<1> QED BY <1>1, <1>2

\* NextSlot steps through the slots and wraps after the last one.
LEMMA NextSlotWraps ==
  ASSUME NEW i \in Slots
  PROVE  /\ NextSlot(i) \in Slots
         /\ NextSlot(i) = IF i + 1 = QueueSize THEN 0 ELSE i + 1
<1>1. QueueSize \in Nat \ {0} /\ 1 \in Nat /\ 1 <= QueueSize
  BY QueueSizeAssumption
<1>2. (i + 1) % QueueSize
        = IF i + 1 < QueueSize THEN i + 1 ELSE i + 1 - QueueSize
  BY <1>1, Wrap
<1> QED BY <1>1, <1>2 DEF NextSlot

\* SlotOf for every position a packet can have.
LEMMA SlotOfWraps ==
  ASSUME QTypeOK, NEW k \in Slots
  PROVE  /\ SlotOf(k) \in Slots
         /\ SlotOf(k) = IF tail + k < QueueSize THEN tail + k
                        ELSE tail + k - QueueSize
<1>1. /\ QueueSize \in Nat \ {0} /\ tail \in 0 .. QueueSize - 1
      /\ k \in Nat /\ k <= QueueSize
  BY QueueSizeAssumption DEF QTypeOK
<1>2. SlotOf(k) = IF tail + k < QueueSize THEN tail + k
                  ELSE tail + k - QueueSize
  BY <1>1, Wrap DEF SlotOf
<1> QED BY <1>1, <1>2

\* Never more packets than the ring holds, and none only if it is empty.
LEMMA CountBounds ==
  ASSUME QTypeOK
  PROVE  /\ Count \in 0 .. QueueSize - 1
         /\ Empty <=> Count = 0
BY QueueSizeAssumption DEF QTypeOK, Count, Empty

\* A new packet goes to the first slot behind the packets in the queue.
LEMMA AddPacketEffect ==
  ASSUME QTypeOK, AddPacket, tail' = tail
  PROVE  /\ Count' = Count + 1
         /\ Count < QueueSize - 1
         /\ head = SlotOf(Count)
         /\ head' \in Slots
         /\ \A k \in Slots : SlotOf(k)' = SlotOf(k)
         /\ \A k \in 0 .. Count - 1 : SlotOf(k) # head
<1>1. head \in Slots /\ tail \in Slots
  BY DEF QTypeOK
<1>2. Count \in Slots
  BY CountBounds
<1>3. head' = (IF head + 1 = QueueSize THEN 0 ELSE head + 1) /\ head' \in Slots
  BY <1>1, NextSlotWraps DEF AddPacket
<1>4. NextSlot(head) # tail
  BY DEF AddPacket, Full
<1>5. Count' = Count + 1
  BY <1>1, <1>3, <1>4, NextSlotWraps, QueueSizeAssumption DEF Count, AddPacket
<1>6. Count < QueueSize - 1
  BY <1>1, <1>4, NextSlotWraps, QueueSizeAssumption DEF Count
<1>7. head = SlotOf(Count)
  BY <1>1, <1>2, SlotOfWraps, QueueSizeAssumption DEF Count
<1>8. ASSUME NEW k \in 0 .. Count - 1
      PROVE  SlotOf(k) # head
  BY <1>1, <1>2, SlotOfWraps, QueueSizeAssumption DEF Count
<1> QED BY <1>3, <1>5, <1>6, <1>7, <1>8 DEF SlotOf

\* Releasing a packet moves every other packet one position forward.
LEMMA ReleaseEffect ==
  ASSUME QTypeOK, ~Empty, Release
  PROVE  /\ Count' = Count - 1
         /\ tail' \in Slots
         /\ \A k \in 0 .. Count - 2 : SlotOf(k)' = SlotOf(k + 1)
<1>1. head \in Slots /\ tail \in Slots /\ head # tail /\ head' = head
  BY DEF QTypeOK, Empty, Release
<1>2. tail' = (IF tail + 1 = QueueSize THEN 0 ELSE tail + 1) /\ tail' \in Slots
  BY <1>1, NextSlotWraps DEF Release
<1>3. Count' = Count - 1
  BY <1>1, <1>2, QueueSizeAssumption DEF Count
<1>4. ASSUME NEW k \in 0 .. Count - 2
      PROVE  SlotOf(k)' = SlotOf(k + 1)
  <2>1. /\ k \in Slots /\ k + 1 \in Slots
        /\ k \in Nat /\ k <= QueueSize /\ QueueSize \in Nat \ {0}
    BY CountBounds, QueueSizeAssumption
  <2>2. SlotOf(k + 1) = IF tail + (k + 1) < QueueSize THEN tail + (k + 1)
                        ELSE tail + (k + 1) - QueueSize
    BY <2>1, SlotOfWraps
  <2>3. (tail' + k) % QueueSize = IF tail' + k < QueueSize THEN tail' + k
                                  ELSE tail' + k - QueueSize
    BY <1>2, <2>1, Wrap, QueueSizeAssumption
  <2> QED
    BY <1>1, <1>2, <2>1, <2>2, <2>3, QueueSizeAssumption DEF SlotOf
<1> QED BY <1>2, <1>3, <1>4

-----------------------------------------------------------------------------
LEMMA QInitInv == QInit => QInv
<1> SUFFICES ASSUME QInit PROVE QInv
  OBVIOUS
<1>1. Count = 0
  BY DEF QInit, Count
<1>2. QTypeOK
  BY QueueSizeAssumption DEF QInit, QTypeOK
<1> QED
  BY <1>1, <1>2, MaxFailedAssumption
  DEF QInit, QInv, HoldsTail, QueueContents, FailureCounts, RetryBudget, Empty

\* An arriving packet disturbs neither the packets in the queue nor the task.
LEMMA ReceiveInv ==
  ASSUME QInv, NEW f \in Frame, Receive(f)
  PROVE  QInv'
<1> USE DEF QInv
<1>1. CASE Accepts(f) /\ ~Full
  <2>1. AddPacket /\ UNCHANGED <<tail, place, inPacket, taken, attempts>>
    BY <1>1 DEF Receive
  <2>2. /\ Count' = Count + 1
        /\ head = SlotOf(Count)
        /\ head' \in Slots
        /\ \A k \in Slots : SlotOf(k)' = SlotOf(k)
        /\ \A k \in 0 .. Count - 1 : SlotOf(k) # head
    BY <2>1, AddPacketEffect
  <2>3. Count \in Slots /\ (Empty <=> Count = 0)
    BY CountBounds
  <2>4. QTypeOK'
    BY <2>1, <2>2 DEF QTypeOK, AddPacket
  <2>5. ~Empty'
    BY <2>2, <2>3, <2>4, CountBounds DEF Empty, Count, QTypeOK
  <2>6. HoldsTail'
    BY <2>1, <2>5 DEF HoldsTail
  <2>7. \A k \in 0 .. Count - 1 : queue'[SlotOf(k)'] = queue[SlotOf(k)]
    <3> SUFFICES ASSUME NEW k \in 0 .. Count - 1
                 PROVE  queue'[SlotOf(k)'] = queue[SlotOf(k)]
      OBVIOUS
    <3>1. k \in Slots
      BY <2>3, QueueSizeAssumption
    <3>2. SlotOf(k)' = SlotOf(k) /\ SlotOf(k) # head /\ SlotOf(k) \in Slots
      BY <2>2, <3>1, SlotOfWraps
    <3> QED BY <2>1, <3>2 DEF AddPacket, QTypeOK
  <2>8. queue'[head] = [id |-> accepted + 1, nFailed |-> 0]
    BY <2>1 DEF AddPacket, QTypeOK
  <2>9. QueueContents'
    <3>1. accepted' = taken' + Count'
      BY <2>1, <2>2, <2>3 DEF QueueContents, AddPacket, QTypeOK
    <3>2. ASSUME NEW k \in 0 .. Count
          PROVE  queue'[SlotOf(k)'].id = taken + k + 1
      <4>1. CASE k = Count
        <5>1. SlotOf(k)' = head
          BY <2>2, <2>3, <4>1
        <5> QED BY <2>8, <4>1, <5>1 DEF QueueContents, QTypeOK
      <4>2. CASE k \in 0 .. Count - 1
        BY <2>7, <4>2 DEF QueueContents
      <4> QED BY <2>3, <4>1, <4>2
    <3> QED BY <2>1, <2>2, <2>3, <3>1, <3>2 DEF QueueContents
  <2>10. FailureCounts'
    <3>1. ASSUME NEW k \in 0 .. Count
          PROVE  queue'[SlotOf(k)'].nFailed =
                   IF k > 0 THEN 0
                   ELSE IF place = "handling" THEN attempts - 1 ELSE attempts
      <4>1. CASE k = Count
        <5>1. SlotOf(k)' = head
          BY <2>2, <2>3, <4>1
        <5>2. Count = 0 => place # "handling" /\ attempts = 0
          BY <2>3 DEF HoldsTail
        <5> QED BY <2>3, <2>8, <4>1, <5>1, <5>2
      <4>2. CASE k \in 0 .. Count - 1
        BY <2>7, <4>2 DEF FailureCounts
      <4> QED BY <2>3, <4>1, <4>2
    <3> QED BY <2>1, <2>2, <2>3, <3>1 DEF FailureCounts
  <2>11. RetryBudget'
    <3>1. place = "got" => inPacket \in Slots /\ inPacket = SlotOf(0) /\ Count > 0
      BY <2>3, SlotOfWraps, QueueSizeAssumption DEF HoldsTail, QTypeOK
    <3>2. place = "got" => queue'[inPacket] = queue[inPacket]
      BY <2>1, <2>2, <2>3, <3>1 DEF AddPacket, QTypeOK
    <3> QED BY <2>1, <3>2 DEF RetryBudget, GivingUp
  <2> QED BY <2>4, <2>5, <2>6, <2>9, <2>10, <2>11
<1>2. CASE ~(Accepts(f) /\ ~Full)
  <2>1. UNCHANGED qVars
    BY <1>2 DEF Receive, qVars
  <2> QED
    BY <2>1 DEF qVars, QTypeOK, HoldsTail, QueueContents, FailureCounts,
                RetryBudget, GivingUp, Empty, Count, SlotOf
<1> QED BY <1>1, <1>2

\* Releasing the packet at the tail, after a success or as the last resort.
LEMMA ReleaseInv ==
  ASSUME QInv, Release, ~Empty, place' \in {"poll", "asleep"}
  PROVE  QInv'
<1> USE DEF QInv
<1>1. /\ Count' = Count - 1
      /\ tail' \in Slots
      /\ \A k \in 0 .. Count - 2 : SlotOf(k)' = SlotOf(k + 1)
  BY ReleaseEffect
<1>2. /\ Count \in 1 .. QueueSize - 1
      /\ UNCHANGED <<queue, head, accepted>>
      /\ taken' = taken + 1
      /\ attempts' = 0
      /\ inPacket' = NoPacket
  BY CountBounds, QueueSizeAssumption DEF Release
<1>3. QTypeOK'
  BY <1>1, <1>2 DEF QTypeOK
<1>4. HoldsTail'
  BY DEF HoldsTail
<1>5. ASSUME NEW k \in 0 .. Count - 2
      PROVE  queue'[SlotOf(k)'].id = taken + k + 2 /\ queue'[SlotOf(k)'].nFailed = 0
  <2>1. queue'[SlotOf(k)'] = queue[SlotOf(k + 1)] /\ k + 1 \in 0 .. Count - 1
    BY <1>1, <1>2, QueueSizeAssumption
  <2>2. queue[SlotOf(k + 1)].id = taken + (k + 1) + 1
    BY <2>1 DEF QueueContents
  <2>3. queue[SlotOf(k + 1)].nFailed = 0
    BY <2>1 DEF FailureCounts
  <2> QED BY <2>1, <2>2, <2>3 DEF QTypeOK
<1>6. QueueContents'
  BY <1>1, <1>2, <1>5, QueueSizeAssumption DEF QueueContents, QTypeOK
<1>7. FailureCounts'
  BY <1>1, <1>2, <1>5, QueueSizeAssumption DEF FailureCounts
<1>8. RetryBudget'
  BY <1>2, MaxFailedAssumption DEF RetryBudget
<1> QED BY <1>2, <1>3, <1>4, <1>6, <1>7, <1>8

\* A step of the task that leaves the ring and the history alone, and ends
\* outside of a handler.
LEMMA MoveInv ==
  ASSUME QInv, UNCHANGED <<queue, head, tail, accepted, taken, attempts>>,
         place # "handling", place' \in {"poll", "got", "asleep"},
         inPacket' \in Slots \cup {NoPacket},
         place' = "got" => inPacket' = tail /\ ~Empty
  PROVE  QInv'
<1> USE DEF QInv
<1>1. Count' = Count /\ Empty' = Empty /\ \A k \in Nat : SlotOf(k)' = SlotOf(k)
  BY DEF Count, Empty, SlotOf
<1>2. QTypeOK' /\ HoldsTail'
  BY <1>1 DEF QTypeOK, HoldsTail
<1>3. Count \in Nat
  BY CountBounds, QueueSizeAssumption
<1>4. QueueContents' /\ FailureCounts'
  BY <1>1, <1>3 DEF QueueContents, FailureCounts
<1>5. place' = "got" => queue[inPacket'].nFailed = attempts
  <2>1. SlotOf(0) = tail
    BY SlotOfWraps, QueueSizeAssumption DEF QTypeOK
  <2> QED BY <1>3, <2>1, CountBounds DEF FailureCounts
<1>6. RetryBudget'
  BY <1>5, MaxFailedAssumption DEF RetryBudget, GivingUp, QTypeOK
<1> QED BY <1>1, <1>2, <1>4, <1>6

\* What the task finds in the slot it holds.
LEMMA HeldPacket ==
  ASSUME QInv, place \in {"got", "handling"}
  PROVE  /\ inPacket = SlotOf(0)
         /\ inPacket \in Slots
         /\ Count \in 1 .. QueueSize - 1
         /\ queue[inPacket].nFailed =
              IF place = "handling" THEN attempts - 1 ELSE attempts
<1> USE DEF QInv
<1>1. SlotOf(0) = tail
  BY SlotOfWraps, QueueSizeAssumption DEF QTypeOK
<1>2. Count \in 1 .. QueueSize - 1
  BY CountBounds, QueueSizeAssumption DEF HoldsTail
<1> QED BY <1>1, <1>2 DEF HoldsTail, FailureCounts, QTypeOK

LEMMA StartHandlingInv ==
  ASSUME QInv, StartHandling
  PROVE  QInv'
<1> USE DEF QInv, StartHandling
<1>1. Count' = Count /\ Empty' = Empty /\ \A k \in Nat : SlotOf(k)' = SlotOf(k)
  BY DEF Count, Empty, SlotOf
<1>2. Count \in Nat /\ attempts \in Nat /\ attempts' = attempts + 1
  BY CountBounds, QueueSizeAssumption DEF QTypeOK
<1>3. QTypeOK' /\ HoldsTail' /\ QueueContents'
  BY <1>1, <1>2 DEF QTypeOK, HoldsTail, QueueContents
<1>4. FailureCounts'
  BY <1>1, <1>2 DEF FailureCounts
<1>5. attempts <= MaxFailed
  BY <1>2, HeldPacket, MaxFailedAssumption DEF GivingUp
<1>6. RetryBudget'
  BY <1>2, <1>5, MaxFailedAssumption DEF RetryBudget
<1>7. ~Empty'
  BY <1>1 DEF HoldsTail
<1> QED BY <1>3, <1>4, <1>6, <1>7

LEMMA HandlerFailsInv ==
  ASSUME QInv, HandlerFails
  PROVE  QInv'
<1> USE DEF QInv, HandlerFails
<1>1. Count' = Count /\ Empty' = Empty /\ \A k \in Nat : SlotOf(k)' = SlotOf(k)
  BY DEF Count, Empty, SlotOf
<1>2. /\ inPacket = SlotOf(0)
      /\ inPacket \in Slots
      /\ Count \in 1 .. QueueSize - 1
      /\ queue[inPacket].nFailed = attempts - 1
  BY HeldPacket
<1>3. /\ queue'[inPacket].id = queue[inPacket].id
      /\ queue'[inPacket].nFailed = attempts
  BY <1>2 DEF QTypeOK
<1>4. QTypeOK' /\ HoldsTail'
  BY <1>2 DEF QTypeOK, HoldsTail
<1>5. ASSUME NEW k \in 0 .. Count - 1
      PROVE  /\ queue'[SlotOf(k)].id = queue[SlotOf(k)].id
             /\ queue'[SlotOf(k)].nFailed = IF k > 0 THEN 0 ELSE attempts
  <2>1. k \in Slots /\ SlotOf(k) \in Slots
    BY <1>2, SlotOfWraps, QueueSizeAssumption
  <2>2. CASE k = 0
    BY <1>2, <1>3, <2>2
  <2>3. CASE k > 0
    <3>1. SlotOf(k) # SlotOf(0)
      <4>1. SlotOf(0) = tail /\ tail \in Slots
        BY <1>2 DEF HoldsTail, QTypeOK
      <4>2. SlotOf(k) = IF tail + k < QueueSize THEN tail + k
                        ELSE tail + k - QueueSize
        BY <2>1, SlotOfWraps
      <4> QED BY <2>1, <2>3, <4>1, <4>2, QueueSizeAssumption
    <3>2. queue'[SlotOf(k)] = queue[SlotOf(k)]
      BY <1>2, <2>1, <3>1 DEF QTypeOK
    <3> QED BY <2>3, <3>2 DEF FailureCounts
  <2> QED BY <2>2, <2>3
<1>6. QueueContents'
  BY <1>1, <1>2, <1>5, QueueSizeAssumption DEF QueueContents
<1>7. FailureCounts'
  BY <1>1, <1>2, <1>5, QueueSizeAssumption DEF FailureCounts
<1>8. RetryBudget'
  BY DEF RetryBudget
<1> QED BY <1>1, <1>4, <1>6, <1>7, <1>8

LEMMA QNextInv == QInv /\ [QNext]_qVars => QInv'
<1> SUFFICES ASSUME QInv, [QNext]_qVars PROVE QInv'
  OBVIOUS
<1>1. ASSUME NEW f \in Frame, Receive(f) PROVE QInv'
  BY <1>1, ReceiveInv
<1>2. CASE PollEmpty
  BY <1>2, MoveInv DEF PollEmpty, QInv, QTypeOK
<1>3. CASE PollPacket
  BY <1>3, MoveInv DEF PollPacket, QInv, QTypeOK
<1>4. CASE StartHandling
  BY <1>4, StartHandlingInv
<1>5. CASE Drop
  BY <1>5, ReleaseInv DEF Drop, QInv, HoldsTail
<1>6. CASE HandlerSucceeds
  BY <1>6, ReleaseInv DEF HandlerSucceeds, QInv, HoldsTail
<1>7. CASE HandlerFails
  BY <1>7, HandlerFailsInv
<1>8. CASE Wake
  BY <1>8, MoveInv DEF Wake, QInv, QTypeOK
<1>9. CASE UNCHANGED qVars
  BY <1>9 DEF qVars, QInv, QTypeOK, HoldsTail, QueueContents, FailureCounts,
              RetryBudget, GivingUp, Empty, Count, SlotOf
<1> QED
  BY <1>1, <1>2, <1>3, <1>4, <1>5, <1>6, <1>7, <1>8, <1>9
  DEF QNext, TaskNetReceive

LEMMA QInvariance == QSpec => []QInv
BY QInitInv, QNextInv, PTL DEF QSpec

-----------------------------------------------------------------------------
\* The assertion of netdev_release_input never fails.
THEOREM HoldsTailAlways == QSpec => []HoldsTail
BY QInvariance, PTL DEF QInv

\* Packets are neither lost, overwritten, duplicated nor reordered once they
\* are in the queue.
THEOREM QueueContentsAlways == QSpec => []QueueContents
BY QInvariance, PTL DEF QInv

\* A packet's failure count is its own, and bounds the handling attempts
\* exactly by the retry limit.
THEOREM RetryBudgetAlways == QSpec => []RetriesCorrect
<1>1. QInv => RetriesCorrect
  BY DEF QInv, RetriesCorrect
<1> QED BY <1>1, QInvariance, PTL

\* No interrupt changes the packet a handler is reading.
THEOREM HeldPacketIsStable == QSpec => HeldPacketStable
<1>1. ASSUME QInv, [QNext]_qVars, place = "handling"
      PROVE  queue'[inPacket].id = queue[inPacket].id
  <2>1. inPacket = SlotOf(0) /\ inPacket \in Slots /\ Count \in 1 .. QueueSize - 1
    BY <1>1, HeldPacket
  <2>2. ASSUME NEW f \in Frame, Receive(f)
        PROVE  queue'[inPacket] = queue[inPacket]
    <3>1. CASE AddPacket /\ tail' = tail
      <4>1. SlotOf(0) # head
        BY <1>1, <2>1, <3>1, AddPacketEffect DEF QInv
      <4> QED BY <1>1, <2>1, <3>1, <4>1 DEF AddPacket, QInv, QTypeOK
    <3>2. CASE UNCHANGED queue
      BY <3>2
    <3> QED BY <2>2, <3>1, <3>2 DEF Receive
  <2>3. CASE HandlerFails
    BY <1>1, <2>1, <2>3 DEF HandlerFails, QInv, QTypeOK
  <2>4. CASE UNCHANGED queue
    BY <2>4
  <2> QED
    BY <1>1, <2>2, <2>3, <2>4
    DEF QNext, TaskNetReceive, PollEmpty, PollPacket, StartHandling, Drop,
        HandlerSucceeds, Wake, Release, qVars
<1> QED BY <1>1, QInvariance, PTL DEF QSpec, HeldPacketStable

-----------------------------------------------------------------------------
\* The packets of the ring as a sequence: the successors of `taken'.
PendingIsInterval ==
  /\ Pending \in Seq(Nat)
  /\ Len(Pending) = Count
  /\ \A i \in 1 .. Count : Pending[i] = taken + i

LEMMA PendingSeq == QInv => PendingIsInterval
<1> SUFFICES ASSUME QInv PROVE PendingIsInterval
  OBVIOUS
<1> USE DEF QInv
<1>1. Count \in Nat /\ Count \in 0 .. QueueSize - 1
  BY CountBounds, QueueSizeAssumption
<1>2. ASSUME NEW i \in 1 .. Count
      PROVE  queue[SlotOf(i - 1)].id = taken + i
  <2>1. i - 1 \in 0 .. Count - 1
    BY <1>1
  <2>2. queue[SlotOf(i - 1)].id = taken + (i - 1) + 1
    BY <2>1 DEF QueueContents
  <2> QED BY <2>2 DEF QTypeOK
<1>3. \A i \in 1 .. Count : Pending[i] = taken + i
  BY <1>2 DEF Pending
<1>4. taken \in Nat
  BY DEF QTypeOK
<1>5. Pending = [i \in 1 .. Count |-> taken + i]
  BY <1>2 DEF Pending
<1> QED BY <1>1, <1>3, <1>4, <1>5 DEF PendingIsInterval

LEMMA FifoInit == QInit => Fifo!Init
<1> SUFFICES ASSUME QInit PROVE Fifo!Init
  OBVIOUS
<1>1. Count = 0
  BY DEF QInit, Count
<1>2. Pending = << >>
  BY <1>1 DEF Pending
<1> QED BY <1>2 DEF QInit, Fifo!Init

\* An accepted packet is an Accept of the FIFO, any other frame a stutter.
LEMMA FifoReceive ==
  ASSUME QInv, QInv', NEW f \in Frame, Receive(f)
  PROVE  Fifo!Accept \/ UNCHANGED <<Pending, accepted>>
<1>1. CASE AddPacket
  <2>1. Count' = Count + 1 /\ Count \in Nat /\ Count < QueueSize - 1
    BY <1>1, AddPacketEffect, CountBounds, QueueSizeAssumption DEF Receive, QInv
  <2>2. taken' = taken /\ accepted' = accepted + 1 /\ accepted < MaxAccepted
    BY <1>1 DEF Receive, AddPacket
  <2>3. accepted = taken + Count /\ taken \in Nat
    BY DEF QInv, QueueContents, QTypeOK
  <2>4. /\ Pending \in Seq(Nat) /\ Len(Pending) = Count
        /\ \A i \in 1 .. Count : Pending[i] = taken + i
    BY PendingSeq DEF PendingIsInterval
  <2>5. /\ Pending' \in Seq(Nat) /\ Len(Pending') = Count + 1
        /\ \A i \in 1 .. Count + 1 : Pending'[i] = taken + i
    <3>1. PendingIsInterval'
      BY PendingSeq, PTL
    <3> QED BY <2>1, <2>2, <3>1 DEF PendingIsInterval
  <2>6. Pending' = Append(Pending, accepted + 1)
    BY <2>1, <2>3, <2>4, <2>5
  <2> QED BY <2>1, <2>2, <2>4, <2>6 DEF Fifo!Accept
<1>2. CASE UNCHANGED <<queue, head, accepted>>
  BY <1>2 DEF Receive, Pending, Count, SlotOf
<1> QED BY <1>1, <1>2 DEF Receive

\* Releasing a packet is a Take of the FIFO.
LEMMA FifoRelease ==
  ASSUME QInv, QInv', Release, ~Empty
  PROVE  Fifo!Take
<1>1. Count' = Count - 1 /\ Count \in Nat /\ Count # 0
  BY ReleaseEffect, CountBounds, QueueSizeAssumption DEF QInv
<1>2. taken' = taken + 1 /\ UNCHANGED accepted /\ taken \in Nat
  BY DEF Release, QInv, QTypeOK
<1>3. /\ Pending \in Seq(Nat) /\ Len(Pending) = Count
      /\ \A i \in 1 .. Count : Pending[i] = taken + i
  BY PendingSeq DEF PendingIsInterval
<1>4. /\ Pending' \in Seq(Nat) /\ Len(Pending') = Count - 1
      /\ \A i \in 1 .. Count - 1 : Pending'[i] = taken + 1 + i
  <2>1. PendingIsInterval'
    BY PendingSeq, PTL
  <2> QED BY <1>1, <1>2, <2>1 DEF PendingIsInterval
<1>5. Pending # << >>
  BY <1>1, <1>3
<1>6. Pending' = Tail(Pending)
  <2>1. Tail(Pending) \in Seq(Nat) /\ Len(Tail(Pending)) = Count - 1
    BY <1>3, <1>5
  <2>2. \A i \in 1 .. Count - 1 : Tail(Pending)[i] = taken + 1 + i
    BY <1>1, <1>2, <1>3, <1>5
  <2> QED BY <1>1, <1>4, <2>1, <2>2, SeqEqual
<1> QED BY <1>2, <1>5, <1>6 DEF Fifo!Take

LEMMA FifoStep == QInv /\ QInv' /\ [QNext]_qVars => [Fifo!Next]_(Fifo!pqVars)
<1> SUFFICES ASSUME QInv, QInv', [QNext]_qVars
             PROVE  Fifo!Next \/ UNCHANGED <<Pending, accepted>>
  BY DEF Fifo!pqVars
<1>1. ASSUME NEW f \in Frame, Receive(f)
      PROVE  Fifo!Next \/ UNCHANGED <<Pending, accepted>>
  BY <1>1, FifoReceive DEF Fifo!Next
<1>2. CASE Drop \/ HandlerSucceeds
  BY <1>2, FifoRelease DEF Drop, HandlerSucceeds, QInv, HoldsTail, Fifo!Next
<1>3. CASE HandlerFails
  <2>1. UNCHANGED <<taken, accepted, head, tail>>
    BY <1>3 DEF HandlerFails
  <2>2. Count' = Count
    BY <2>1 DEF Count
  <2>3. PendingIsInterval /\ PendingIsInterval'
    BY PendingSeq, PTL
  <2>4. Pending' = Pending
    BY <2>1, <2>2, <2>3 DEF PendingIsInterval
  <2> QED BY <2>1, <2>4
<1>4. CASE UNCHANGED <<queue, head, tail, accepted>>
  BY <1>4 DEF Pending, Count, SlotOf
<1> QED
  BY <1>1, <1>2, <1>3, <1>4
  DEF QNext, TaskNetReceive, PollEmpty, PollPacket, StartHandling, Wake, qVars

\* The ring and the receive task implement the bounded lossy FIFO: every step
\* is an Accept, a Take or invisible.  (That every packet is taken in the end
\* is a liveness property; the run InputQueue checks it.)
THEOREM RingImplementsFifo == QSpec => Fifo!Init /\ [][Fifo!Next]_(Fifo!pqVars)
<1>1. QInit => Fifo!Init
  BY FifoInit
<1>2. QInv /\ QInv' /\ [QNext]_qVars => [Fifo!Next]_(Fifo!pqVars)
  BY FifoStep
<1> QED BY <1>1, <1>2, QInvariance, PTL DEF QSpec
=============================================================================
