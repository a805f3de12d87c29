-------------------------------- MODULE Sched --------------------------------
(***************************************************************************)
(* The cooperative scheduler of src/sched.c: tasks run until they call     *)
(* sleep_ms or return; a list of the sleeping tasks, ordered by wake time, *)
(* tells which one runs next.  The task that gives up the processor does   *)
(* the searching itself: it stays the current task, busy-waiting on its    *)
(* own stack, until the head of the list is due -- which may be the very   *)
(* task that searches.                                                     *)
(*                                                                         *)
(* Interrupt handlers do not use the scheduler, so what happens between    *)
(* two observations of the clock is one step.                              *)
(***************************************************************************)
EXTENDS Naturals, Sequences

CONSTANTS
  Task,          \* the tasks that ever exist
  Main,          \* global_main_task
  Durations,     \* the arguments sleep_ms is called with
  MaxTime        \* bound on the clock

ASSUME MainAssumption == Main \in Task
ASSUME DurationsAssumption == Durations \subseteq Nat
ASSUME MaxTimeAssumption == MaxTime \in Nat

VARIABLES
  now,           \* time_current_ms()
  current,       \* global_current_task
  sleepList,     \* global_sleep_list, first element first
  wakeTime,      \* the wake_time field of every task
  pc             \* what every task is doing

vars == <<now, current, sleepList, wakeTime, pc>>

(***************************************************************************)
(* unborn     not created yet                                              *)
(* created    in the sleep list, its callback not entered yet              *)
(* running    in its callback (or, for the main task, in kernel_init)      *)
(* searching  in sleep_ms, waiting for the head of the list to be due      *)
(* asleep     in sleep_ms, switched away from                              *)
(* finishing  its callback returned and its memory is freed, but it still  *)
(*            executes, waiting for the head of the list to be due         *)
(* gone       switched away from for the last time                         *)
(***************************************************************************)
TaskState == {"unborn", "created", "running", "searching", "asleep",
              "finishing", "gone"}

-----------------------------------------------------------------------------
\* sched_init
Init ==
  /\ now = 0
  /\ current = Main
  /\ sleepList = << >>
  /\ wakeTime = [t \in Task |-> 0]
  /\ pc = [t \in Task |-> IF t = Main THEN "running" ELSE "unborn"]

\* (Mutant: tasks with the same wake time run last come, first served.)
InsertPositionBeforeTies(time, i) ==
  /\ \A j \in 1 .. i - 1 : wakeTime[sleepList[j]] < time
  /\ i <= Len(sleepList) => wakeTime[sleepList[i]] >= time

\* (Mutant: every task is appended.)
InsertPositionAtEnd(time, i) == i = Len(sleepList) + 1

\* Where sched_add_sleeping inserts a task with wake time `time': in front of
\* the first task that wakes strictly later.
InsertPosition(time, i) ==
  /\ \A j \in 1 .. i - 1 : wakeTime[sleepList[j]] <= time
  /\ i <= Len(sleepList) => wakeTime[sleepList[i]] > time

\* sched_add_sleeping
AddSleeping(t, time) ==
  /\ wakeTime' = [wakeTime EXCEPT ![t] = time]
  /\ \E i \in 1 .. Len(sleepList) + 1 :
       /\ InsertPosition(time, i)
       /\ sleepList' = [j \in 1 .. Len(sleepList) + 1 |->
                          IF j < i THEN sleepList[j]
                          ELSE IF j = i THEN t ELSE sleepList[j - 1]]

\* The processor's clock advances.
Tick ==
  /\ now < MaxTime
  /\ now' = now + 1
  /\ UNCHANGED <<current, sleepList, wakeTime, pc>>

\* sched_create_task; without memory it returns an error and does nothing.
CreateTask(t) ==
  /\ pc[current] = "running"
  /\ pc[t] = "unborn"
  /\ pc' = [pc EXCEPT ![t] = "created"]
  /\ AddSleeping(t, 0)
  /\ UNCHANGED <<now, current>>

\* (Mutant: the task goes to sleep without being put in the list.)
BeginSleepForgotten(d) ==
  /\ pc[current] = "running"
  /\ now + d <= MaxTime
  /\ pc' = [pc EXCEPT ![current] = "searching"]
  /\ wakeTime' = [wakeTime EXCEPT ![current] = now + d]
  /\ UNCHANGED <<now, current, sleepList>>

\* sleep_ms up to the search; a sleep that ends after MaxTime is not begun.
BeginSleep(d) ==
  /\ pc[current] = "running"
  /\ now + d <= MaxTime
  /\ pc' = [pc EXCEPT ![current] = "searching"]
  /\ AddSleeping(current, now + d)
  /\ UNCHANGED <<now, current>>

\* (Mutant: a task is taken before its time.)
DueTooEarly == now + 1 >= wakeTime[Head(sleepList)]

\* sched_poll_sleeping: the head of the list, if its wake time has come.
Due == now >= wakeTime[Head(sleepList)]

\* sched_get_ready returns the head of the list, which leaves the list and
\* becomes the current task: it enters its callback, or returns from sleep_ms.
\* If it is the task that searched there is no context switch.
Resume ==
  LET next == Head(sleepList)
  IN  /\ pc[current] = "searching"
      /\ Due
      /\ sleepList' = Tail(sleepList)
      /\ current' = next
      /\ pc' = [pc EXCEPT ![current] = "asleep", ![next] = "running"]
      /\ UNCHANGED <<now, wakeTime>>

\* sched_task_finish up to the search: the callback of a task other than the
\* main task has returned; kvalloc_free releases the task and its stack.
Finish ==
  /\ pc[current] = "running"
  /\ current # Main
  /\ pc' = [pc EXCEPT ![current] = "finishing"]
  /\ UNCHANGED <<now, current, sleepList, wakeTime>>

\* sched_final_switch_task
FinalSwitch ==
  LET next == Head(sleepList)
  IN  /\ pc[current] = "finishing"
      /\ Due
      /\ sleepList' = Tail(sleepList)
      /\ current' = next
      /\ pc' = [pc EXCEPT ![current] = "gone", ![next] = "running"]
      /\ UNCHANGED <<now, wakeTime>>

Next ==
  \/ Tick
  \/ \E t \in Task : CreateTask(t)
  \/ \E d \in Durations : BeginSleep(d)
  \/ Resume
  \/ Finish
  \/ FinalSwitch

\* The clock runs, a busy-waiting task keeps polling, and -- what cooperative
\* scheduling demands of the tasks -- a task that runs sleeps or returns.
Fairness ==
  /\ WF_vars(Tick)
  /\ WF_vars(Resume)
  /\ WF_vars(FinalSwitch)
  /\ WF_vars(Finish \/ \E d \in Durations : BeginSleep(d))

Spec == Init /\ [][Next]_vars /\ Fairness
=============================================================================
