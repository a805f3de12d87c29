----------------------------- MODULE SchedProps -----------------------------
(***************************************************************************)
(* What the scheduler must guarantee to the tasks.                         *)
(***************************************************************************)
EXTENDS Sched

\* Types: the clock, the current task, the sleep list, and every task's state.
TypeOK ==
  /\ now \in Nat
  /\ current \in Task
  /\ sleepList \in Seq(Task)
  /\ wakeTime \in [Task -> Nat]
  /\ pc \in [Task -> TaskState]

Listed == {sleepList[i] : i \in 1 .. Len(sleepList)}

Waiting(t) == pc[t] \in {"created", "searching", "asleep"}

\* Exactly the tasks that wait to run are in the sleep list, each of them
\* once: a waiting task that is not in the list would never run again, and a
\* running or freed one that is would be resumed on a dead stack.
ListIsWaiting ==
  /\ \A t \in Task : Waiting(t) <=> t \in Listed
  /\ \A i, j \in 1 .. Len(sleepList) : sleepList[i] = sleepList[j] => i = j

\* Only the current task is executing; every other one waits, is gone or does
\* not exist yet.
OneTaskExecutes ==
  \A t \in Task :
    pc[t] \in {"running", "searching", "finishing"} <=> t = current

\* sched_poll_sleeping reads the head of the list without asking whether the
\* list is empty: it never is when a task polls, not even when the last of
\* the other tasks has returned.
NeverPollsEmptyList ==
  pc[current] \in {"searching", "finishing"} => sleepList # << >>

\* "This works because the sleep list is ordered by wake time."
SortedByWakeTime ==
  \A i, j \in 1 .. Len(sleepList) :
    i <= j => wakeTime[sleepList[i]] <= wakeTime[sleepList[j]]

\* The sleep list as its users need it: complete, exclusive and ordered.
SleepListCorrect ==
  TypeOK /\ ListIsWaiting /\ OneTaskExecutes /\ SortedByWakeTime

\* The assertion at the end of sleep_ms: a task never returns from its sleep
\* before its wake time.
NoPrematureWake ==
  [][\A t \in Task :
       Waiting(t) /\ pc'[t] = "running" => now >= wakeTime[t]]_vars

\* The processor goes to a task that waits longest past its wake time: none
\* that is due is passed over for one with a later wake time.
EarliestFirst ==
  [][\A t, u \in Task :
       Waiting(t) /\ pc'[t] = "running" /\ Waiting(u)
         => wakeTime[t] <= wakeTime[u]]_vars

\* Tasks wake at the right time: not early, and the earliest first.
WakesInOrder == NoPrematureWake /\ EarliestFirst

\* Every task that sleeps, or was created, runs eventually, however often the
\* others sleep: equal wake times are served in the order of arrival.
NoStarvation ==
  \A t \in Task : Waiting(t) ~> pc[t] = "running"
=============================================================================
