--------------------------- MODULE PriorityScheduler ---------------------------
(***************************************************************************)
(* The scheduler of the shared library (shared/agent/scheduler.py): a heap *)
(* of tasks, a loop that pops one whenever the semaphore has room, and one *)
(* coroutine per popped task, which keeps its place of the semaphore while *)
(* it waits to try again.  A task is named by its number, in the order of  *)
(* time of creation, the third part of its sort key; the second, the       *)
(* deadline, counts only as a handler that times out.  FIFO and DEADLINE   *)
(* pop as PRIORITY does.                                                   *)
(***************************************************************************)
EXTENDS Integers, FiniteSets

CONSTANTS
    LastTask,        \* bound: tasks 1 .. LastTask
    PriorityOf,      \* the priority of each, the most urgent is the least
    UserOf,          \* the user of each
    MaxRunning,      \* max_concurrent
    MaxQueue,        \* max_queue_size
    MaxTries,        \* max_retries
    UserQuota,       \* user_quota_per_minute
    MaxStarts        \* bound: calls of start

VARIABLES
    policy,          \* "priority" or "fair"
    heap,            \* _queue: the numbers of the tasks in it
    place,           \* per task: where it is outside the heap
    tries,           \* attempt
    userCount,       \* _user_counts
    scheduling,      \* _is_running
    loops,           \* the scheduler loops alive
    current,         \* _scheduler_task, 0: none
    starts

SchedulerVars == <<policy, heap, place, tries, userCount, scheduling, loops, current, starts>>

Items == 1 .. LastTask
Quotas == {UserOf[i] : i \in Items}

PriorityInit ==
    /\ policy \in {"priority", "fair"}
    /\ heap = {} /\ place = [i \in Items |-> "new"] /\ tries = [i \in Items |-> 0]
    /\ userCount = [u \in Quotas |-> 0]
    /\ scheduling = FALSE /\ loops = {} /\ current = 0 /\ starts = 0

HoldsPlace(i) == place[i] \in {"running", "backoff"}
FreePlaces == MaxRunning - Cardinality({i \in Items : HoldsPlace(i)})

-----------------------------------------------------------------------------
\* start again without a stop makes a second loop, and only it can be cancelled.
Start ==
    /\ starts < MaxStarts
    /\ starts' = starts + 1 /\ current' = starts + 1
    /\ scheduling' = TRUE /\ loops' = loops \cup {starts + 1}
    /\ UNCHANGED <<policy, heap, place, tries, userCount>>

StopScheduler ==
    /\ scheduling /\ scheduling' = FALSE
    /\ loops' = loops \ {current}
    /\ UNCHANGED <<policy, heap, place, tries, userCount, current, starts>>

Schedule ==
    /\ Cardinality(heap) < MaxQueue
    /\ \E i \in Items :
          /\ place[i] = "new" /\ \A j \in 1 .. i - 1 : place[j] # "new"
          /\ heap' = heap \cup {i}
          /\ place' = [place EXCEPT ![i] = "heap"]
    /\ UNCHANGED <<policy, tries, userCount, scheduling, loops, current, starts>>

\* The root of the heap.
First(i) ==
    i \in heap /\ \A j \in heap \ {i} :
        PriorityOf[i] < PriorityOf[j] \/ (PriorityOf[i] = PriorityOf[j] /\ i < j)

UnderQuota(i) == userCount[UserOf[i]] < UserQuota

\* The fair policy looks through the heap in the order of its array, of which only
\* the first place is known; with all users over their quota it takes the first.
NextTask(i) ==
    /\ i \in heap
    /\ policy = "priority" => First(i)
    /\ policy = "fair" =>
          \/ First(i) /\ (UnderQuota(i) \/ \A j \in heap : ~UnderQuota(j))
          \/ UnderQuota(i) /\ \A j \in heap : First(j) => ~UnderQuota(j)

\* One round of a loop; the task it pops waits for its coroutine to run.
LoopRound(l) ==
    /\ l \in loops
    /\ \/ /\ ~scheduling
          /\ loops' = loops \ {l}
          /\ UNCHANGED <<heap, place, userCount>>
       \/ /\ scheduling /\ FreePlaces > 0
          /\ \E i \in Items :
                /\ NextTask(i)
                /\ heap' = heap \ {i}
                /\ place' = [place EXCEPT ![i] = "popped"]
                /\ userCount' = IF policy = "fair" /\ UnderQuota(i)
                                THEN [userCount EXCEPT ![UserOf[i]] = @ + 1] ELSE userCount
          /\ UNCHANGED loops
    /\ UNCHANGED <<policy, tries, scheduling, current, starts>>

\* A minute has passed since the counts of these users were reset.
ResetCounts ==
    /\ policy = "fair"
    /\ \E us \in SUBSET Quotas \ {{}} :
          userCount' = [u \in Quotas |-> IF u \in us THEN 0 ELSE userCount[u]]
    /\ UNCHANGED <<policy, heap, place, tries, scheduling, loops, current, starts>>

BeginTask(i) ==
    /\ place[i] = "popped" /\ FreePlaces > 0
    /\ place' = [place EXCEPT ![i] = "running"]
    /\ tries' = [tries EXCEPT ![i] = @ + 1]
    /\ UNCHANGED <<policy, heap, userCount, scheduling, loops, current, starts>>

\* The handler returned, raised or timed out, or was cancelled, which nothing
\* records.
EndTask(i) ==
    /\ place[i] = "running"
    /\ \/ place' = [place EXCEPT ![i] = "completed"]
       \/ place' = [place EXCEPT ![i] = IF tries[i] < MaxTries THEN "backoff" ELSE "failed"]
       \/ place' = [place EXCEPT ![i] = "cancelled"]
    /\ UNCHANGED <<policy, heap, tries, userCount, scheduling, loops, current, starts>>

\* As the code must not be: the count of tries starts again.
RetryTask_Forgets(i) ==
    /\ place[i] = "backoff"
    /\ heap' = heap \cup {i}
    /\ place' = [place EXCEPT ![i] = "heap"]
    /\ tries' = [tries EXCEPT ![i] = 0]
    /\ UNCHANGED <<policy, userCount, scheduling, loops, current, starts>>

\* The delay is over: the task goes back to the heap, full or not, with the key it
\* had, and its place of the semaphore is free.
RetryTask(i) ==
    /\ place[i] = "backoff"
    /\ heap' = heap \cup {i}
    /\ place' = [place EXCEPT ![i] = "heap"]
    /\ UNCHANGED <<policy, tries, userCount, scheduling, loops, current, starts>>

PriorityNext ==
    \/ Start \/ StopScheduler \/ Schedule \/ ResetCounts
    \/ \E l \in loops : LoopRound(l)
    \/ \E i \in Items : BeginTask(i) \/ EndTask(i) \/ RetryTask(i)

\* The event loop runs every coroutine, and every handler ends: the time-out sees
\* to it.
PriorityFairness ==
    /\ \A l \in 1 .. MaxStarts : WF_SchedulerVars(LoopRound(l))
    /\ \A i \in Items : WF_SchedulerVars(BeginTask(i) \/ EndTask(i) \/ RetryTask(i))

PrioritySpec == PriorityInit /\ [][PriorityNext]_SchedulerVars /\ PriorityFairness

-----------------------------------------------------------------------------
\* Every task is completed, failed for good or cancelled in the end, while the
\* scheduler is not stopped for good: neither more urgent tasks that fail again
\* and again, nor two loops at a time, nor its user's quota keep it from running.
ScheduledSettles ==
    \A i \in Items :
        place[i] = "heap" ~> place[i] \in {"completed", "failed", "cancelled"} \/ ~scheduling
=============================================================================
