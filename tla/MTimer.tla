------------------------------- MODULE MTimer -------------------------------
(***************************************************************************)
(* MTimer/MTimer.cpp: a clock thread wakes child threads once in a time    *)
(* unit; a child counts the wake-ups of the working tasks of its range and *)
(* notifies those who wait in call_task.  Tasks are slots that set_task    *)
(* hands out, start_task, stop_task and del_task change, and whose flags   *)
(* every thread reads without a lock.                                      *)
(*                                                                         *)
(* Clock and children share one mutex and one condition variable.  The end *)
(* of the last MTimer object, which deletes the data under running         *)
(* threads, is not modelled.                                               *)
(***************************************************************************)
EXTENDS Naturals, FiniteSets

CONSTANTS
  MaxTaskSize,    \* __MUZI_MTIMER_MAX_TASK_SIZE__, 1016
  MaxThreadSize,  \* __MUZI_MTIMER_MAX_THREAD_SIZE__, 8
  Controllers,    \* threads that set, start, stop and delete tasks
  Callers,        \* threads that call call_task
  Intervals,      \* what set_task is called with, in time units
  WakePeriod      \* the model counts wake-ups modulo this

ASSUME SizeAssumption ==
  /\ MaxThreadSize \in Nat \ {0}
  /\ MaxTaskSize \in Nat /\ MaxTaskSize >= MaxThreadSize
ASSUME IntervalAssumption ==
  /\ WakePeriod \in Nat \ {0}
  /\ Intervals \subseteq Nat
  /\ \A n \in Intervals \ {0} : WakePeriod % n = 0

Tasks == 0 .. MaxTaskSize - 1
Threads == 0 .. MaxThreadSize - 1
Flags == {"FREE", "BUSY", "WORKING", "NOWORKING"}
None == MaxThreadSize       \* no thread, as owner of the mutex
Clock == MaxThreadSize + 1  \* the clock thread, as its owner

VARIABLES
  work_status,     \* work_status[t]: the flags of task t
  activate_times,  \* activate_times[t]
  wake_times,      \* wake_times[t], modulo WakePeriod
  task_size,
  used,            \* used[i]: tasks_num of thread i is not 0
  child,           \* child[i]: where child thread i is
  pos,             \* pos[i]: the index its scan has reached
  clock,           \* "timing" in wait_for, or "ended"
  owner,           \* who holds contributing_lock of the clock thread
  pc, slot,        \* where a controller is, and the task it is at
  called,          \* called[u]: the tasks (one or none) u waits for
  crashed          \* the process is gone

taskVars == <<work_status, activate_times, wake_times, task_size>>
childVars == <<child, pos, owner>>
vars == <<taskVars, used, childVars, clock, pc, slot, called, crashed>>

(* The ranges that getMTimerData gives the threads: the first has one index *)
(* more, and the last one ends behind the last task when the division has   *)
(* no remainder. *)
PerThread == MaxTaskSize \div MaxThreadSize
MinPos(i) == IF i = 0 THEN 0 ELSE i * PerThread + 1
MaxPos(i) == (i + 1) * PerThread
RangeOf(i) == MinPos(i) .. MaxPos(i)

(* The thread start_task creates for task t: the initialisation writes the  *)
(* thread's number to the task of the same number, and to no other. *)
ThreadPos(t) == IF t \in Threads THEN t ELSE 0

Init ==
  /\ work_status = [t \in Tasks |-> {"FREE"}]
  /\ activate_times = [t \in Tasks |-> 0]
  /\ wake_times = [t \in Tasks |-> 0]
  /\ task_size = 0
  /\ used = [i \in Threads |-> FALSE]
  /\ child = [i \in Threads |-> "none"]
  /\ pos = [i \in Threads |-> 0]
  /\ clock = "timing"
  /\ owner = None
  /\ pc = [c \in Controllers |-> "idle"]
  /\ slot = [c \in Controllers |-> 0]
  /\ called = [u \in Callers |-> {}]
  /\ crashed = FALSE

(* A controller goes on, unless the process has ended. *)
Goto(c, from, to) ==
  /\ ~ crashed
  /\ pc[c] = from
  /\ pc' = [pc EXCEPT ![c] = to]

(* A definition whose comment says Slip is the one after it with a plausible *)
(* mistake in it, there to see that the properties notice.                   *)
-----------------------------------------------------------------------------
(* The clock thread. *)

(* wait_for ends: the children in their wait are notified, and the mutex is *)
(* given up again. *)
Tick ==
  /\ ~ crashed
  /\ clock = "timing"
  /\ owner = None
  /\ child' = [i \in Threads |->
                 IF child[i] = "wait" THEN "notified" ELSE child[i]]
  /\ UNCHANGED <<taskVars, used, pos, owner, clock, pc, slot, called, crashed>>

(* Slip: the lock is a local of the thread, which gives it back. *)
EndClockReleasing ==
  /\ ~ crashed
  /\ clock = "timing"
  /\ owner = None
  /\ clock' = "ended"
  /\ UNCHANGED <<taskVars, used, childVars, pc, slot, called, crashed>>

(* wait_for ends without a timeout: the loop is left, and its static lock   *)
(* is never given back. *)
EndClock ==
  /\ ~ crashed
  /\ clock = "timing"
  /\ owner = None
  /\ clock' = "ended"
  /\ owner' = Clock
  /\ UNCHANGED <<taskVars, used, child, pos, pc, slot, called, crashed>>

-----------------------------------------------------------------------------
(* A child thread. *)

StartChild(i) ==
  /\ ~ crashed
  /\ child[i] = "start"
  /\ owner = None
  /\ child' = [child EXCEPT ![i] = "wait"]
  /\ UNCHANGED <<taskVars, used, pos, owner, clock, pc, slot, called, crashed>>

SpuriousWake(i) ==
  /\ ~ crashed
  /\ child[i] = "wait"
  /\ child' = [child EXCEPT ![i] = "notified"]
  /\ UNCHANGED <<taskVars, used, pos, owner, clock, pc, slot, called, crashed>>

(* Slip: the scan begins behind the first task. *)
WakeChildPastFirst(i) ==
  /\ ~ crashed
  /\ child[i] = "notified"
  /\ owner = None
  /\ owner' = i
  /\ child' = [child EXCEPT ![i] = "scan"]
  /\ pos' = [pos EXCEPT ![i] = MinPos(i) + 1]
  /\ UNCHANGED <<taskVars, used, clock, pc, slot, called, crashed>>

WakeChild(i) ==
  /\ ~ crashed
  /\ child[i] = "notified"
  /\ owner = None
  /\ owner' = i
  /\ child' = [child EXCEPT ![i] = "scan"]
  /\ pos' = [pos EXCEPT ![i] = MinPos(i)]
  /\ UNCHANGED <<taskVars, used, clock, pc, slot, called, crashed>>

(* Slip: the flag of a task that was handed out is asked, not of a working   *)
(* one. *)
CheckTaskBusy(i) ==
  /\ ~ crashed
  /\ child[i] = "scan"
  /\ \/ /\ pos[i] \in RangeOf(i) \cap Tasks
        /\ "BUSY" \in work_status[pos[i]]
        /\ child' = [child EXCEPT ![i] = "count"]
        /\ UNCHANGED <<pos, owner, crashed>>
     \/ /\ pos[i] > MaxPos(i)
        /\ child' = [child EXCEPT ![i] = "wait"]
        /\ owner' = None
        /\ UNCHANGED <<pos, crashed>>
  /\ UNCHANGED <<taskVars, used, clock, pc, slot, called>>

(* The flags of the next task are read; past the range the child waits      *)
(* again.  What the flag word behind the last task holds is undefined.      *)
CheckTask(i) ==
  /\ ~ crashed
  /\ child[i] = "scan"
  /\ \/ /\ pos[i] > MaxPos(i)
        /\ child' = [child EXCEPT ![i] = "wait"]
        /\ owner' = None
        /\ UNCHANGED <<pos, crashed>>
     \/ /\ pos[i] \in RangeOf(i) \cap Tasks
        /\ "WORKING" \in work_status[pos[i]]
        /\ child' = [child EXCEPT ![i] = "count"]
        /\ UNCHANGED <<pos, owner, crashed>>
     \/ /\ pos[i] \in RangeOf(i) \cap Tasks
        /\ "WORKING" \notin work_status[pos[i]]
        /\ pos' = [pos EXCEPT ![i] = @ + 1]
        /\ UNCHANGED <<child, owner, crashed>>
     \/ /\ pos[i] \in RangeOf(i) \ Tasks
        /\ pos' = [pos EXCEPT ![i] = @ + 1]
        /\ crashed' \in BOOLEAN
        /\ UNCHANGED <<child, owner>>
  /\ UNCHANGED <<taskVars, used, clock, pc, slot, called>>

(* Slip: the remainder is compared with the interval. *)
CountTaskNever(i) ==
  LET t == pos[i]
      n == activate_times[t]
      w == (wake_times[t] + 1) % WakePeriod
  IN  /\ ~ crashed
      /\ child[i] = "count"
      /\ child' = [child EXCEPT ![i] = "scan"]
      /\ pos' = [pos EXCEPT ![i] = t + 1]
      /\ wake_times' = [wake_times EXCEPT ![t] = w]
      /\ IF n = 0
         THEN crashed' = TRUE /\ called' = called
         ELSE /\ called' = [u \in Callers |->
                   IF w % n = n THEN called[u] \ {t} ELSE called[u]]
              /\ crashed' = crashed
      /\ UNCHANGED <<work_status, activate_times, task_size, used, owner,
                     clock, pc, slot>>

(* The wake-up is counted, and the first two of each interval notify those  *)
(* who wait.  The test divides by activate_times. *)
CountTask(i) ==
  LET t == pos[i]
      n == activate_times[t]
      w == (wake_times[t] + 1) % WakePeriod
  IN  /\ ~ crashed
      /\ child[i] = "count"
      /\ child' = [child EXCEPT ![i] = "scan"]
      /\ pos' = [pos EXCEPT ![i] = t + 1]
      /\ wake_times' = [wake_times EXCEPT ![t] = w]
      /\ IF n = 0
         THEN crashed' = TRUE /\ called' = called
         ELSE /\ called' = [u \in Callers |->
                   IF w % n <= 1 THEN called[u] \ {t} ELSE called[u]]
              /\ crashed' = crashed
      /\ UNCHANGED <<work_status, activate_times, task_size, used, owner,
                     clock, pc, slot>>

-----------------------------------------------------------------------------
(* The operations. *)

(* set_task: the first free task is found, *)
FindTask(c) ==
  /\ Goto(c, "idle", "take")
  /\ \E t \in Tasks :
       /\ "FREE" \in work_status[t]
       /\ \A s \in 0 .. t - 1 : "FREE" \notin work_status[s]
       /\ slot' = [slot EXCEPT ![c] = t]
  /\ UNCHANGED <<taskVars, used, childVars, clock, called, crashed>>

(* and taken, whatever it is by then. *)
TakeTask(c) ==
  /\ Goto(c, "take", "idle")
  /\ \E n \in Intervals :
       activate_times' = [activate_times EXCEPT ![slot[c]] = n]
  /\ work_status' = [work_status EXCEPT ![slot[c]] = {"BUSY", "NOWORKING"}]
  /\ task_size' = task_size + 1
  /\ UNCHANGED <<wake_times, used, childVars, clock, slot, called, crashed>>

(* start_task on a task that was handed out: a working one is left alone,   *)
StartTask(c, t) ==
  /\ "FREE" \notin work_status[t]
  /\ "WORKING" \notin work_status[t]
  /\ work_status' = [work_status EXCEPT ![t] = {"BUSY", "WORKING"}]
  /\ Goto(c, "idle", "create")
  /\ slot' = [slot EXCEPT ![c] = t]
  /\ UNCHANGED <<activate_times, wake_times, task_size, used, childVars,
                 clock, called, crashed>>

(* any other gets the thread that its slot names, *)
CreateThread(c) ==
  LET i == ThreadPos(slot[c])
  IN  /\ ~ crashed
      /\ pc[c] = "create"
      /\ ~ used[i]
      /\ pc' = [pc EXCEPT ![c] = "created"]
      /\ child' = [child EXCEPT ![i] = "start"]
      /\ crashed' = (child[i] # "none")
      /\ UNCHANGED <<taskVars, used, pos, owner, clock, slot, called>>

(* if it is the first of that thread. *)
CountThread(c) ==
  LET i == ThreadPos(slot[c])
  IN  /\ ~ crashed
      /\ pc[c] = "created" \/ (pc[c] = "create" /\ used[i])
      /\ pc' = [pc EXCEPT ![c] = "idle"]
      /\ used' = [used EXCEPT ![i] = TRUE]
      /\ UNCHANGED <<taskVars, childVars, clock, slot, called, crashed>>

(* stop_task masks the flags. *)
StopTask(c, t) ==
  /\ ~ crashed
  /\ pc[c] = "idle"
  /\ "FREE" \notin work_status[t]
  /\ work_status' = [work_status EXCEPT ![t] = @ \cap {"BUSY", "NOWORKING"}]
  /\ UNCHANGED <<activate_times, wake_times, task_size, used, childVars,
                 clock, pc, slot, called, crashed>>

(* del_task masks the flags, with the flag of a working task in the mask,   *)
DeleteTask(c, t) ==
  /\ Goto(c, "idle", "zero")
  /\ "FREE" \notin work_status[t]
  /\ work_status' = [work_status EXCEPT ![t] = @ \cap {"FREE", "WORKING"}]
  /\ slot' = [slot EXCEPT ![c] = t]
  /\ UNCHANGED <<activate_times, wake_times, task_size, used, childVars,
                 clock, called, crashed>>

(* and clears the counts one after the other. *)
ClearActivate(c) ==
  /\ Goto(c, "zero", "reset")
  /\ activate_times' = [activate_times EXCEPT ![slot[c]] = 0]
  /\ UNCHANGED <<work_status, wake_times, task_size, used, childVars, clock,
                 slot, called, crashed>>

ClearWake(c) ==
  /\ Goto(c, "reset", "idle")
  /\ wake_times' = [wake_times EXCEPT ![slot[c]] = 0]
  /\ UNCHANGED <<work_status, activate_times, task_size, used, childVars,
                 clock, slot, called, crashed>>

(* call_task waits, whatever the state of the task, and returns when it is  *)
(* notified, or for no reason. *)
CallTask(u, t) ==
  /\ ~ crashed
  /\ called[u] = {}
  /\ "FREE" \notin work_status[t]
  /\ called' = [called EXCEPT ![u] = {t}]
  /\ UNCHANGED <<taskVars, used, childVars, clock, pc, slot, crashed>>

SpuriousReturn(u) ==
  /\ ~ crashed
  /\ called[u] # {}
  /\ called' = [called EXCEPT ![u] = {}]
  /\ UNCHANGED <<taskVars, used, childVars, clock, pc, slot, crashed>>

-----------------------------------------------------------------------------
Child(i) ==
  StartChild(i) \/ WakeChild(i) \/ CheckTask(i) \/ CountTask(i)
Finish(c) ==
  \/ TakeTask(c) \/ CreateThread(c) \/ CountThread(c)
  \/ ClearActivate(c) \/ ClearWake(c)
Control(c) ==
  \/ FindTask(c)
  \/ \E t \in Tasks : StartTask(c, t) \/ StopTask(c, t) \/ DeleteTask(c, t)
  \/ Finish(c)
Caller(u) == SpuriousReturn(u) \/ \E t \in Tasks : CallTask(u, t)

Next ==
  \/ Tick
  \/ EndClock
  \/ \E i \in Threads : Child(i) \/ SpuriousWake(i)
  \/ \E c \in Controllers : Control(c)
  \/ \E u \in Callers : Caller(u)

Spec == Init /\ [][Next]_vars

(* Time goes on, threads run, and the mutex lets in a thread that finds it  *)
(* free again and again.  Operations that began end.                        *)
FairSpec ==
  /\ Spec
  /\ SF_vars(Tick)
  /\ \A i \in Threads : SF_vars(Child(i))
  /\ \A c \in Controllers : WF_vars(Finish(c))

-----------------------------------------------------------------------------
TypeOK ==
  /\ work_status \in [Tasks -> SUBSET Flags]
  /\ activate_times \in [Tasks -> Intervals \cup {0}]
  /\ wake_times \in [Tasks -> 0 .. WakePeriod - 1]
  /\ task_size \in Nat
  /\ used \in [Threads -> BOOLEAN]
  /\ child \in [Threads -> {"none", "start", "wait", "notified", "scan", "count"}]
  /\ \A i \in Threads : child[i] = "count" => pos[i] \in Tasks
  /\ clock \in {"timing", "ended"}
  /\ owner \in Threads \cup {None, Clock}
  /\ pc \in [Controllers -> {"idle", "take", "create", "created", "zero", "reset"}]
  /\ slot \in [Controllers -> Tasks]
  /\ called \in [Callers -> {{}} \cup {{t} : t \in Tasks}]
  /\ crashed \in BOOLEAN

(* size() and is_full() answer from task_size, set_task from the flags:     *)
(* with one thread that sets and deletes tasks the two agree, because a     *)
(* deleted task neither becomes free nor is taken off the count.            *)
TaskSizeCounts ==
  task_size = Cardinality({t \in Tasks : "FREE" \notin work_status[t]})

(* Some child that runs has task t in its range.  It need not be the one    *)
(* that start_task created for t. *)
Covered(t) == \E i \in Threads : child[i] # "none" /\ t \in RangeOf(i)

Running(t) ==
  /\ ~ crashed /\ clock = "timing"
  /\ "WORKING" \in work_status[t]
  /\ activate_times[t] > 0

(* The process ends by itself only for a task that was started or deleted,  *)
(* has an interval of no time unit and a child that covers it, or for the   *)
(* read behind the last task: a task that is only set is never divided by.  *)
CrashCause ==
  crashed =>
    \/ \E t \in Tasks : /\ activate_times[t] = 0
                       /\ Covered(t)
                       /\ work_status[t] \cap {"FREE", "NOWORKING"} = {}
    \/ \E i \in Threads : child[i] # "none" /\ ~ RangeOf(i) \subseteq Tasks

(* The count of tasks agrees with their flags through every order of set,   *)
(* start, stop and delete, and only a named task ends the process. *)
TimerInv == TypeOK /\ TaskSizeCounts /\ CrashCause

(* A call for a running task that a child covers returns, unless the task   *)
(* or the clock ends meanwhile: a notification that comes before the wait   *)
(* is followed by others. *)
CoveredReturns ==
  \A u \in Callers, t \in Tasks :
    (t \in called[u] /\ Running(t) /\ Covered(t))
      ~> (t \notin called[u] \/ ~ Running(t))


(* A task that is deleted while it works keeps its flag and loses its       *)
(* interval: the child that covers it ends the process. *)
DeletedKills ==
  \A t \in Tasks :
    ("WORKING" \in work_status[t] /\ activate_times[t] = 0 /\ Covered(t))
      ~> (crashed \/ clock = "ended" \/ "WORKING" \notin work_status[t])

(* When the clock thread has ended no task is counted any more, also not by *)
(* a child that wakes for no reason: the mutex went with the clock. *)
EndedForGood ==
  [][clock = "ended" => \A t \in Tasks : wake_times'[t] \in {wake_times[t], 0}]_vars
=============================================================================
