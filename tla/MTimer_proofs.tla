--------------------------- MODULE MTimer_proofs ---------------------------
(***************************************************************************)
(* For any numbers of slots, threads, controllers and callers: a child     *)
(* that scans holds the mutex, and the end of the clock thread, which      *)
(* keeps the mutex, is the end of counting.  With one controller the count *)
(* of tasks agrees with their flags, and only certain tasks end the        *)
(* process.                                                                *)
(*                                                                         *)
(* EndedForGood is about single steps and follows from the two last        *)
(* conjuncts of OwnerInv; the others are the types they need.              *)
(***************************************************************************)
EXTENDS MTimer, FiniteSetTheorems, TLAPS

OwnerInv ==
  /\ child \in [Threads -> {"none", "start", "wait", "notified", "scan", "count"}]
  /\ DOMAIN wake_times = Tasks
  /\ clock \in {"timing", "ended"}
  /\ \A i \in Threads : child[i] \in {"scan", "count"} => owner = i
  /\ clock = "ended" => owner = Clock

(* No thread is taken for the clock or for none. *)
LEMMA OwnersDiffer ==
  /\ Clock # None
  /\ \A i \in Threads : i # None /\ i # Clock
BY SizeAssumption DEF Clock, None, Threads

LEMMA OwnerInit == Init => OwnerInv
BY DEF Init, OwnerInv

(* The steps of a child: what it does with the mutex it does alone. *)
LEMMA ChildStep ==
  ASSUME OwnerInv, NEW i \in Threads, Child(i) \/ SpuriousWake(i)
  PROVE  OwnerInv'
<1> USE OwnersDiffer DEF OwnerInv
<1>1. CASE StartChild(i)
  BY <1>1 DEF StartChild, taskVars
<1>2. CASE SpuriousWake(i)
  BY <1>2 DEF SpuriousWake, taskVars
<1>3. CASE WakeChild(i)
  <2>1. \A j \in Threads : child[j] \notin {"scan", "count"}
    BY <1>3 DEF WakeChild
  <2>2. clock # "ended"
    BY <1>3 DEF WakeChild
  <2>3. QED
    BY <1>3, <2>1, <2>2 DEF WakeChild, taskVars
<1>4. CASE CheckTask(i)
  <2>1. owner = i /\ clock # "ended"
    BY <1>4 DEF CheckTask
  <2>2. \A j \in Threads : j # i => child[j] \notin {"scan", "count"}
    BY <2>1
  <2>3. \A j \in Threads : j # i => child'[j] = child[j]
    BY <1>4 DEF CheckTask
  <2>4. child' \in [Threads -> {"none", "start", "wait", "notified", "scan", "count"}]
    BY <1>4 DEF CheckTask
  <2>5. child'[i] = "wait" \/ owner' = i
    BY <1>4, <2>1 DEF CheckTask
  <2>6. UNCHANGED <<clock, wake_times>>
    BY <1>4 DEF CheckTask, taskVars
  <2>7. QED
    BY <2>1, <2>2, <2>3, <2>4, <2>5, <2>6
<1>5. CASE CountTask(i)
  <2>1. UNCHANGED <<owner, clock>> /\ DOMAIN wake_times' = Tasks
    BY <1>5 DEF CountTask
  <2>2. child[i] = "count" /\ child' = [child EXCEPT ![i] = "scan"]
    BY <1>5 DEF CountTask
  <2>3. QED
    BY <2>1, <2>2
<1>6. QED
  BY <1>1, <1>2, <1>3, <1>4, <1>5 DEF Child

(* The operations leave the mutex of the clock alone; a thread they create  *)
(* has not taken it. *)
LEMMA ControlStep ==
  ASSUME OwnerInv, NEW c \in Controllers, Control(c)
  PROVE  OwnerInv'
<1> USE DEF OwnerInv
<1>1. CASE FindTask(c)
  BY <1>1 DEF FindTask, taskVars, childVars
<1>2. ASSUME NEW t \in Tasks, StartTask(c, t) \/ StopTask(c, t) \/ DeleteTask(c, t)
      PROVE  OwnerInv'
  BY <1>2 DEF StartTask, StopTask, DeleteTask, childVars
<1>3. CASE TakeTask(c)
  BY <1>3 DEF TakeTask, childVars
<1>4. CASE CreateThread(c)
  <2>1. UNCHANGED <<owner, clock, wake_times>>
    BY <1>4 DEF CreateThread, taskVars
  <2>2. child' = [child EXCEPT ![ThreadPos(slot[c])] = "start"]
    BY <1>4 DEF CreateThread
  <2>3. QED
    BY <2>1, <2>2
<1>5. CASE CountThread(c)
  BY <1>5 DEF CountThread, taskVars, childVars
<1>6. CASE ClearActivate(c)
  BY <1>6 DEF ClearActivate, childVars
<1>7. CASE ClearWake(c)
  BY <1>7 DEF ClearWake, childVars
<1>8. QED
  BY <1>1, <1>2, <1>3, <1>4, <1>5, <1>6, <1>7 DEF Control, Finish

LEMMA OwnerStep == OwnerInv /\ [Next]_vars => OwnerInv'
<1> SUFFICES ASSUME OwnerInv, [Next]_vars PROVE OwnerInv'
  OBVIOUS
<1>1. CASE Tick
  <2>1. child' = [i \in Threads |->
                    IF child[i] = "wait" THEN "notified" ELSE child[i]]
    BY <1>1 DEF Tick
  <2>2. UNCHANGED <<owner, clock, wake_times>>
    BY <1>1 DEF Tick, taskVars
  <2>3. QED
    BY <2>1, <2>2 DEF OwnerInv
<1>2. CASE EndClock
  BY <1>2, OwnersDiffer DEF EndClock, OwnerInv, taskVars
<1>3. ASSUME NEW u \in Callers, Caller(u) PROVE OwnerInv'
  BY <1>3 DEF Caller, CallTask, SpuriousReturn, OwnerInv, taskVars, childVars
<1>4. CASE UNCHANGED vars
  BY <1>4 DEF vars, taskVars, childVars, OwnerInv
<1>5. QED
  BY <1>1, <1>2, <1>3, <1>4, ChildStep, ControlStep DEF Next

LEMMA OwnerInvariant == Spec => []OwnerInv
BY OwnerInit, OwnerStep, PTL DEF Spec

(* Once the clock thread has ended, no child counts a wake-up of any task:  *)
(* the mutex that every scan needs is never given back. *)
THEOREM ClockEndIsFinal == Spec => EndedForGood
<1>1. OwnerInv /\ [Next]_vars =>
        (clock = "ended" => \A t \in Tasks : wake_times'[t] \in {wake_times[t], 0})
  <2> SUFFICES ASSUME OwnerInv, [Next]_vars, clock = "ended", NEW t \in Tasks
               PROVE  wake_times'[t] \in {wake_times[t], 0}
    OBVIOUS
  <2>1. \A i \in Threads : ~ CountTask(i)
    BY OwnersDiffer DEF OwnerInv, CountTask
  <2>2. CASE wake_times' = wake_times
    BY <2>2
  <2>3. ASSUME NEW c \in Controllers, ClearWake(c)
        PROVE  wake_times'[t] \in {wake_times[t], 0}
    BY <2>3 DEF ClearWake, OwnerInv
  <2>4. ASSUME NEW i \in Threads, Child(i) \/ SpuriousWake(i)
        PROVE  wake_times' = wake_times
    BY <2>1, <2>4
    DEF Child, StartChild, WakeChild, CheckTask, SpuriousWake, taskVars
  <2>5. ASSUME NEW c \in Controllers, Control(c), ~ ClearWake(c)
        PROVE  wake_times' = wake_times
    BY <2>5 DEF Control, Finish, FindTask, StartTask, StopTask, DeleteTask,
      TakeTask, CreateThread, CountThread, ClearActivate, taskVars
  <2>6. ASSUME NEW u \in Callers, Caller(u) PROVE wake_times' = wake_times
    BY <2>6 DEF Caller, CallTask, SpuriousReturn, taskVars
  <2>7. CASE Tick \/ EndClock \/ UNCHANGED vars
    <3>1. wake_times' = wake_times
      BY <2>7 DEF Tick, EndClock, vars, taskVars
    <3>2. QED
      BY <3>1
  <2>8. QED
    BY <2>2, <2>3, <2>4, <2>5, <2>6, <2>7 DEF Next
<1>2. QED
  BY OwnerInvariant, <1>1, PTL DEF Spec, EndedForGood

-----------------------------------------------------------------------------
(* One thread sets, starts, stops and deletes the tasks.  With two, a slot   *)
(* found free is taken twice, and a task that is being counted can be handed *)
(* out again.                                                                *)
OneController == \A c, d \in Controllers : c = d

(* What a flag word holds: a working task is neither free nor not working;   *)
(* what was found free is free when it is taken; and a child counts a task   *)
(* of its range that was working when the child looked at it.                *)
FlagsAgree ==
  /\ DOMAIN pos = Threads
  /\ \A t \in Tasks :
       "WORKING" \in work_status[t] => work_status[t] \cap {"FREE", "NOWORKING"} = {}
  /\ \A c \in Controllers : pc[c] = "take" => "FREE" \in work_status[slot[c]]
  /\ \A i \in Threads : child[i] = "count" =>
       /\ pos[i] \in RangeOf(i) \cap Tasks
       /\ work_status[pos[i]] \cap {"FREE", "NOWORKING"} = {}

(* A thread that runs is counted, or the controller is about to count it.    *)
ThreadsCounted ==
  \A i \in Threads : child[i] # "none" /\ ~ used[i] =>
    \E c \in Controllers : pc[c] = "created" /\ ThreadPos(slot[c]) = i

TInv == TypeOK /\ FlagsAgree /\ ThreadsCounted /\ TaskSizeCounts /\ CrashCause

SetTasks == {t \in Tasks : "FREE" \notin work_status[t]}

LEMMA TasksFinite ==
  /\ IsFiniteSet(Tasks)
  /\ IsFiniteSet(SetTasks)
<1>1. IsFiniteSet(Tasks)
  BY SizeAssumption, FS_Interval DEF Tasks
<1>2. SetTasks \subseteq Tasks
  BY DEF SetTasks
<1> QED
  BY <1>1, <1>2, FS_Subset

LEMMA SizeFacts ==
  /\ MaxThreadSize \in Nat /\ 0 \in Threads /\ 0 \in Tasks
  /\ \A t \in Tasks : ThreadPos(t) \in Threads
  /\ WakePeriod \in Nat /\ WakePeriod > 0
  /\ \A n \in Nat : n % WakePeriod \in 0 .. WakePeriod - 1
BY SizeAssumption, IntervalAssumption DEF Threads, Tasks, ThreadPos

LEMMA TInvInit == Init => TInv
<1> SUFFICES ASSUME Init PROVE TInv
  OBVIOUS
<1>1. TypeOK
  <2>1. /\ work_status \in [Tasks -> SUBSET Flags]
        /\ activate_times \in [Tasks -> Intervals \cup {0}]
        /\ wake_times \in [Tasks -> 0 .. WakePeriod - 1]
    BY SizeFacts DEF Init, Flags
  <2>2. /\ used \in [Threads -> BOOLEAN] /\ pc \in [Controllers -> {"idle", "take", "create", "created", "zero", "reset"}]
        /\ child \in [Threads -> {"none", "start", "wait", "notified", "scan", "count"}]
        /\ \A i \in Threads : child[i] # "count"
    BY DEF Init
  <2>3. slot \in [Controllers -> Tasks] /\ called \in [Callers -> {{}} \cup {{t} : t \in Tasks}]
    BY SizeFacts DEF Init
  <2> QED
    BY <2>1, <2>2, <2>3 DEF Init, TypeOK
<1>2. FlagsAgree
  BY DEF Init, FlagsAgree
<1>3. ThreadsCounted
  BY DEF Init, ThreadsCounted
<1>4. TaskSizeCounts
  <2>1. {t \in Tasks : "FREE" \notin work_status[t]} = {}
    BY DEF Init
  <2> QED
    BY <2>1, FS_EmptySet DEF Init, TaskSizeCounts
<1>5. CrashCause
  BY DEF Init, CrashCause
<1> QED
  BY <1>1, <1>2, <1>3, <1>4, <1>5 DEF TInv

(* The child threads: they count tasks, and end the process by the two       *)
(* causes that CrashCause names.                                             *)
LEMMA TInvChild ==
  ASSUME TInv, NEW i \in Threads, Child(i) \/ SpuriousWake(i)
  PROVE  TInv'
<1>t. /\ child \in [Threads -> {"none", "start", "wait", "notified", "scan", "count"}]
      /\ DOMAIN pos = Threads /\ ~ crashed /\ TypeOK
      /\ UNCHANGED <<work_status, activate_times, task_size, used, clock, pc, slot>>
      /\ child[i] # "none"
  BY DEF TInv, TypeOK, FlagsAgree, Child, SpuriousWake, StartChild, WakeChild, CheckTask,
         CountTask, taskVars
<1>1. /\ child' \in [Threads -> {"none", "start", "wait", "notified", "scan", "count"}]
      /\ owner' \in Threads \cup {None, Clock}
      /\ DOMAIN pos' = Threads
      /\ \A j \in Threads : j # i => child'[j] = child[j] /\ pos'[j] = pos[j]
      /\ child'[i] # "none"
  BY <1>t DEF TypeOK, Child, SpuriousWake, StartChild, WakeChild, CheckTask, CountTask
<1>2. child'[i] = "count" =>
        /\ pos'[i] \in RangeOf(i) \cap Tasks
        /\ work_status[pos'[i]] \cap {"FREE", "NOWORKING"} = {}
  <2>1. CASE CheckTask(i)
    <3>1. child'[i] = "count" =>
            /\ pos' = pos /\ pos[i] \in RangeOf(i) \cap Tasks /\ "WORKING" \in work_status[pos[i]]
      BY <1>t, <2>1 DEF CheckTask
    <3> QED
      BY <3>1 DEF TInv, FlagsAgree
  <2>2. CASE ~ CheckTask(i)
    <3>1. child'[i] # "count"
      BY <1>t, <2>2 DEF Child, SpuriousWake, StartChild, WakeChild, CountTask
    <3> QED
      BY <3>1
  <2> QED
    BY <2>1, <2>2
<1>3. wake_times' \in [Tasks -> 0 .. WakePeriod - 1]
  <2>1. CASE CountTask(i)
    <3>1. pos[i] \in Tasks
      BY <2>1, <1>t DEF TypeOK, CountTask
    <3>2. wake_times[pos[i]] + 1 \in Nat
      BY <1>t, <3>1, SizeFacts DEF TypeOK
    <3> DEFINE w == (wake_times[pos[i]] + 1) % WakePeriod
    <3>3. w \in 0 .. WakePeriod - 1
      BY <3>2, SizeFacts
    <3>4. wake_times' = [wake_times EXCEPT ![pos[i]] = w]
      BY <2>1 DEF CountTask
    <3> HIDE DEF w
    <3> QED
      BY <1>t, <3>3, <3>4 DEF TypeOK
  <2>2. CASE ~ CountTask(i)
    <3>1. wake_times' = wake_times
      BY <2>2 DEF Child, SpuriousWake, StartChild, WakeChild, CheckTask, taskVars
    <3> QED
      BY <1>t, <3>1 DEF TypeOK
  <2> QED
    BY <2>1, <2>2
<1>4. called' \in [Callers -> {{}} \cup {{t} : t \in Tasks}] /\ crashed' \in BOOLEAN
  <2>1. CASE CountTask(i)
    <3>1. crashed' \in BOOLEAN
      BY <1>t, <2>1 DEF CountTask, TypeOK
    <3>2. PICK yes \in BOOLEAN :
            \/ called' = called
            \/ called' = [u \in Callers |-> IF yes THEN called[u] \ {pos[i]} ELSE called[u]]
      <4> DEFINE w == (wake_times[pos[i]] + 1) % WakePeriod
      <4> DEFINE yes == w % activate_times[pos[i]] <= 1
      <4>1. \/ called' = called
            \/ called' = [u \in Callers |-> IF yes THEN called[u] \ {pos[i]} ELSE called[u]]
        BY <2>1 DEF CountTask
      <4> HIDE DEF yes
      <4>2. CASE yes
        <5>1. \/ called' = called
              \/ called' = [u \in Callers |-> IF TRUE THEN called[u] \ {pos[i]} ELSE called[u]]
          BY <4>1, <4>2
        <5> QED
          BY <5>1
      <4>3. CASE ~ yes
        <5>1. \/ called' = called
              \/ called' = [u \in Callers |-> IF FALSE THEN called[u] \ {pos[i]} ELSE called[u]]
          BY <4>1, <4>3
        <5> QED
          BY <5>1
      <4> QED
        BY <4>2, <4>3
    <3>3. ASSUME NEW u \in Callers
          PROVE  called[u] \ {pos[i]} \in {{}} \cup {{t} : t \in Tasks}
      <4>1. called[u] = {} \/ \E t \in Tasks : called[u] = {t}
        BY <1>t DEF TypeOK
      <4> QED
        BY <4>1
    <3> QED
      BY <1>t, <3>1, <3>2, <3>3 DEF TypeOK
  <2>2. CASE ~ CountTask(i)
    BY <1>t, <2>2 DEF Child, SpuriousWake, StartChild, WakeChild, CheckTask, TypeOK
  <2> QED
    BY <2>1, <2>2
<1>5. TypeOK'
  <2>1. \A j \in Threads : child'[j] = "count" => pos'[j] \in Tasks
    BY <1>t, <1>1, <1>2 DEF TypeOK
  <2> QED
    BY <1>t, <1>1, <1>3, <1>4, <2>1 DEF TypeOK
<1>6. FlagsAgree'
  BY <1>t, <1>1, <1>2 DEF TInv, FlagsAgree, RangeOf, MinPos, MaxPos
<1>7. ThreadsCounted'
  BY <1>t, <1>1 DEF TInv, ThreadsCounted
<1>8. TaskSizeCounts'
  BY <1>t DEF TInv, TaskSizeCounts
<1>9. CrashCause'
  <2>1. CASE CountTask(i) /\ activate_times[pos[i]] = 0
    <3> DEFINE t == pos[i]
    <3>1. t \in Tasks /\ t \in RangeOf(i) /\ work_status'[t] \cap {"FREE", "NOWORKING"} = {}
          /\ activate_times'[t] = 0
      BY <1>t, <2>1 DEF CountTask, TInv, FlagsAgree
    <3> HIDE DEF t
    <3>2. \E j \in Threads : child'[j] # "none" /\ t \in RangeOf(j)
      BY <1>1, <3>1
    <3> QED
      BY <3>1, <3>2 DEF CrashCause, Covered
  <2>2. CASE CheckTask(i) /\ pos[i] \in RangeOf(i) \ Tasks
    <3>1. child'[i] # "none" /\ ~ RangeOf(i) \subseteq Tasks
      BY <1>1, <2>2
    <3> QED
      BY <3>1 DEF CrashCause
  <2>3. CASE crashed' = crashed
    BY <1>t, <2>3 DEF CrashCause
  <2>4. CASE CheckTask(i)
    BY <2>2, <2>3, <2>4 DEF CheckTask
  <2>5. CASE CountTask(i)
    BY <2>1, <2>3, <2>5 DEF CountTask
  <2>6. CASE StartChild(i) \/ WakeChild(i) \/ SpuriousWake(i)
    BY <2>3, <2>6 DEF SpuriousWake, StartChild, WakeChild
  <2> QED
    BY <2>4, <2>5, <2>6 DEF Child
<1> QED
  BY <1>5, <1>6, <1>7, <1>8, <1>9 DEF TInv

(* The operations of the one controller.                                     *)
LEMMA TInvControl ==
  ASSUME OneController, TInv, NEW c \in Controllers, Control(c)
  PROVE  TInv'
<1> DEFINE Pcs == {"idle", "take", "create", "created", "zero", "reset"}
<1> DEFINE s == slot[c]
<1>0. \A d \in Controllers : d = c
  BY DEF OneController
<1>t. /\ TypeOK /\ ~ crashed /\ s \in Tasks /\ pc \in [Controllers -> Pcs]
      /\ slot \in [Controllers -> Tasks]
      /\ work_status \in [Tasks -> SUBSET Flags] /\ task_size \in Nat
      /\ activate_times \in [Tasks -> Intervals \cup {0}]
      /\ wake_times \in [Tasks -> 0 .. WakePeriod - 1]
      /\ used \in [Threads -> BOOLEAN]
      /\ child \in [Threads -> {"none", "start", "wait", "notified", "scan", "count"}]
  BY DEF TInv, TypeOK, Control, Finish, FindTask, StartTask, StopTask, DeleteTask, TakeTask,
         CreateThread, CountThread, ClearActivate, ClearWake, Goto
<1>f. /\ DOMAIN pos = Threads
      /\ \A t \in Tasks :
           "WORKING" \in work_status[t] => work_status[t] \cap {"FREE", "NOWORKING"} = {}
      /\ pc[c] = "take" => "FREE" \in work_status[s]
      /\ \A i \in Threads : child[i] = "count" =>
           /\ pos[i] \in RangeOf(i) \cap Tasks
           /\ work_status[pos[i]] \cap {"FREE", "NOWORKING"} = {}
  BY DEF TInv, FlagsAgree
<1>u. ASSUME pc[c] # "created" PROVE \A i \in Threads : child[i] # "none" => used[i]
  BY <1>0, <1>u DEF TInv, ThreadsCounted
<1>z. task_size = Cardinality(SetTasks)
  BY DEF TInv, TaskSizeCounts, SetTasks
<1> HIDE DEF s
<1>1. CASE FindTask(c)
  <2>1. PICK t \in Tasks : "FREE" \in work_status[t] /\ slot' = [slot EXCEPT ![c] = t]
    BY <1>1 DEF FindTask
  <2>2. /\ pc[c] = "idle" /\ pc' = [pc EXCEPT ![c] = "take"]
        /\ UNCHANGED <<taskVars, used, childVars, clock, called, crashed>>
    BY <1>1 DEF FindTask, Goto
  <2>3. TypeOK'
    BY <1>t, <2>1, <2>2 DEF TypeOK, taskVars, childVars
  <2>4. FlagsAgree'
    BY <1>0, <1>f, <1>t, <2>1, <2>2 DEF FlagsAgree, taskVars, childVars
  <2>5. ThreadsCounted'
    BY <1>u, <2>2 DEF ThreadsCounted, childVars
  <2>6. TaskSizeCounts' /\ CrashCause'
    BY <1>t, <2>2 DEF TInv, TaskSizeCounts, CrashCause, taskVars
  <2> QED
    BY <2>3, <2>4, <2>5, <2>6 DEF TInv
<1>2. CASE TakeTask(c)
  <2>1. PICK n \in Intervals : activate_times' = [activate_times EXCEPT ![s] = n]
    BY <1>2 DEF TakeTask, s
  <2>2. /\ pc[c] = "take" /\ pc' = [pc EXCEPT ![c] = "idle"]
        /\ work_status' = [work_status EXCEPT ![s] = {"BUSY", "NOWORKING"}]
        /\ task_size' = task_size + 1
        /\ UNCHANGED <<wake_times, used, childVars, clock, slot, called, crashed>>
    BY <1>2 DEF TakeTask, Goto, s
  <2>3. work_status' \in [Tasks -> SUBSET Flags]
    BY <1>t, <2>2 DEF Flags
  <2>4. TypeOK'
    BY <1>t, <2>1, <2>2, <2>3 DEF TypeOK, childVars
  <2>5. FlagsAgree'
    <3>1. \A t \in Tasks :
            "WORKING" \in work_status'[t] => work_status'[t] \cap {"FREE", "NOWORKING"} = {}
      BY <1>f, <1>t, <2>2
    <3>2. \A i \in Threads : child[i] = "count" => pos[i] # s
      BY <1>f, <2>2
    <3>3. \A d \in Controllers : pc'[d] # "take"
      BY <1>0, <1>t, <2>2
    <3> QED
      BY <1>f, <1>t, <2>2, <3>1, <3>2, <3>3 DEF FlagsAgree, childVars
  <2>6. ThreadsCounted'
    BY <1>u, <2>2 DEF ThreadsCounted, childVars
  <2>7. TaskSizeCounts'
    <3>1. SetTasks' = SetTasks \cup {s} /\ s \notin SetTasks
      BY <1>f, <1>t, <2>2 DEF SetTasks
    <3>2. Cardinality(SetTasks') = Cardinality(SetTasks) + 1
      BY <3>1, TasksFinite, FS_AddElement
    <3> QED
      BY <1>z, <2>2, <3>2 DEF TaskSizeCounts, SetTasks
  <2>8. CrashCause'
    BY <1>t, <2>2 DEF CrashCause
  <2> QED
    BY <2>4, <2>5, <2>6, <2>7, <2>8 DEF TInv
<1>3. ASSUME NEW t \in Tasks, "FREE" \notin work_status[t], NEW w \in SUBSET Flags,
             work_status' = [work_status EXCEPT ![t] = w],
             "FREE" \notin w, w \subseteq {"BUSY", "WORKING"} \/ w \subseteq work_status[t],
             UNCHANGED <<activate_times, wake_times, task_size, used, childVars, clock,
                         called, crashed>>,
             pc[c] = "idle", NEW l \in {"idle", "create", "zero"},
             pc' = [pc EXCEPT ![c] = l], slot' \in [Controllers -> Tasks]
      PROVE  TInv'
  <2>1. TypeOK'
    BY <1>3, <1>t DEF TypeOK, childVars
  <2>2. FlagsAgree'
    <3>1. w \subseteq work_status[t] \/ w \cap {"FREE", "NOWORKING"} = {}
      BY <1>3
    <3>2. \A r \in Tasks :
            "WORKING" \in work_status'[r] => work_status'[r] \cap {"FREE", "NOWORKING"} = {}
      BY <1>3, <1>f, <1>t, <3>1
    <3>3. \A i \in Threads : child[i] = "count" =>
            work_status'[pos[i]] \cap {"FREE", "NOWORKING"} = {}
      BY <1>3, <1>f, <1>t, <3>1
    <3>4. \A d \in Controllers : pc'[d] # "take"
      BY <1>0, <1>3, <1>t
    <3> QED
      BY <1>3, <1>f, <3>2, <3>3, <3>4 DEF FlagsAgree, childVars
  <2>3. ThreadsCounted'
    BY <1>3, <1>u DEF ThreadsCounted, childVars
  <2>4. TaskSizeCounts'
    <3>1. SetTasks' = SetTasks
      BY <1>3, <1>t DEF SetTasks
    <3> QED
      BY <1>3, <1>z, <3>1 DEF TaskSizeCounts, SetTasks
  <2>5. CrashCause'
    BY <1>3, <1>t DEF CrashCause
  <2> QED
    BY <2>1, <2>2, <2>3, <2>4, <2>5 DEF TInv
<1>4. ASSUME NEW t \in Tasks, StartTask(c, t) PROVE TInv'
  <2> DEFINE w == {"BUSY", "WORKING"}
  <2>1. /\ "FREE" \notin work_status[t] /\ work_status' = [work_status EXCEPT ![t] = w]
        /\ pc[c] = "idle" /\ pc' = [pc EXCEPT ![c] = "create"]
        /\ UNCHANGED <<activate_times, wake_times, task_size, used, childVars, clock,
                       called, crashed>>
    BY <1>4 DEF StartTask, Goto
  <2>2. slot' \in [Controllers -> Tasks]
    BY <1>4, <1>t DEF StartTask
  <2>3. w \in SUBSET Flags /\ "FREE" \notin w /\ w \subseteq {"BUSY", "WORKING"}
    BY DEF Flags
  <2> HIDE DEF w
  <2> QED
    BY <1>3, <2>1, <2>2, <2>3
<1>5. ASSUME NEW t \in Tasks, StopTask(c, t) PROVE TInv'
  <2> DEFINE w == work_status[t] \cap {"BUSY", "NOWORKING"}
  <2>1. /\ "FREE" \notin work_status[t] /\ work_status' = [work_status EXCEPT ![t] = w]
        /\ pc[c] = "idle" /\ pc' = pc /\ slot' = slot
        /\ UNCHANGED <<activate_times, wake_times, task_size, used, childVars, clock,
                       called, crashed>>
    BY <1>5 DEF StopTask
  <2>2. pc' = [pc EXCEPT ![c] = "idle"] /\ slot' \in [Controllers -> Tasks]
    BY <1>t, <2>1
  <2>3. w \in SUBSET Flags /\ "FREE" \notin w /\ w \subseteq work_status[t]
    BY DEF Flags
  <2> HIDE DEF w
  <2> QED
    BY <1>3, <2>1, <2>2, <2>3
<1>6. ASSUME NEW t \in Tasks, DeleteTask(c, t) PROVE TInv'
  <2> DEFINE w == work_status[t] \cap {"FREE", "WORKING"}
  <2>1. /\ "FREE" \notin work_status[t] /\ work_status' = [work_status EXCEPT ![t] = w]
        /\ pc[c] = "idle" /\ pc' = [pc EXCEPT ![c] = "zero"]
        /\ UNCHANGED <<activate_times, wake_times, task_size, used, childVars, clock,
                       called, crashed>>
    BY <1>6 DEF DeleteTask, Goto
  <2>2. slot' \in [Controllers -> Tasks]
    BY <1>6, <1>t DEF DeleteTask
  <2>3. w \in SUBSET Flags /\ "FREE" \notin w /\ w \subseteq work_status[t]
    BY <2>1 DEF Flags
  <2> HIDE DEF w
  <2> QED
    BY <1>3, <2>1, <2>2, <2>3
<1>7. CASE CreateThread(c)
  <2> DEFINE i == ThreadPos(s)
  <2>1. /\ pc[c] = "create" /\ ~ used[i] /\ pc' = [pc EXCEPT ![c] = "created"]
        /\ child' = [child EXCEPT ![i] = "start"]
        /\ crashed' = (child[i] # "none")
        /\ UNCHANGED <<taskVars, used, pos, owner, clock, slot, called>>
    BY <1>7 DEF CreateThread, s
  <2>2. i \in Threads
    BY <1>t, SizeFacts
  <2>3. slot'[c] = s
    BY <2>1 DEF s
  <2>4. child[i] = "none"
    BY <1>u, <2>1, <2>2
  <2>5. ThreadsCounted'
    <3>1. pc'[c] = "created" /\ ThreadPos(slot'[c]) = i
      BY <1>t, <2>1, <2>3
    <3>2. \A j \in Threads : j # i => (child'[j] # "none" => used[j])
      BY <1>t, <1>u, <2>1
    <3> HIDE DEF i
    <3> QED
      BY <2>1, <3>1, <3>2 DEF ThreadsCounted
  <2>6. ~ crashed' /\ child'[i] = "start" /\ \A j \in Threads : j # i => child'[j] = child[j]
    BY <1>t, <2>1, <2>2, <2>4
  <2> HIDE DEF i
  <2>7. child' \in [Threads -> {"none", "start", "wait", "notified", "scan", "count"}]
        /\ pc' \in [Controllers -> Pcs]
    BY <1>t, <2>1, <2>2
  <2>8. \A j \in Threads : child'[j] = "count" => child[j] = "count"
    BY <2>6
  <2>9. TypeOK'
    BY <1>t, <2>1, <2>6, <2>7, <2>8 DEF TypeOK, taskVars
  <2>10. FlagsAgree'
    <3>1. \A d \in Controllers : pc'[d] # "take"
      BY <1>0, <1>t, <2>1
    <3> QED
      BY <1>f, <2>1, <2>8, <3>1 DEF FlagsAgree, taskVars, RangeOf, MinPos, MaxPos
  <2>11. TaskSizeCounts' /\ CrashCause'
    BY <2>1, <2>6 DEF TInv, TaskSizeCounts, CrashCause, taskVars
  <2> QED
    BY <2>5, <2>9, <2>10, <2>11 DEF TInv
<1>8. CASE CountThread(c)
  <2> DEFINE i == ThreadPos(s)
  <2>1. /\ pc[c] \in {"create", "created"} /\ pc' = [pc EXCEPT ![c] = "idle"]
        /\ used' = [used EXCEPT ![i] = TRUE]
        /\ UNCHANGED <<taskVars, childVars, clock, slot, called, crashed>>
    BY <1>8 DEF CountThread, s
  <2>2. i \in Threads
    BY <1>t, SizeFacts
  <2>3. \A j \in Threads : child[j] # "none" => used[j] \/ j = i
    BY <1>0, <1>u, <2>1 DEF TInv, ThreadsCounted, s
  <2> HIDE DEF i
  <2>4. ThreadsCounted'
    BY <1>t, <2>1, <2>2, <2>3 DEF ThreadsCounted, childVars
  <2>5. TypeOK'
    BY <1>t, <2>1, <2>2 DEF TypeOK, taskVars, childVars
  <2>6. FlagsAgree'
    <3>1. \A d \in Controllers : pc'[d] # "take"
      BY <1>0, <1>t, <2>1
    <3> QED
      BY <1>f, <2>1, <3>1 DEF FlagsAgree, taskVars, childVars, RangeOf, MinPos, MaxPos
  <2>7. TaskSizeCounts' /\ CrashCause'
    BY <1>t, <2>1 DEF TInv, TaskSizeCounts, CrashCause, taskVars
  <2> QED
    BY <2>4, <2>5, <2>6, <2>7 DEF TInv
<1>9. CASE ClearActivate(c) \/ ClearWake(c)
  <2>1. /\ pc[c] \in {"zero", "reset"}
        /\ UNCHANGED <<work_status, task_size, used, childVars, clock, slot, called, crashed>>
    BY <1>9 DEF ClearActivate, ClearWake, Goto
  <2>2. pc' \in [Controllers -> Pcs] /\ pc'[c] # "take"
    BY <1>9, <1>t DEF ClearActivate, ClearWake, Goto
  <2>3. activate_times' \in [Tasks -> Intervals \cup {0}]
    BY <1>9, <1>t DEF ClearActivate, ClearWake
  <2>4. wake_times' \in [Tasks -> 0 .. WakePeriod - 1]
    <3>1. 0 \in 0 .. WakePeriod - 1
      BY SizeFacts
    <3> QED
      BY <1>9, <1>t, <3>1 DEF ClearActivate, ClearWake
  <2>5. TypeOK'
    BY <1>t, <2>1, <2>2, <2>3, <2>4 DEF TypeOK, childVars
  <2>6. FlagsAgree'
    BY <1>0, <1>f, <2>1, <2>2 DEF FlagsAgree, childVars, RangeOf, MinPos, MaxPos
  <2>7. ThreadsCounted'
    BY <1>u, <2>1 DEF ThreadsCounted, childVars
  <2>8. TaskSizeCounts' /\ CrashCause'
    BY <1>t, <2>1 DEF TInv, TaskSizeCounts, CrashCause
  <2> QED
    BY <2>5, <2>6, <2>7, <2>8 DEF TInv
<1> QED
  BY <1>1, <1>2, <1>4, <1>5, <1>6, <1>7, <1>8, <1>9 DEF Control, Finish

LEMMA TInvStep == OneController /\ TInv /\ [Next]_vars => TInv'
<1> SUFFICES ASSUME OneController, TInv, [Next]_vars PROVE TInv'
  OBVIOUS
<1>1. ASSUME ~ crashed, ~ crashed', UNCHANGED <<taskVars, used, pos, pc, slot>>,
             \A i \in Threads : child'[i] # "none" <=> child[i] # "none",
             \A i \in Threads : child'[i] = "count" => child[i] = "count"
      PROVE  FlagsAgree' /\ ThreadsCounted' /\ TaskSizeCounts' /\ CrashCause'
  <2>0. /\ work_status' = work_status /\ pos' = pos /\ pc' = pc /\ slot' = slot /\ used' = used
    BY <1>1 DEF taskVars
  <2>3. \A i \in Threads : (child'[i] # "none" => child[i] # "none")
                         /\ (child'[i] = "count" => child[i] = "count")
    BY <1>1, Zenon
  <2>1. FlagsAgree'
    BY <2>0, <2>3, Zenon DEF TInv, FlagsAgree, RangeOf, MinPos, MaxPos, PerThread
  <2>2. ThreadsCounted'
    <3> SUFFICES ASSUME NEW i \in Threads, child'[i] # "none", ~ used'[i]
                 PROVE  \E c \in Controllers : pc'[c] = "created" /\ ThreadPos(slot'[c]) = i
      BY DEF ThreadsCounted
    <3>1. \E c \in Controllers : pc[c] = "created" /\ ThreadPos(slot[c]) = i
      BY <2>0, <2>3 DEF TInv, ThreadsCounted
    <3> QED
      BY <2>0, <3>1
  <2>4. TaskSizeCounts' /\ CrashCause'
    BY <1>1 DEF TInv, TaskSizeCounts, CrashCause, taskVars
  <2> QED
    BY <2>1, <2>2, <2>4
<1>2. CASE Tick
  <2>1. child' = [i \in Threads |-> IF child[i] = "wait" THEN "notified" ELSE child[i]]
        /\ ~ crashed /\ UNCHANGED <<taskVars, used, pos, owner, clock, pc, slot, called, crashed>>
    BY <1>2 DEF Tick
  <2>2. /\ \A i \in Threads : child'[i] # "none" <=> child[i] # "none"
        /\ \A i \in Threads : child'[i] = "count" => child[i] = "count"
    BY <2>1
  <2>3. child' \in [Threads -> {"none", "start", "wait", "notified", "scan", "count"}]
    BY <2>1 DEF TInv, TypeOK
  <2>4. TypeOK'
    BY <2>1, <2>2, <2>3 DEF TInv, TypeOK, taskVars
  <2> QED
    BY <1>1, <2>1, <2>2, <2>4 DEF TInv
<1>3. CASE EndClock
  <2>1. TypeOK'
    BY <1>3 DEF EndClock, TInv, TypeOK, taskVars
  <2> QED
    BY <1>1, <1>3, <2>1 DEF EndClock, TInv
<1>4. ASSUME NEW u \in Callers, Caller(u) PROVE TInv'
  <2>1. ~ crashed /\ UNCHANGED <<taskVars, used, childVars, clock, pc, slot, crashed>>
    BY <1>4 DEF Caller, CallTask, SpuriousReturn
  <2>2. called' \in [Callers -> {{}} \cup {{t} : t \in Tasks}]
    BY <1>4 DEF Caller, CallTask, SpuriousReturn, TInv, TypeOK
  <2>3. TypeOK'
    BY <2>1, <2>2 DEF TInv, TypeOK, taskVars, childVars
  <2> QED
    BY <1>1, <2>1, <2>3 DEF TInv, childVars
<1>5. CASE UNCHANGED vars
  BY <1>5 DEF vars, taskVars, childVars, TInv, TypeOK, FlagsAgree, ThreadsCounted, TaskSizeCounts,
              CrashCause, Covered, RangeOf, MinPos, MaxPos
<1> QED
  BY <1>2, <1>3, <1>4, <1>5, TInvChild, TInvControl DEF Next

(* With one controller, for any numbers of slots, threads, callers and       *)
(* intervals: the count of tasks agrees with their flags through every order *)
(* of operations, and the process ends by itself only for the causes that    *)
(* CrashCause names.                                                         *)
THEOREM TimerCorrect == ASSUME OneController PROVE Spec => []TimerInv
<1>1. Init => TInv
  BY TInvInit
<1>2. TInv /\ [Next]_vars => TInv'
  BY TInvStep
<1>3. TInv => TimerInv
  BY DEF TInv, TimerInv
<1> QED
  BY <1>1, <1>2, <1>3, PTL DEF Spec
=============================================================================
