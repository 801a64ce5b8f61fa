---------------------------- MODULE AnnularQueue ----------------------------
(***************************************************************************)
(* What MSyncAnnularQueue promises its callers: a bounded first-in         *)
(* first-out queue shared by threads, whose push never fails and never     *)
(* waits, because a push on a full queue gives up the oldest element.      *)
(*                                                                         *)
(* An element is identified by its place in the order of the pushes: the   *)
(* first push stores 1, the second 2, and so on.  Neither push, nor pop,   *)
(* nor front looks into an element, so nothing is lost by that choice.     *)
(***************************************************************************)
EXTENDS Naturals, Sequences

CONSTANTS
  Threads,  \* the callers
  Bound     \* how many elements the queue keeps

VARIABLES
  q,        \* the queue, the oldest element first
  pushes,   \* how many pushes have taken effect
  took      \* took[t]: what front() last gave to t, 0 standing for nullptr

vars == <<q, pushes, took>>

Init ==
  /\ q = <<>>
  /\ pushes = 0
  /\ took = [t \in Threads |-> 0]

(* The newest Bound elements of s, which holds at most one too many. *)
Keep(s) == IF Len(s) > Bound THEN Tail(s) ELSE s

Push ==
  /\ pushes' = pushes + 1
  /\ q' = Keep(Append(q, pushes + 1))
  /\ UNCHANGED took

Pop ==
  /\ q # <<>>
  /\ q' = Tail(q)
  /\ UNCHANGED <<pushes, took>>

Front(t) ==
  /\ took' = [took EXCEPT ![t] = IF q = <<>> THEN 0 ELSE Head(q)]
  /\ UNCHANGED <<q, pushes>>

Next ==
  \/ Push
  \/ Pop
  \/ \E t \in Threads : Front(t)

Spec == Init /\ [][Next]_vars
=============================================================================
