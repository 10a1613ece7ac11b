------------------------------ MODULE Rendezvous ------------------------------
(***************************************************************************)
(* What SP::Exchange<T, U> promises (payload/sp/Exchange.hh): a call of    *)
(* left(t) and a call of right(u) are paired, in one instant, and each     *)
(* returns the argument of the other.  Calls of one side are served one at *)
(* a time; no value is lost, duplicated or handed to a third caller.       *)
(***************************************************************************)
CONSTANTS Lefts,        \* the threads that call left()
          Rights,       \* the threads that call right()
          LeftValues,   \* T, the arguments of left()
          RightValues,  \* U, the arguments of right()
          NoValue       \* no argument, or no result yet

VARIABLES state,   \* the thread's progress: "idle", "calling" or "matched"
          arg,     \* the argument of its current call
          result   \* what its current call will return

vars == <<state, arg, result>>

Threads == Lefts \cup Rights

ArgsOf(t) == IF t \in Lefts THEN LeftValues ELSE RightValues

Init ==
  /\ state = [t \in Threads |-> "idle"]
  /\ arg = [t \in Threads |-> NoValue]
  /\ result = [t \in Threads |-> NoValue]

Call(t, v) ==
  /\ state[t] = "idle"
  /\ state' = [state EXCEPT ![t] = "calling"]
  /\ arg' = [arg EXCEPT ![t] = v]
  /\ UNCHANGED result

\* Both sides are in their call: the arguments change hands.
Match(l, r) ==
  /\ state[l] = "calling"
  /\ state[r] = "calling"
  /\ state' = [state EXCEPT ![l] = "matched", ![r] = "matched"]
  /\ result' = [result EXCEPT ![l] = arg[r], ![r] = arg[l]]
  /\ UNCHANGED arg

Return(t) ==
  /\ state[t] = "matched"
  /\ state' = [state EXCEPT ![t] = "idle"]
  /\ arg' = [arg EXCEPT ![t] = NoValue]
  /\ result' = [result EXCEPT ![t] = NoValue]

Next ==
  \/ \E t \in Threads : (\E v \in ArgsOf(t) : Call(t, v)) \/ Return(t)
  \/ \E l \in Lefts, r \in Rights : Match(l, r)

Spec == Init /\ [][Next]_vars
===============================================================================
