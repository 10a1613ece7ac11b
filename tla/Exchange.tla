------------------------------- MODULE Exchange -------------------------------
(***************************************************************************)
(* SP::Exchange<T, U> (payload/sp/Exchange.hh): the two-sided rendezvous   *)
(* the loader thread and its callers hand chunks over with.  Each side has *)
(* a mutex, held for the whole call, an optional slot and a thread queue.  *)
(* The body runs with interrupts disabled, so it is atomic between the     *)
(* points where the scheduler can switch threads: OSLockMutex,             *)
(* OSSleepThread, OSWakeupThread (it reschedules when the woken thread has *)
(* the higher priority) and the end of the NoInterrupts scope.             *)
(*                                                                         *)
(* left() and right() are the same text with the sides swapped, and are    *)
(* modelled once, for the side s of the calling thread.                    *)
(***************************************************************************)


CONSTANTS Lefts, Rights, LeftValues, RightValues, NoValue, NoThread

ASSUME ExchangeAssumption ==
  /\ Lefts \cap Rights = {}
  /\ NoThread \notin Lefts \cup Rights
  /\ NoValue \notin LeftValues \cup RightValues

Sides == {"left", "right"}
Threads == Lefts \cup Rights
Values == LeftValues \cup RightValues

SideOf(t) == IF t \in Lefts THEN "left" ELSE "right"
Other(s) == IF s = "left" THEN "right" ELSE "left"
ArgsOf(t) == IF t \in Lefts THEN LeftValues ELSE RightValues

VARIABLES owner,  \* per side: the thread that holds m_leftMutex, m_rightMutex
          slot,   \* per side: m_left, m_right
          pc,     \* per thread: where its call stands
          arg,    \* per thread: the parameter of the call
          ret     \* per thread: the local that is returned

vars == <<owner, slot, pc, arg, ret>>

(***************************************************************************)
(* "idle"    not in the call             "lock"   about to lock the mutex  *)
(* "enter"   mutex held, at the emplace                                    *)
(* "wait"    asleep, waiting for the other side to arrive                  *)
(* "resume"  woken from "wait"                                             *)
(* "check"   took the other's value and woke it, before `if (m_left)`      *)
(* "ack"     asleep, waiting for its own value to be taken                 *)
(* "unlock"  at the return                                                 *)
(***************************************************************************)
Locations == {"idle", "lock", "enter", "wait", "resume", "check", "ack", "unlock"}

Init ==
  /\ owner = [s \in Sides |-> NoThread]
  /\ slot = [s \in Sides |-> NoValue]
  /\ pc = [t \in Threads |-> "idle"]
  /\ arg = [t \in Threads |-> NoValue]
  /\ ret = [t \in Threads |-> NoValue]

\* Mutants of Woken: only the sleepers at one of the two OSSleepThread calls.
WokenAcksOnly(s) ==
  [t \in Threads |-> IF SideOf(t) = s /\ pc[t] = "ack" THEN "unlock" ELSE pc[t]]
WokenWaitersOnly(s) ==
  [t \in Threads |-> IF SideOf(t) = s /\ pc[t] = "wait" THEN "resume" ELSE pc[t]]

\* OSWakeupThread on the queue of side s: every thread asleep in it is ready.
Woken(s) ==
  [t \in Threads |->
     CASE SideOf(t) = s /\ pc[t] = "wait" -> "resume"
       [] SideOf(t) = s /\ pc[t] = "ack"  -> "unlock"
       [] OTHER -> pc[t]]

Call(t, v) ==
  /\ pc[t] = "idle"
  /\ pc' = [pc EXCEPT ![t] = "lock"]
  /\ arg' = [arg EXCEPT ![t] = v]
  /\ UNCHANGED <<owner, slot, ret>>

\* Mutant of Lock: the mutex is not waited for.
LockUnguarded(t) ==
  /\ pc[t] = "lock"
  /\ owner' = [owner EXCEPT ![SideOf(t)] = t]
  /\ pc' = [pc EXCEPT ![t] = "enter"]
  /\ UNCHANGED <<slot, arg, ret>>

Lock(t) ==
  /\ pc[t] = "lock"
  /\ owner[SideOf(t)] = NoThread
  /\ owner' = [owner EXCEPT ![SideOf(t)] = t]
  /\ pc' = [pc EXCEPT ![t] = "enter"]
  /\ UNCHANGED <<slot, arg, ret>>

\* The other side is already waiting: take its value, leave ours, wake it.
EnterSecond(t) ==
  LET s == SideOf(t) o == Other(s) IN
  /\ pc[t] = "enter"
  /\ slot[o] # NoValue
  /\ slot' = [slot EXCEPT ![s] = arg[t], ![o] = NoValue]
  /\ ret' = [ret EXCEPT ![t] = slot[o]]
  /\ pc' = [Woken(o) EXCEPT ![t] = "check"]
  /\ UNCHANGED <<owner, arg>>

\* Nobody is there yet: leave our value and sleep.
EnterFirst(t) ==
  LET s == SideOf(t) IN
  /\ pc[t] = "enter"
  /\ slot[Other(s)] = NoValue
  /\ slot' = [slot EXCEPT ![s] = arg[t]]
  /\ pc' = [pc EXCEPT ![t] = "wait"]
  /\ UNCHANGED <<owner, arg, ret>>

\* Back from the sleep: take what the other side left, and let it return.
Resume(t) ==
  LET o == Other(SideOf(t)) IN
  /\ pc[t] = "resume"
  /\ ret' = [ret EXCEPT ![t] = slot[o]]
  /\ slot' = [slot EXCEPT ![o] = NoValue]
  /\ pc' = [Woken(o) EXCEPT ![t] = "unlock"]
  /\ UNCHANGED <<owner, arg>>

\* Sleep until our value is taken, unless the woken thread already ran.
Check(t) ==
  /\ pc[t] = "check"
  /\ pc' = [pc EXCEPT ![t] = IF slot[SideOf(t)] # NoValue THEN "ack" ELSE "unlock"]
  /\ UNCHANGED <<owner, slot, arg, ret>>

\* The scope locks are released and the call returns.
Unlock(t) ==
  /\ pc[t] = "unlock"
  /\ owner' = [owner EXCEPT ![SideOf(t)] = NoThread]
  /\ pc' = [pc EXCEPT ![t] = "idle"]
  /\ arg' = [arg EXCEPT ![t] = NoValue]
  /\ ret' = [ret EXCEPT ![t] = NoValue]
  /\ UNCHANGED slot

Proceed(t) ==
  \/ Lock(t)
  \/ EnterSecond(t)
  \/ EnterFirst(t)
  \/ Resume(t)
  \/ Check(t)
  \/ Unlock(t)

Next == \E t \in Threads : Proceed(t) \/ \E v \in ArgsOf(t) : Call(t, v)

\* A ready thread is eventually scheduled; nobody has to make another call.
Spec == Init /\ [][Next]_vars /\ \A t \in Threads : WF_vars(Proceed(t))
-------------------------------------------------------------------------------
TypeOK ==
  /\ owner \in [Sides -> Threads \cup {NoThread}]
  /\ slot \in [Sides -> Values \cup {NoValue}]
  /\ pc \in [Threads -> Locations]
  /\ arg \in [Threads -> Values \cup {NoValue}]
  /\ ret \in [Threads -> Values \cup {NoValue}]

\* No call dereferences an empty optional: `std::move(*m_right)` after the
\* sleep always finds the value the other side emplaced.
SlotFilledOnResume ==
  \A t \in Threads : pc[t] = "resume" => slot[Other(SideOf(t))] # NoValue

\* The sides stay in step.  The mutex is held exactly inside the call.  A full
\* slot belongs to the holder of its side, who has not been answered (`wait`) or
\* has not been acknowledged (`check`, `ack`); in the first case the other side
\* has left nothing, in the second the other side's holder is on its way to take
\* it.  A sleeper always has its value in the slot, so it can be found and woken.
Holds(t) == pc[t] \notin {"idle", "lock"}

MutexHeld ==
  /\ \A t \in Threads : Holds(t) <=> owner[SideOf(t)] = t
  /\ \A s \in Sides : owner[s] # NoThread => SideOf(owner[s]) = s

ArgGiven == \A t \in Threads : pc[t] # "idle" => arg[t] # NoValue

SlotOwned ==
  \A s \in Sides : slot[s] # NoValue =>
    /\ owner[s] # NoThread
    /\ slot[s] = arg[owner[s]]
    /\ pc[owner[s]] \in {"wait", "check", "ack"}
    /\ pc[owner[s]] = "wait" => slot[Other(s)] = NoValue
    /\ pc[owner[s]] # "wait" =>
         /\ owner[Other(s)] # NoThread
         /\ pc[owner[Other(s)]] = "resume"

SleeperFound ==
  \A t \in Threads :
    /\ pc[t] \in {"wait", "ack"} => slot[SideOf(t)] # NoValue
    /\ pc[t] = "resume" => /\ slot[Other(SideOf(t))] # NoValue
                           /\ pc[owner[Other(SideOf(t))]] # "wait"

InStep == MutexHeld /\ ArgGiven /\ SlotOwned /\ SleeperFound

(***************************************************************************)
(* The exchange implements the atomic rendezvous.  A call is matched from  *)
(* the moment the second side has arrived: the one still to resume is      *)
(* going to return what lies in the other slot.                            *)
(***************************************************************************)
StateOf(t) ==
  CASE pc[t] = "idle" -> "idle"
    [] pc[t] \in {"lock", "enter", "wait"} -> "calling"
    [] OTHER -> "matched"

ResultOf(t) == IF pc[t] = "resume" THEN slot[Other(SideOf(t))] ELSE ret[t]

Abstract == INSTANCE Rendezvous WITH
  state <- [t \in Threads |-> StateOf(t)],
  result <- [t \in Threads |-> ResultOf(t)]

AbstractSpec == Abstract!Spec

\* No wakeup is lost: a caller asleep for the other side is woken as soon as
\* somebody calls there, and a caller asleep for its acknowledgement always is.
SleepersWake ==
  \A t \in Threads :
    /\ (pc[t] = "wait" /\ \E u \in Threads : SideOf(u) # SideOf(t) /\ pc[u] \in {"lock", "enter"})
         ~> (pc[t] # "wait")
    /\ (pc[t] \in {"check", "ack"}) ~> (pc[t] = "idle")
===============================================================================
