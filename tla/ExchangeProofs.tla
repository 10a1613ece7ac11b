---------------------------- MODULE ExchangeProofs ----------------------------
(***************************************************************************)
(* The exchange is safe for any number of threads on either side and any   *)
(* set of values, and implements the atomic rendezvous.                    *)
(***************************************************************************)
EXTENDS Exchange, TLAPS

Inv == TypeOK /\ InStep

\* There are two sides, and every thread is of one of them.
LEMMA SidesFacts ==
  ASSUME NEW t \in Threads
  PROVE  /\ SideOf(t) \in Sides
         /\ Other(SideOf(t)) \in Sides
         /\ Other(SideOf(t)) # SideOf(t)
         /\ Other(Other(SideOf(t))) = SideOf(t)
         /\ \A s \in Sides : s = SideOf(t) \/ s = Other(SideOf(t))
BY DEF SideOf, Other, Sides

\* The null thread is none.
LEMMA NoThreadFact == NoThread \notin Threads
BY ExchangeAssumption DEF Threads

\* An argument is a value, never the empty slot.
LEMMA ArgFacts ==
  ASSUME NEW t \in Threads, NEW v \in ArgsOf(t)
  PROVE  v \in Values /\ v # NoValue
BY ExchangeAssumption DEF ArgsOf, Values

\* The invariant holds at the start.
LEMMA InitInv == Init => Inv
BY ExchangeAssumption
   DEF Init, Inv, TypeOK, InStep, MutexHeld, ArgGiven, SlotOwned, SleeperFound,
       Holds, Locations, Sides, Threads, SideOf, Other

\* Type correctness of one step, one case per action.
LEMMA StepType ==
  ASSUME TypeOK, [Next]_vars
  PROVE  TypeOK'
<1> USE DEF TypeOK, Locations
<1>1. CASE UNCHANGED vars
  BY <1>1 DEF vars
<1>2. ASSUME NEW t \in Threads, NEW v \in ArgsOf(t), Call(t, v)
      PROVE  TypeOK'
  BY <1>2, ArgFacts DEF Call
<1>3. ASSUME NEW t \in Threads, Lock(t)
      PROVE  TypeOK'
  BY <1>3 DEF Lock
<1>4. ASSUME NEW t \in Threads, EnterSecond(t)
      PROVE  TypeOK'
  BY <1>4, SidesFacts DEF EnterSecond, Woken
<1>5. ASSUME NEW t \in Threads, EnterFirst(t)
      PROVE  TypeOK'
  BY <1>5, SidesFacts DEF EnterFirst
<1>6. ASSUME NEW t \in Threads, Resume(t)
      PROVE  TypeOK'
  BY <1>6, SidesFacts DEF Resume, Woken
<1>7. ASSUME NEW t \in Threads, Check(t)
      PROVE  TypeOK'
  BY <1>7 DEF Check
<1>8. ASSUME NEW t \in Threads, Unlock(t)
      PROVE  TypeOK'
  BY <1>8 DEF Unlock
<1> QED
  BY <1>1, <1>2, <1>3, <1>4, <1>5, <1>6, <1>7, <1>8 DEF Next, Proceed

\* The sides stay in step, one case per action.
LEMMA StepInStep ==
  ASSUME Inv, [Next]_vars
  PROVE  InStep'
<1> USE NoThreadFact DEF Inv, Holds
<1> USE DEF TypeOK, InStep, MutexHeld, ArgGiven, SlotOwned, SleeperFound
<1>1. CASE UNCHANGED vars
  BY <1>1 DEF vars
<1>2. ASSUME NEW t \in Threads, NEW v \in ArgsOf(t), Call(t, v)
      PROVE  InStep'
  BY <1>2, ArgFacts, SidesFacts DEF Call
<1>3. ASSUME NEW t \in Threads, Lock(t)
      PROVE  InStep'
  <2>1. MutexHeld'
    <3>1. ASSUME NEW u \in Threads
          PROVE  Holds(u)' <=> owner'[SideOf(u)] = u
      <4>1. CASE u = t
        BY <1>3, <4>1, SidesFacts DEF Lock
      <4>2. CASE u # t
        BY <1>3, <4>2, SidesFacts DEF Lock
      <4> QED
        BY <4>1, <4>2
    <3>2. ASSUME NEW q \in Sides, owner'[q] # NoThread
          PROVE  SideOf(owner'[q]) = q
      BY <1>3, <3>2, SidesFacts DEF Lock
    <3> QED
      BY <3>1, <3>2
  <2>2. ArgGiven'
    BY <1>3, SidesFacts DEF Lock, ArgGiven
  <2>3. SlotOwned'
    BY <1>3, SidesFacts DEF Lock, SlotOwned
  <2>4. SleeperFound'
    BY <1>3, SidesFacts DEF Lock, SleeperFound
  <2> QED
    BY <2>1, <2>2, <2>3, <2>4
<1>4. ASSUME NEW t \in Threads, EnterSecond(t)
      PROVE  InStep'
  <2>1. MutexHeld'
    BY <1>4, SidesFacts DEF EnterSecond, Woken, MutexHeld
  <2>2. ArgGiven'
    BY <1>4, SidesFacts DEF EnterSecond, Woken, ArgGiven
  <2>3. SlotOwned'
    <3> DEFINE s == SideOf(t)
               o == Other(s)
    <3>1. owner[s] = t /\ s \in Sides /\ o \in Sides /\ s # o /\ Other(o) = s
      BY <1>4, SidesFacts DEF EnterSecond
    <3>2. slot[s] = NoValue
      BY <1>4, <3>1 DEF EnterSecond
    <3>3. ASSUME NEW q \in Sides, slot'[q] # NoValue
          PROVE  SlotOwned!(q)!2'
      <4>1. CASE q = s
        BY <1>4, <3>1, <3>2, <3>3, <4>1, SidesFacts DEF EnterSecond, Woken
      <4>2. CASE q = o
        BY <1>4, <3>1, <3>2, <3>3, <4>2, SidesFacts DEF EnterSecond, Woken
      <4> QED
        BY <4>1, <4>2, SidesFacts
    <3> QED
      BY <3>3
  <2>4. SleeperFound'
    BY <1>4, SidesFacts DEF EnterSecond, Woken, SleeperFound
  <2> QED
    BY <2>1, <2>2, <2>3, <2>4
<1>5. ASSUME NEW t \in Threads, EnterFirst(t)
      PROVE  InStep'
  <2>1. MutexHeld'
    BY <1>5, SidesFacts DEF EnterFirst, MutexHeld
  <2>2. ArgGiven'
    BY <1>5, SidesFacts DEF EnterFirst, ArgGiven
  <2>3. SlotOwned'
    <3> DEFINE s == SideOf(t)
               o == Other(s)
    <3>1. owner[s] = t /\ s \in Sides /\ o \in Sides /\ s # o /\ Other(o) = s
      BY <1>5, SidesFacts DEF EnterFirst
    <3>2. slot[s] = NoValue
      BY <1>5, <3>1 DEF EnterFirst
    <3>3. ASSUME NEW q \in Sides, slot'[q] # NoValue
          PROVE  SlotOwned!(q)!2'
      <4>1. CASE q = s
        BY <1>5, <3>1, <3>2, <3>3, <4>1, SidesFacts DEF EnterFirst
      <4>2. CASE q = o
        BY <1>5, <3>1, <3>2, <3>3, <4>2, SidesFacts DEF EnterFirst
      <4> QED
        BY <4>1, <4>2, SidesFacts
    <3> QED
      BY <3>3
  <2>4. SleeperFound'
    BY <1>5, SidesFacts DEF EnterFirst, SleeperFound
  <2> QED
    BY <2>1, <2>2, <2>3, <2>4
<1>6. ASSUME NEW t \in Threads, Resume(t)
      PROVE  InStep'
  <2>1. MutexHeld'
    BY <1>6, SidesFacts DEF Resume, Woken, MutexHeld
  <2>2. ArgGiven'
    BY <1>6, SidesFacts DEF Resume, Woken, ArgGiven
  <2>3. SlotOwned'
    BY <1>6, SidesFacts DEF Resume, Woken, SlotOwned
  <2>4. SleeperFound'
    BY <1>6, SidesFacts DEF Resume, Woken, SleeperFound
  <2> QED
    BY <2>1, <2>2, <2>3, <2>4
<1>7. ASSUME NEW t \in Threads, Check(t)
      PROVE  InStep'
  BY <1>7, SidesFacts DEF Check
<1>8. ASSUME NEW t \in Threads, Unlock(t)
      PROVE  InStep'
  <2>1. MutexHeld'
    BY <1>8, SidesFacts DEF Unlock, MutexHeld
  <2>2. ArgGiven'
    BY <1>8, SidesFacts DEF Unlock, ArgGiven
  <2>3. SlotOwned'
    BY <1>8, SidesFacts DEF Unlock, SlotOwned
  <2>4. SleeperFound'
    BY <1>8, SidesFacts DEF Unlock, SleeperFound
  <2> QED
    BY <2>1, <2>2, <2>3, <2>4
<1> QED
  BY <1>1, <1>2, <1>3, <1>4, <1>5, <1>6, <1>7, <1>8 DEF Next, Proceed

\* So the invariant always holds.
LEMMA Invariance == Spec => []Inv
<1>1. Init => Inv
  BY InitInv
<1>2. Inv /\ [Next]_vars => Inv'
  BY StepType, StepInStep DEF Inv
<1> QED
  BY <1>1, <1>2, PTL DEF Spec

\* Every variable stays in its type, whatever the scheduling.
THEOREM TypeCorrect == Spec => []TypeOK
<1>1. Inv => TypeOK
  BY DEF Inv
<1> QED
  BY <1>1, Invariance, PTL

\* The two sides of an exchange stay in step: see InStep in Exchange.
THEOREM SidesInStep == Spec => []InStep
<1>1. Inv => InStep
  BY DEF Inv
<1> QED
  BY <1>1, Invariance, PTL

\* A call that wakes up never dereferences an empty optional.
THEOREM ResumeIsSafe == Spec => []SlotFilledOnResume
<1>1. Inv => SlotFilledOnResume
  BY DEF Inv, InStep, SleeperFound, SlotFilledOnResume
<1> QED
  BY <1>1, Invariance, PTL

(***************************************************************************)
(* Refinement.  The step that finds the other side waiting is the abstract *)
(* Match; calling and returning are themselves; every other step stutters. *)
(***************************************************************************)
LEMMA InitRefines == Init => Abstract!Init
BY DEF Init, Abstract!Init, Abstract!Threads, Threads, StateOf, ResultOf

\* Every step of the exchange is a step of the rendezvous or a stutter.
LEMMA StepRefines ==
  ASSUME Inv, [Next]_vars
  PROVE  [Abstract!Next]_(Abstract!vars)
<1> DEFINE St == [x \in Threads |-> StateOf(x)]
           Res == [x \in Threads |-> ResultOf(x)]
<1> USE NoThreadFact DEF Inv, TypeOK, InStep, MutexHeld, ArgGiven, SlotOwned, SleeperFound,
                         Holds, Locations
<1>0. Abstract!Threads = Threads /\ \A t \in Threads : Abstract!ArgsOf(t) = ArgsOf(t)
  BY DEF Abstract!Threads, Threads, Abstract!ArgsOf, ArgsOf
<1>s. ASSUME arg' = arg, \A u \in Threads : StateOf(u)' = StateOf(u) /\ ResultOf(u)' = ResultOf(u)
      PROVE  UNCHANGED Abstract!vars
  BY <1>s DEF Abstract!vars
<1>1. CASE UNCHANGED vars
  BY <1>1, <1>s DEF vars, StateOf, ResultOf
<1>2. ASSUME NEW t \in Threads, NEW v \in ArgsOf(t), Call(t, v)
      PROVE  Abstract!Call(t, v)
  <2>1. St[t] = "idle" /\ St' = [St EXCEPT ![t] = "calling"]
    <3>1. pc[t] = "idle" /\ \A u \in Threads : pc'[u] = IF u = t THEN "lock" ELSE pc[u]
      BY <1>2 DEF Call
    <3> HIDE DEF Inv, TypeOK, InStep, MutexHeld, ArgGiven, SlotOwned, SleeperFound
    <3> QED
      BY <3>1 DEF StateOf
  <2>2. Res' = Res
    BY <1>2 DEF Call, ResultOf
  <2> QED
    BY <1>2, <2>1, <2>2 DEF Call, Abstract!Call
<1>3. ASSUME NEW t \in Threads, Lock(t)
      PROVE  UNCHANGED Abstract!vars
  BY <1>3, <1>s DEF Lock, StateOf, ResultOf
<1>4. ASSUME NEW t \in Threads, EnterSecond(t)
      PROVE  \E l \in Lefts, r \in Rights : Abstract!Match(l, r)
  <2> DEFINE s == SideOf(t)
             o == Other(s)
  <2>1. s \in Sides /\ o \in Sides /\ s # o /\ Other(o) = s /\ owner[s] = t
    BY <1>4, SidesFacts DEF EnterSecond
  <2>2. PICK u \in Threads : /\ u = owner[o] /\ SideOf(u) = o /\ u # t
                             /\ slot[o] = arg[u] /\ pc[u] = "wait"
    BY <1>4, <2>1 DEF EnterSecond
  <2>3. \A v \in Threads : v # t /\ v # u => pc[v] \notin {"wait", "ack", "resume"}
    BY <2>1, <2>2, SidesFacts
  <2>4. \A v \in Threads : pc'[v] = IF v = t THEN "check" ELSE IF v = u THEN "resume" ELSE pc[v]
    BY <1>4, <2>1, <2>2, <2>3 DEF EnterSecond, Woken
  <2>5. slot'[s] = arg[t] /\ ret' = [ret EXCEPT ![t] = arg[u]]
    BY <1>4, <2>1, <2>2 DEF EnterSecond
  <2>6. St[t] = "calling" /\ St[u] = "calling"
    BY <1>4, <2>2 DEF EnterSecond, StateOf
  <2>7. \A v \in Threads : St'[v] = IF v \in {t, u} THEN "matched" ELSE St[v]
    BY <2>4 DEF StateOf
  <2>8. \A v \in Threads : Res'[v] = IF v = t THEN arg[u] ELSE IF v = u THEN arg[t] ELSE Res[v]
    BY <2>1, <2>2, <2>3, <2>4, <2>5 DEF ResultOf
  <2>9. arg' = arg
    BY <1>4 DEF EnterSecond
  <2>10. CASE t \in Lefts
    <3> HIDE DEF Inv, TypeOK, InStep, MutexHeld, ArgGiven, SlotOwned, SleeperFound
    <3>1. u \in Rights
      BY <2>1, <2>2, <2>10 DEF SideOf, Other, Threads
    <3>2. St' = [St EXCEPT ![t] = "matched", ![u] = "matched"]
      BY <2>2, <2>7 DEF StateOf
    <3>3. Res' = [Res EXCEPT ![t] = arg[u], ![u] = arg[t]]
      BY <2>2, <2>8
    <3>4. Abstract!Match(t, u)
      BY <2>2, <2>6, <2>9, <3>2, <3>3 DEF Abstract!Match
    <3> QED
      BY <2>10, <3>1, <3>4
  <2>11. CASE t \notin Lefts
    <3> HIDE DEF Inv, TypeOK, InStep, MutexHeld, ArgGiven, SlotOwned, SleeperFound
    <3>1. u \in Lefts /\ t \in Rights
      BY <2>1, <2>2, <2>11 DEF SideOf, Other, Threads
    <3>2. St' = [St EXCEPT ![u] = "matched", ![t] = "matched"]
      BY <2>2, <2>7 DEF StateOf
    <3>3. Res' = [Res EXCEPT ![u] = arg[t], ![t] = arg[u]]
      BY <2>2, <2>8 DEF ResultOf
    <3>4. Abstract!Match(u, t)
      BY <2>2, <2>6, <2>9, <3>2, <3>3 DEF Abstract!Match
    <3> QED
      BY <3>1, <3>4
  <2> QED
    BY <2>10, <2>11
<1>5. ASSUME NEW t \in Threads, EnterFirst(t)
      PROVE  UNCHANGED Abstract!vars
  <2>1. \A u \in Threads : ~(pc[u] = "resume" /\ Other(SideOf(u)) = SideOf(t))
    <3>1. slot[Other(SideOf(t))] = NoValue
      BY <1>5 DEF EnterFirst
    <3>2. SUFFICES ASSUME NEW u \in Threads, pc[u] = "resume", Other(SideOf(u)) = SideOf(t),
                          pc[t] = "enter"
                   PROVE  FALSE
      BY <1>5 DEF EnterFirst
    <3>3. owner[SideOf(u)] = u /\ owner[SideOf(t)] = t
      BY <3>2
    <3>4. slot[SideOf(t)] # NoValue
      BY <3>2
    <3> QED
      BY <3>2, <3>3, <3>4, SidesFacts
  <2> QED
    BY <1>5, <2>1, <1>s, SidesFacts DEF EnterFirst, StateOf, ResultOf
<1>6. ASSUME NEW t \in Threads, Resume(t)
      PROVE  UNCHANGED Abstract!vars
  BY <1>6, <1>s, SidesFacts DEF Resume, Woken, StateOf, ResultOf
<1>7. ASSUME NEW t \in Threads, Check(t)
      PROVE  UNCHANGED Abstract!vars
  BY <1>7, <1>s DEF Check, StateOf, ResultOf
<1>8. ASSUME NEW t \in Threads, Unlock(t)
      PROVE  Abstract!Return(t)
  <2>1. St[t] = "matched" /\ St' = [St EXCEPT ![t] = "idle"]
    <3>1. pc[t] = "unlock" /\ \A u \in Threads : pc'[u] = IF u = t THEN "idle" ELSE pc[u]
      BY <1>8 DEF Unlock
    <3> HIDE DEF Inv, TypeOK, InStep, MutexHeld, ArgGiven, SlotOwned, SleeperFound
    <3> QED
      BY <3>1 DEF StateOf
  <2>2. Res' = [Res EXCEPT ![t] = NoValue]
    BY <1>8 DEF Unlock, ResultOf
  <2> QED
    BY <1>8, <2>1, <2>2 DEF Unlock, Abstract!Return
<1> QED
  BY <1>0, <1>1, <1>2, <1>3, <1>4, <1>5, <1>6, <1>7, <1>8
     DEF Next, Proceed, Abstract!Next

\* Every behaviour of the exchange is one of the atomic rendezvous: each call
\* returns exactly the argument of the one call it was paired with.
THEOREM ImplementsRendezvous == Spec => AbstractSpec
<1>1. Init => Abstract!Init
  BY InitRefines
<1>2. Inv /\ [Next]_vars => [Abstract!Next]_(Abstract!vars)
  BY StepRefines
<1> QED
  BY <1>1, <1>2, Invariance, PTL DEF Spec, AbstractSpec, Abstract!Spec
===============================================================================
