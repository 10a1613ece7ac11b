------------------------------- MODULE RaceProofs -------------------------------
(***************************************************************************)
(* For any number of consoles, any backlog and any length of history: the  *)
(* frames a console takes are true, never lock it out of newer ones, and   *)
(* the rollback history stays in order.                                    *)
(***************************************************************************)
EXTENDS Race, FiniteSetTheorems, WellFoundedInduction, SequenceTheorems, TLAPS

Sorted(times) == \A i, j \in 1..Len(times) : i <= j => times[i] <= times[j]

-------------------------------------------------------------------------------
(***************************************************************************)
(* What the operations on histories do.                                    *)
(***************************************************************************)
\* A nonempty set of places has a first one: the intervals up to its members
\* have a smallest.
LEMMA FirstIsLeast ==
  ASSUME NEW S \in SUBSET Nat, S # {}
  PROVE  First(S) \in S /\ \A j \in S : First(S) <= j
<1> DEFINE T == {0..p : p \in S}
           O == StrictSubsetOrdering(Nat)
<1>1. IsWellFoundedOn(O, FiniteSubsetsOf(Nat))
  BY FS_StrictSubsetOrderingWellFounded
<1>2. T \subseteq FiniteSubsetsOf(Nat)
  <2>1. \A p \in S : 0..p \subseteq Nat /\ IsFiniteSet(0..p)
    BY FS_Interval
  <2> QED
    BY <2>1 DEF FiniteSubsetsOf
<1>3. T # {}
  OBVIOUS
<1>4. PICK x \in T : \A y \in T : <<y, x>> \notin O
  <2> HIDE DEF T, O
  <2> QED
    BY <1>1, <1>2, <1>3, WFMin
<1>5. PICK p \in S : x = 0..p
  OBVIOUS
<1>6. ASSUME NEW q \in S, q < p
      PROVE  FALSE
  <2>1. 0..q \subseteq 0..p /\ 0..q # 0..p /\ 0..p \subseteq Nat
    <3>1. p \in 0..p /\ p \notin 0..q
      BY <1>6
    <3> QED
      BY <1>6, <3>1
  <2>2. <<0..q, 0..p>> \in O
    BY <2>1 DEF StrictSubsetOrdering
  <2> QED
    BY <1>4, <1>5, <2>2
<1>7. \A q \in S : p <= q
  BY <1>6
<1> QED
  BY <1>7 DEF First

\* Popping leaves entries of the history, in their order, none of them old.
LEMMA PopFacts ==
  ASSUME NEW s \in Seq(Nat), NEW time \in Nat, Sorted(s)
  PROVE  /\ PopBefore(s, time) \in Seq(Nat)
         /\ Len(PopBefore(s, time)) <= Len(s)
         /\ Sorted(PopBefore(s, time))
         /\ \A i \in 1..Len(PopBefore(s, time)) :
              \E j \in 1..Len(s) : PopBefore(s, time)[i] = s[j]
<1> DEFINE kept == {i \in 1..Len(s) : s[i] >= time}
           rest == PopBefore(s, time)
<1>0. Len(s) \in Nat /\ \A i \in 1..Len(s) : s[i] \in Nat
  BY LenProperties, ElementOfSeq
<1>1. CASE kept = {}
  <2>1. rest = <<>>
    BY <1>1 DEF PopBefore
  <2> QED
    BY <2>1, <1>0, EmptySeq DEF Sorted
<1>2. CASE kept # {}
  <2>1. PICK m \in 1..Len(s) : rest = SubSeq(s, m, Len(s))
    <3>1. kept \in SUBSET Nat
      BY <1>0
    <3>2. First(kept) \in kept
      BY <1>2, <3>1, FirstIsLeast
    <3>3. rest = SubSeq(s, First(kept), Len(s))
      BY <1>2 DEF PopBefore
    <3> QED
      BY <3>2, <3>3
  <2>2. /\ rest \in Seq(Nat)
        /\ Len(rest) = Len(s) - m + 1
        /\ \A i \in 1..(Len(s) - m + 1) : rest[i] = s[m + i - 1]
    <3>1. \A i \in m..Len(s) : s[i] \in Nat
      BY <1>0
    <3>2. m \in Int /\ Len(s) \in Int /\ m <= Len(s)
      BY <1>0
    <3>3. /\ SubSeq(s, m, Len(s)) \in Seq(Nat)
          /\ Len(SubSeq(s, m, Len(s))) = IF m <= Len(s) THEN Len(s) - m + 1 ELSE 0
          /\ \A i \in 1..(Len(s) - m + 1) : SubSeq(s, m, Len(s))[i] = s[m + i - 1]
      BY <3>1, <3>2, SubSeqProperties
    <3> QED
      BY <2>1, <3>2, <3>3
  <2> HIDE DEF rest
  <2>3. \A i \in 1..Len(rest) : m + i - 1 \in 1..Len(s) /\ rest[i] = s[m + i - 1]
    BY <1>0, <2>2
  <2>4. Sorted(rest)
    <3> SUFFICES ASSUME NEW i \in 1..Len(rest), NEW j \in 1..Len(rest), i <= j
                 PROVE  rest[i] <= rest[j]
      BY DEF Sorted
    <3>1. m + i - 1 <= m + j - 1
      OBVIOUS
    <3> QED
      BY <2>3, <3>1 DEF Sorted
  <2>5. Len(rest) <= Len(s)
    BY <1>0, <2>2
  <2>6. \A i \in 1..Len(rest) : \E j \in 1..Len(s) : rest[i] = s[j]
    BY <2>3
  <2> QED
    BY <2>2, <2>4, <2>5, <2>6 DEF rest
<1> QED
  BY <1>1, <1>2

\* Appending a time no entry is beyond keeps the order.
LEMMA AppendFacts ==
  ASSUME NEW s \in Seq(Nat), NEW time \in Nat, Sorted(s),
         \A i \in 1..Len(s) : s[i] <= time
  PROVE  /\ Append(s, time) \in Seq(Nat)
         /\ Len(Append(s, time)) = Len(s) + 1
         /\ Sorted(Append(s, time))
         /\ \A i \in 1..Len(Append(s, time)) :
              \/ Append(s, time)[i] = time
              \/ \E j \in 1..Len(s) : Append(s, time)[i] = s[j]
<1> DEFINE t == Append(s, time)
<1>0. Len(s) \in Nat /\ \A i \in 1..Len(s) : s[i] \in Nat
  BY LenProperties, ElementOfSeq
<1>1. /\ t \in Seq(Nat) /\ Len(t) = Len(s) + 1
      /\ \A i \in 1..Len(s) : t[i] = s[i]
      /\ t[Len(s) + 1] = time
  BY AppendProperties
<1> HIDE DEF t
<1>2. \A i \in 1..Len(t) : i \in 1..Len(s) \/ i = Len(s) + 1
  BY <1>0, <1>1
<1>3. \A i \in 1..Len(t) : t[i] = time \/ \E j \in 1..Len(s) : t[i] = s[j]
  BY <1>1, <1>2
<1>4. Sorted(t)
  <2> SUFFICES ASSUME NEW i \in 1..Len(t), NEW j \in 1..Len(t), i <= j
               PROVE  t[i] <= t[j]
    BY DEF Sorted
  <2>1. CASE j \in 1..Len(s)
    <3>1. i \in 1..Len(s)
      BY <1>0, <2>1
    <3>2. t[i] = s[i] /\ t[j] = s[j]
      BY <1>1, <2>1, <3>1
    <3>3. s[i] <= s[j]
      BY <2>1, <3>1 DEF Sorted
    <3> QED
      BY <3>2, <3>3
  <2>2. CASE j = Len(s) + 1
    <3>1. t[j] = time /\ (t[i] = s[i] \/ t[i] = time)
      BY <1>1, <1>2, <2>2
    <3>2. t[i] <= time
      BY <1>1, <1>2, <3>1
    <3> QED
      BY <3>1, <3>2
  <2> QED
    BY <1>2, <2>1, <2>2
<1> QED
  BY <1>1, <1>3, <1>4 DEF t

-------------------------------------------------------------------------------
(***************************************************************************)
(* The inductive invariant.                                                *)
(***************************************************************************)
\* A queue holds times in order, none of them ahead of its console.
QueuesInOrder ==
  \A p \in Consoles :
    /\ Sorted(backlog[p])
    /\ \A i \in 1..Len(backlog[p]) : backlog[p][i] <= clock[p]

\* The frame the room holds of a player is that player's, and older than all of
\* its requests under way.
HeldIsTrue ==
  \A p \in Consoles :
    /\ playerTime[p].player = p
    /\ playerTime[p].time # NoFrame =>
         /\ playerTime[p].time <= clock[p]
         /\ \A i \in 1..Len(backlog[p]) : playerTime[p].time <= backlog[p][i]

\* A broadcast frame has every player in its place, at a time that later frames,
\* and the one the room holds, do not fall behind.
SentIsTrue ==
  /\ sent # <<>> => stage = "frames"
  /\ stage = "frames" => \A p \in Consoles : playerTime[p].time # NoFrame
  /\ \A n \in 1..Len(sent), p \in Consoles :
       sent[n][p].player = p /\ sent[n][p].time <= playerTime[p].time
  /\ \A m, n \in 1..Len(sent), p \in Consoles :
       m <= n => sent[m][p].time <= sent[n][p].time

\* Entries of a history are ordered and of the past, or no later than the frame
\* that the console holds.
HistoryAt(c, p) ==
  /\ Sorted(history[c][p])
  /\ \A i \in 1..Len(history[c][p]) :
       \/ history[c][p][i] <= clock[c]
       \/ frame[c] # 0 /\ history[c][p][i] <= sent[frame[c]][p].time

Histories == \A c, p \in Consoles : HistoryAt(c, p)

Inv == TypeOK /\ QueuesInOrder /\ HeldIsTrue /\ SentIsTrue /\ Histories

\* What TypeOK says of a frame, a backlog and a history taken singly.
LEMMA Typed ==
  ASSUME TypeOK
  PROVE  /\ Len(sent) \in Nat
         /\ \A n \in 1..Len(sent), p \in Consoles : sent[n][p] \in PlayerFrame /\ sent[n][p].time \in Nat
         /\ \A c \in Consoles :
              /\ clock[c] \in Nat /\ clock[c] <= MaxClock
              /\ frame[c] \in Nat /\ frame[c] <= Len(sent)
              /\ frame[c] # 0 => frame[c] \in 1..Len(sent)
              /\ backlog[c] \in Seq(Nat) /\ Len(backlog[c]) \in Nat
              /\ Len(backlog[c]) <= Backlog
              /\ \A i \in 1..Len(backlog[c]) : backlog[c][i] \in Nat
              /\ playerTime[c].time # NoFrame => playerTime[c].time \in Nat
         /\ \A c, p \in Consoles :
              /\ history[c][p] \in Seq(Nat) /\ Len(history[c][p]) \in Nat
              /\ Len(history[c][p]) <= History
              /\ \A i \in 1..Len(history[c][p]) : history[c][p][i] \in Nat
<1>1. Len(sent) \in Nat /\ \A n \in 1..Len(sent) : sent[n] \in [Consoles -> PlayerFrame]
  BY LenProperties, ElementOfSeq DEF TypeOK
<1>2. \A n \in 1..Len(sent), p \in Consoles : sent[n][p] \in PlayerFrame
  BY <1>1
<1>3. \A x \in PlayerFrame : x.time \in Nat
  BY DEF PlayerFrame
<1>4. ASSUME NEW c \in Consoles
      PROVE  /\ clock[c] \in Nat /\ clock[c] <= MaxClock
             /\ frame[c] \in Nat /\ frame[c] <= Len(sent)
             /\ frame[c] # 0 => frame[c] \in 1..Len(sent)
  <2>1. clock[c] \in 0..MaxClock /\ frame[c] \in 0..Len(sent)
    BY DEF TypeOK
  <2> QED
    BY <1>1, <2>1, RaceAssumption
<1>5. ASSUME NEW c \in Consoles
      PROVE  /\ backlog[c] \in Seq(Nat) /\ Len(backlog[c]) \in Nat
             /\ Len(backlog[c]) <= Backlog
             /\ \A i \in 1..Len(backlog[c]) : backlog[c][i] \in Nat
  <2>1. backlog[c] \in Seq(Nat) /\ Len(backlog[c]) <= Backlog
    BY DEF TypeOK
  <2> QED
    BY <2>1, LenProperties, ElementOfSeq
<1>6. ASSUME NEW c \in Consoles
      PROVE  playerTime[c].time # NoFrame => playerTime[c].time \in Nat
  <2>1. playerTime[c] \in PlayerFrame \cup Unsent
    BY DEF TypeOK
  <2>2. \A x \in Unsent : x.time = NoFrame
    BY DEF Unsent
  <2> QED
    BY <1>3, <2>1, <2>2
<1>7. ASSUME NEW c \in Consoles, NEW p \in Consoles
      PROVE  /\ history[c][p] \in Seq(Nat) /\ Len(history[c][p]) \in Nat
             /\ Len(history[c][p]) <= History
             /\ \A i \in 1..Len(history[c][p]) : history[c][p][i] \in Nat
  <2>1. history[c][p] \in Seq(Nat) /\ Len(history[c][p]) <= History
    BY DEF TypeOK
  <2> QED
    BY <2>1, LenProperties, ElementOfSeq
<1> QED
  BY <1>1, <1>2, <1>3, <1>4, <1>5, <1>6, <1>7

\* The invariant holds at the start.
LEMMA InvInit == Init => Inv
<1> SUFFICES ASSUME Init PROVE Inv
  OBVIOUS
<1>1. sent = <<>> /\ stage = "pings" /\ \A p \in Consoles : backlog[p] = <<>>
  BY DEF Init
<1>2. \A c, p \in Consoles : history[c][p] = <<>>
  BY DEF Init
<1>3. TypeOK
  <2>1. <<>> \in Seq(Nat) /\ <<>> \in Seq([Consoles -> PlayerFrame]) /\ Len(<<>>) = 0
    BY EmptySeq
  <2>2. playerTime \in [Consoles -> PlayerFrame \cup Unsent]
    BY DEF Init, NoFrames, Unsent
  <2>3. /\ clock \in [Consoles -> 0..MaxClock]
        /\ frame \in [Consoles -> 0..Len(sent)]
    BY <1>1, <2>1, RaceAssumption DEF Init
  <2>4. /\ history \in [Consoles -> [Consoles -> Seq(Nat)]]
        /\ backlog \in [Consoles -> Seq(Nat)]
        /\ cut \in [Consoles -> BOOLEAN]
    BY <2>1 DEF Init
  <2>5. /\ \A c, p \in Consoles : Len(history[c][p]) <= History
        /\ \A c \in Consoles : Len(backlog[c]) <= Backlog
    BY <1>1, <1>2, <2>1, RaceAssumption
  <2> QED
    BY <1>1, <2>1, <2>2, <2>3, <2>4, <2>5 DEF TypeOK, Init
<1>4. QueuesInOrder
  <2>1. ASSUME NEW p \in Consoles
        PROVE  Len(backlog[p]) = 0
    BY <1>1, EmptySeq
  <2>2. ASSUME NEW p \in Consoles, NEW i \in 1..Len(backlog[p])
        PROVE  FALSE
    <3>1. Len(backlog[p]) = 0 /\ i \in 1..Len(backlog[p])
      BY <2>1
    <3> QED
      BY <3>1
  <2> QED
    BY <2>2, Zenon DEF QueuesInOrder, Sorted
<1>5. HeldIsTrue
  <2>1. \A p \in Consoles : playerTime[p] = [player |-> p, time |-> NoFrame]
    BY DEF Init, NoFrames
  <2>2. ASSUME NEW p \in Consoles
        PROVE  playerTime[p].player = p /\ playerTime[p].time = NoFrame
    <3>1. playerTime[p] = [player |-> p, time |-> NoFrame]
      BY <2>1, Zenon
    <3> QED
      BY <3>1
  <2> QED
    BY <2>2 DEF HeldIsTrue
<1>6. SentIsTrue
  BY <1>1, EmptySeq DEF SentIsTrue
<1>7. Histories
  BY <1>2, EmptySeq DEF Histories, HistoryAt, Sorted
<1> QED
  BY <1>3, <1>4, <1>5, <1>6, <1>7 DEF Inv
-------------------------------------------------------------------------------
(***************************************************************************)
(* The consoles' steps.                                                    *)
(***************************************************************************)
\* The frame that arrives is not behind the one it replaces.
LEMMA CalcReadStep ==
  ASSUME Inv, NEW c \in Consoles, CalcRead(c)
  PROVE  Inv'
<1>1. PICK n \in 1..Len(sent) : Valid(c, n) /\ frame' = [frame EXCEPT ![c] = n]
  BY DEF CalcRead
<1>2. UNCHANGED <<clock, history, cut, backlog, pings, stage, pending, playerTime, sent>>
  BY DEF CalcRead, roomVars
<1>3. TypeOK /\ QueuesInOrder /\ HeldIsTrue /\ SentIsTrue /\ Histories
  BY DEF Inv
<1>4. TypeOK'
  <2>1. frame \in [Consoles -> 0..Len(sent)] /\ n \in 0..Len(sent)
    BY <1>3, Typed DEF TypeOK
  <2>2. frame' \in [Consoles -> 0..Len(sent)]
    BY <1>1, <2>1
  <2> QED
    BY <1>2, <1>3, <2>2 DEF TypeOK
<1>5. QueuesInOrder' /\ HeldIsTrue' /\ SentIsTrue'
  BY <1>2, <1>3 DEF QueuesInOrder, HeldIsTrue, SentIsTrue, Sorted
<1>6. ASSUME NEW d \in Consoles, NEW p \in Consoles
      PROVE  HistoryAt(d, p)'
  <2>0. frame \in [Consoles -> 0..Len(sent)] /\ HistoryAt(d, p)
    BY <1>3 DEF TypeOK, Histories
  <2>1. CASE d # c
    <3>1. frame'[d] = frame[d]
      BY <1>1, <2>0, <2>1
    <3> QED
      BY <1>2, <2>0, <3>1 DEF HistoryAt, Sorted
  <2>2. CASE d = c
    <3>1. frame'[d] = n /\ n # 0
      BY <1>1, <2>0, <2>2
    <3>2. Sorted(history[d][p])'
      BY <1>2, <2>0 DEF HistoryAt, Sorted
    <3>3. ASSUME NEW i \in 1..Len(history[d][p]), ~(history[d][p][i] <= clock[d])
          PROVE  history[d][p][i] <= sent[n][p].time
      <4>1. frame[d] # 0 /\ history[d][p][i] <= sent[frame[d]][p].time
        BY <2>0, <3>3 DEF HistoryAt
      <4>2. sent[n][p].time >= sent[frame[d]][p].time
        BY <1>1, <2>2, <4>1 DEF Valid
      <4>3. /\ sent[n][p].time \in Nat /\ sent[frame[d]][p].time \in Nat
            /\ history[d][p][i] \in Nat
        BY <1>3, <4>1, Typed
      <4> QED
        BY <4>1, <4>2, <4>3
    <3> QED
      BY <1>2, <3>1, <3>2, <3>3 DEF HistoryAt
  <2> QED
    BY <2>1, <2>2
<1> QED
  BY <1>4, <1>5, <1>6 DEF Inv, Histories

\* What a frame from the room makes of a history.
LEMMA EarlyFacts ==
  ASSUME TypeOK, NEW c \in Consoles, NEW p \in Consoles, HistoryAt(c, p),
         NEW now \in Nat, clock[c] <= now
  PROVE  /\ CalcEarly(c, p, now) \in Seq(Nat)
         /\ Len(CalcEarly(c, p, now)) <= History
         /\ Sorted(CalcEarly(c, p, now))
         /\ \A i \in 1..Len(CalcEarly(c, p, now)) :
              \/ CalcEarly(c, p, now)[i] <= now
              \/ frame[c] # 0 /\ CalcEarly(c, p, now)[i] <= sent[frame[c]][p].time
<1> DEFINE h == history[c][p]
           e == CalcEarly(c, p, now)
           time == sent[frame[c]][p].time
<1>1. /\ h \in Seq(Nat) /\ Len(h) \in Nat /\ Len(h) <= History /\ Sorted(h)
      /\ \A i \in 1..Len(h) : h[i] \in Nat
      /\ clock[c] \in Nat /\ History \in Nat
  BY Typed, RaceAssumption DEF HistoryAt
<1>a. \A i \in 1..Len(h) : h[i] <= clock[c] \/ (frame[c] # 0 /\ h[i] <= time)
  BY Zenon DEF HistoryAt
<1>2. ASSUME NEW i \in 1..Len(h)
      PROVE  h[i] <= now \/ (frame[c] # 0 /\ h[i] <= time)
  <2>1. h[i] <= clock[c] \/ (frame[c] # 0 /\ h[i] <= time)
    BY <1>a
  <2>2. h[i] <= clock[c] => h[i] <= now
    <3> HIDE DEF h
    <3> QED
      BY <1>1
  <2> QED
    BY <2>1, <2>2
<1>3. CASE frame[c] = 0
  <2>1. e = h
    BY <1>3 DEF CalcEarly
  <2> QED
    BY <1>1, <1>2, <2>1
<1>4. CASE frame[c] # 0 /\ now <= time
  <2> DEFINE rest == PopBefore(h, now)
  <2>0. time \in Nat
    BY <1>4, Typed
  <2>1. /\ rest \in Seq(Nat) /\ Len(rest) <= Len(h) /\ Sorted(rest)
        /\ \A i \in 1..Len(rest) : \E j \in 1..Len(h) : rest[i] = h[j]
    BY <1>1, PopFacts
  <2>2. e = IF Len(rest) < History THEN Append(rest, time) ELSE rest
    BY <1>4 DEF CalcEarly, HandleFuture
  <2> HIDE DEF rest, e, h, time
  <2>3. Len(rest) \in Nat /\ Len(rest) <= History
    BY <1>1, <2>1, LenProperties
  <2>b. ASSUME NEW j \in 1..Len(h)
        PROVE  h[j] <= time
    <3>1. h[j] \in Nat /\ (h[j] <= now \/ h[j] <= time)
      BY <1>1, <1>2
    <3> QED
      BY <1>4, <2>0, <3>1
  <2>4. ASSUME NEW i \in 1..Len(rest)
        PROVE  rest[i] <= time
    <3>1. PICK j \in 1..Len(h) : rest[i] = h[j]
      BY <2>1
    <3> QED
      BY <2>b, <3>1
  <2>5. CASE Len(rest) < History
    <3>1. /\ Append(rest, time) \in Seq(Nat) /\ Len(Append(rest, time)) = Len(rest) + 1
          /\ Sorted(Append(rest, time))
          /\ \A i \in 1..Len(Append(rest, time)) :
               \/ Append(rest, time)[i] = time
               \/ \E j \in 1..Len(rest) : Append(rest, time)[i] = rest[j]
      BY <2>0, <2>1, <2>4, AppendFacts
    <3>2. e = Append(rest, time)
      BY <2>2, <2>5
    <3>3. \A i \in 1..Len(e) : e[i] <= time
      BY <2>0, <2>4, <3>1, <3>2
    <3>4. Len(e) <= History
      BY <1>1, <2>3, <2>5, <3>1, <3>2
    <3> QED
      BY <1>4, <3>1, <3>2, <3>3, <3>4 DEF e, time
  <2>6. CASE ~(Len(rest) < History)
    <3>1. e = rest
      BY <2>2, <2>6
    <3> QED
      BY <1>4, <2>1, <2>3, <2>4, <3>1 DEF e, time
  <2> QED
    BY <2>5, <2>6
<1>5. CASE frame[c] # 0 /\ ~(now <= time)
  <2>0. time \in Nat
    BY <1>5, Typed
  <2> DEFINE rest == PopBefore(h, time)
  <2>1. e = rest
    BY <1>5 DEF CalcEarly, HandlePast
  <2> HIDE DEF e, h, time
  <2>a. /\ rest \in Seq(Nat) /\ Len(rest) <= Len(h) /\ Sorted(rest)
        /\ \A i \in 1..Len(rest) : \E j \in 1..Len(h) : rest[i] = h[j]
    BY <1>1, <2>0, PopFacts
  <2> HIDE DEF rest
  <2>2. /\ e \in Seq(Nat) /\ Len(e) <= Len(h) /\ Sorted(e)
        /\ \A i \in 1..Len(e) : \E j \in 1..Len(h) : e[i] = h[j]
    BY <2>1, <2>a
  <2>3. Len(e) <= History
    BY <1>1, <2>2, LenProperties
  <2>4. \A i \in 1..Len(e) : e[i] <= now \/ (frame[c] # 0 /\ e[i] <= time)
    BY <1>2, <2>2
  <2> QED
    BY <2>2, <2>3, <2>4 DEF e, time
<1> QED
  BY <1>3, <1>4, <1>5

\* What recording the present makes of it.
LEMMA LateFacts ==
  ASSUME NEW s \in Seq(Nat), Len(s) <= History, Sorted(s), NEW now \in Nat
  PROVE  /\ CalcLate(s, now) \in Seq(Nat)
         /\ Len(CalcLate(s, now)) <= History
         /\ Sorted(CalcLate(s, now))
         /\ \A i \in 1..Len(CalcLate(s, now)) :
              \/ CalcLate(s, now)[i] = now
              \/ \E j \in 1..Len(s) : CalcLate(s, now)[i] = s[j]
<1>0. /\ Len(s) \in Nat /\ \A i \in 1..Len(s) : s[i] \in Nat
      /\ History \in Nat \ {0}
  BY LenProperties, ElementOfSeq, RaceAssumption
<1>1. CASE s # <<>> /\ s[Len(s)] >= now
  <2>1. CalcLate(s, now) = s
    BY <1>1 DEF CalcLate
  <2> QED
    BY <2>1
<1>2. CASE ~(s # <<>> /\ s[Len(s)] >= now)
  <2> DEFINE t == IF Len(s) = History THEN Tail(s) ELSE s
             l == CalcLate(s, now)
  <2>1. l = Append(t, now)
    BY <1>2 DEF CalcLate
  <2>2. \A i \in 1..Len(s) : s[i] <= now
    <3> SUFFICES ASSUME NEW i \in 1..Len(s) PROVE s[i] <= now
      OBVIOUS
    <3>1. s # <<>>
      BY EmptySeq
    <3>2. Len(s) \in 1..Len(s) /\ i <= Len(s)
      BY <1>0
    <3>3. s[i] <= s[Len(s)]
      BY <3>2 DEF Sorted
    <3>4. ~(s[Len(s)] >= now)
      BY <1>2, <3>1
    <3> QED
      BY <1>0, <3>2, <3>3, <3>4
  <2>3. /\ t \in Seq(Nat) /\ Len(t) \in Nat /\ Len(t) + 1 <= History
        /\ \A i \in 1..Len(t) : \E j \in 1..Len(s) : t[i] = s[j]
        /\ Sorted(t)
    <3>1. CASE Len(s) = History
      <4>1. s # <<>>
        BY <1>0, <3>1, EmptySeq
      <4>2. /\ Tail(s) \in Seq(Nat) /\ Len(Tail(s)) = Len(s) - 1
            /\ \A i \in 1..Len(Tail(s)) : Tail(s)[i] = s[i + 1]
        BY <4>1, HeadTailProperties
      <4>3. t = Tail(s)
        BY <3>1
      <4> HIDE DEF t
      <4>4. \A i \in 1..Len(t) : i + 1 \in 1..Len(s) /\ t[i] = s[i + 1]
        BY <1>0, <4>2, <4>3
      <4>5. Sorted(t)
        <5> SUFFICES ASSUME NEW i \in 1..Len(t), NEW j \in 1..Len(t), i <= j
                     PROVE  t[i] <= t[j]
          BY DEF Sorted
        <5>1. i + 1 <= j + 1
          OBVIOUS
        <5> QED
          BY <4>4, <5>1 DEF Sorted
      <4>6. Len(t) \in Nat /\ Len(t) + 1 <= History
        BY <1>0, <3>1, <4>1, <4>2, <4>3
      <4> QED
        BY <4>2, <4>3, <4>4, <4>5, <4>6
    <3>2. CASE Len(s) # History
      <4>1. t = s
        BY <3>2
      <4> HIDE DEF t
      <4> QED
        BY <1>0, <3>2, <4>1
    <3> QED
      BY <3>1, <3>2
  <2> HIDE DEF t, l
  <2>4. \A i \in 1..Len(t) : t[i] <= now
    BY <2>2, <2>3
  <2>5. /\ Append(t, now) \in Seq(Nat) /\ Len(Append(t, now)) = Len(t) + 1
        /\ Sorted(Append(t, now))
        /\ \A i \in 1..Len(Append(t, now)) :
             \/ Append(t, now)[i] = now
             \/ \E j \in 1..Len(t) : Append(t, now)[i] = t[j]
    BY <2>3, <2>4, AppendFacts
  <2>6. \A i \in 1..Len(l) : l[i] = now \/ \E j \in 1..Len(s) : l[i] = s[j]
    BY <2>1, <2>3, <2>5
  <2> QED
    BY <2>1, <2>3, <2>5, <2>6 DEF l
<1> QED
  BY <1>1, <1>2

\* One frame of the race scene on one history.
LEMMA LateOfEarly ==
  ASSUME TypeOK, NEW c \in Consoles, NEW p \in Consoles, HistoryAt(c, p),
         NEW now \in Nat, clock[c] <= now,
         NEW l, l = CalcLate(CalcEarly(c, p, now), now)
  PROVE  /\ l \in Seq(Nat) /\ Len(l) <= History /\ Sorted(l)
         /\ \A i \in 1..Len(l) :
              \/ l[i] <= now
              \/ frame[c] # 0 /\ l[i] <= sent[frame[c]][p].time
<1> DEFINE e == CalcEarly(c, p, now)
<1>1. /\ e \in Seq(Nat) /\ Len(e) <= History /\ Sorted(e)
      /\ \A i \in 1..Len(e) :
           \/ e[i] <= now
           \/ frame[c] # 0 /\ e[i] <= sent[frame[c]][p].time
  BY EarlyFacts
<1>2. l = CalcLate(e, now)
  OBVIOUS
<1> HIDE DEF e
<1>3. /\ l \in Seq(Nat) /\ Len(l) <= History /\ Sorted(l)
      /\ \A i \in 1..Len(l) : l[i] = now \/ \E j \in 1..Len(e) : l[i] = e[j]
  BY <1>1, <1>2, LateFacts
<1>4. ASSUME NEW i \in 1..Len(l)
      PROVE  \/ l[i] <= now
             \/ frame[c] # 0 /\ l[i] <= sent[frame[c]][p].time
  <2>1. CASE l[i] = now
    BY <2>1
  <2>2. CASE \E j \in 1..Len(e) : l[i] = e[j]
    <3>1. PICK j \in 1..Len(e) : l[i] = e[j]
      BY <2>2
    <3> QED
      BY <1>1, <3>1
  <2> QED
    BY <1>3, <2>1, <2>2
<1> QED
  BY <1>3, <1>4

\* calcWrite adds the present to the queue, or nothing.
LEMMA RequestFacts ==
  ASSUME Inv, NEW c \in Consoles, NEW now \in Nat, clock[c] <= now, Request(c, now)
  PROVE  /\ backlog' \in [Consoles -> Seq(Nat)] /\ cut' \in [Consoles -> BOOLEAN]
         /\ \A p \in Consoles :
              /\ Len(backlog'[p]) <= Backlog
              /\ Sorted(backlog'[p])
              /\ p # c => backlog'[p] = backlog[p]
         /\ \A i \in 1..Len(backlog'[c]) :
              \/ backlog'[c][i] = now
              \/ \E j \in 1..Len(backlog[c]) : backlog'[c][i] = backlog[c][j]
<1>0. TypeOK /\ QueuesInOrder /\ backlog \in [Consoles -> Seq(Nat)] /\ cut \in [Consoles -> BOOLEAN]
  BY DEF Inv, TypeOK
<1>1. ASSUME NEW p \in Consoles
      PROVE  backlog[p] \in Seq(Nat) /\ Len(backlog[p]) <= Backlog /\ Sorted(backlog[p])
  BY <1>0, Typed DEF QueuesInOrder
<1>2. CASE Len(backlog[c]) < Backlog /\ ~cut[c]
  <2> DEFINE q == Append(backlog[c], now)
  <2>1. backlog' = [backlog EXCEPT ![c] = q] /\ cut' = cut
    BY <1>2 DEF Request
  <2>2. \A i \in 1..Len(backlog[c]) : backlog[c][i] <= now
    <3> SUFFICES ASSUME NEW i \in 1..Len(backlog[c]) PROVE backlog[c][i] <= now
      OBVIOUS
    <3>1. backlog[c][i] <= clock[c] /\ backlog[c][i] \in Nat /\ clock[c] \in Nat
      BY <1>0, Typed DEF QueuesInOrder
    <3> QED
      BY <3>1
  <2>3. /\ q \in Seq(Nat) /\ Len(q) = Len(backlog[c]) + 1 /\ Sorted(q)
        /\ \A i \in 1..Len(q) : q[i] = now \/ \E j \in 1..Len(backlog[c]) : q[i] = backlog[c][j]
    BY <1>1, <2>2, AppendFacts
  <2> HIDE DEF q
  <2>4. Len(q) <= Backlog
    BY <1>0, <1>2, <2>3, Typed, RaceAssumption
  <2>5. backlog'[c] = q /\ \A p \in Consoles : p # c => backlog'[p] = backlog[p]
    BY <1>0, <2>1
  <2>6. backlog' \in [Consoles -> Seq(Nat)]
    BY <1>0, <2>1, <2>3
  <2> QED
    BY <1>0, <1>1, <2>1, <2>3, <2>4, <2>5, <2>6
<1>3. CASE ~(Len(backlog[c]) < Backlog /\ ~cut[c])
  <2>1. cut' = [cut EXCEPT ![c] = TRUE] /\ backlog' = backlog
    BY <1>3 DEF Request
  <2>2. cut' \in [Consoles -> BOOLEAN]
    BY <1>0, <2>1
  <2> QED
    BY <1>0, <1>1, <2>1, <2>2
<1> QED
  BY <1>2, <1>3

\* RaceClient::calcWrite: the console adds a frame and sends it.
LEMMA CalcWriteStep ==
  ASSUME Inv, NEW c \in Consoles, CalcWrite(c)
  PROVE  Inv'
<1>0. TypeOK /\ QueuesInOrder /\ HeldIsTrue /\ SentIsTrue /\ Histories
  BY DEF Inv
<1>1. PICK now \in {clock[c]} \cup {n \in 1..MaxClock : frame[c] # 0 /\ n = clock[c] + 1} :
        /\ clock' = [clock EXCEPT ![c] = now]
        /\ history' = [history EXCEPT ![c] =
             [p \in Consoles |-> IF p = c THEN <<>> ELSE CalcLate(CalcEarly(c, p, now), now)]]
        /\ Ping(c)
        /\ Request(c, now)
        /\ UNCHANGED <<frame, roomVars>>
  BY DEF CalcWrite
<1>2. now \in Nat /\ now \in 0..MaxClock /\ clock[c] <= now
  BY <1>0, <1>1, Typed, RaceAssumption
<1>3. UNCHANGED <<frame, stage, pending, playerTime, sent>>
  BY <1>1 DEF roomVars
<1>4. /\ clock \in [Consoles -> 0..MaxClock] /\ clock' \in [Consoles -> 0..MaxClock]
      /\ clock'[c] = now
      /\ \A p \in Consoles : p # c => clock'[p] = clock[p]
  BY <1>0, <1>1, <1>2 DEF TypeOK
<1>5. \A p \in Consoles : clock[p] <= clock'[p] /\ clock[p] \in Nat /\ clock'[p] \in Nat
  BY <1>0, <1>2, <1>4, Typed
<1>6. /\ backlog' \in [Consoles -> Seq(Nat)] /\ cut' \in [Consoles -> BOOLEAN]
      /\ \A p \in Consoles :
           /\ Len(backlog'[p]) <= Backlog
           /\ Sorted(backlog'[p])
           /\ p # c => backlog'[p] = backlog[p]
      /\ \A i \in 1..Len(backlog'[c]) :
           \/ backlog'[c][i] = now
           \/ \E j \in 1..Len(backlog[c]) : backlog'[c][i] = backlog[c][j]
  BY <1>1, <1>2, RequestFacts
<1> DEFINE late == [p \in Consoles |-> IF p = c THEN <<>> ELSE CalcLate(CalcEarly(c, p, now), now)]
<1>7. ASSUME NEW p \in Consoles
      PROVE  /\ late[p] \in Seq(Nat) /\ Len(late[p]) <= History /\ Sorted(late[p])
             /\ \A i \in 1..Len(late[p]) :
                  \/ late[p][i] <= now
                  \/ frame[c] # 0 /\ late[p][i] <= sent[frame[c]][p].time
  <2>1. CASE p = c
    <3>1. late[p] = <<>>
      BY <2>1
    <3> HIDE DEF late
    <3>2. late[p] \in Seq(Nat) /\ Len(late[p]) = 0
      BY <3>1, EmptySeq
    <3>3. \A i \in 1..Len(late[p]) : FALSE
      BY <3>2
    <3>4. Len(late[p]) <= History
      BY <3>2, RaceAssumption
    <3> QED
      BY <3>2, <3>3, <3>4 DEF Sorted
  <2>2. CASE p # c
    <3>1. late[p] = CalcLate(CalcEarly(c, p, now), now)
      BY <2>2
    <3> HIDE DEF late
    <3>2. HistoryAt(c, p)
      BY <1>0 DEF Histories
    <3> QED
      BY <1>0, <1>2, <3>1, <3>2, LateOfEarly
  <2> QED
    BY <2>1, <2>2
<1>8. history' = [history EXCEPT ![c] = late]
  BY <1>1
<1>9. late \in [Consoles -> Seq(Nat)]
  <2>1. DOMAIN late = Consoles /\ late = [p \in Consoles |-> late[p]]
    OBVIOUS
  <2> HIDE DEF late
  <2> QED
    BY <1>7, <2>1
<1> HIDE DEF late
<1>10. /\ history \in [Consoles -> [Consoles -> Seq(Nat)]]
       /\ history' \in [Consoles -> [Consoles -> Seq(Nat)]]
       /\ history'[c] = late
       /\ \A d \in Consoles : d # c => history'[d] = history[d]
  BY <1>0, <1>8, <1>9 DEF TypeOK
<1>11. TypeOK'
  <2>1. ASSUME NEW d \in Consoles, NEW p \in Consoles
        PROVE  Len(history'[d][p]) <= History
    BY <1>0, <1>7, <1>10, Typed
  <2>2. pings' \subseteq Consoles
    BY <1>0, <1>1 DEF Ping, TypeOK
  <2>3. \A d \in Consoles : Len(backlog'[d]) <= Backlog
    BY <1>6
  <2> QED
    BY <1>0, <1>3, <1>4, <1>6, <1>10, <2>1, <2>2, <2>3 DEF TypeOK
<1>12. QueuesInOrder'
  <2>1. ASSUME NEW p \in Consoles, NEW i \in 1..Len(backlog'[p])
        PROVE  backlog'[p][i] <= clock'[p]
    <3>1. CASE p # c
      BY <1>0, <1>4, <1>6, <3>1 DEF QueuesInOrder
    <3>2. CASE p = c
      <4>1. CASE backlog'[c][i] = now
        BY <1>2, <1>4, <3>2, <4>1
      <4>2. CASE \E j \in 1..Len(backlog[c]) : backlog'[c][i] = backlog[c][j]
        <5>1. PICK j \in 1..Len(backlog[c]) : backlog'[c][i] = backlog[c][j]
          BY <4>2
        <5>2. backlog[c][j] <= clock[c] /\ backlog[c][j] \in Nat
          BY <1>0, Typed DEF QueuesInOrder
        <5> QED
          BY <1>5, <3>2, <5>1, <5>2
      <4> QED
        BY <1>6, <3>2, <4>1, <4>2
    <3> QED
      BY <3>1, <3>2
  <2>2. \A p \in Consoles : Sorted(backlog[p])'
    BY <1>6 DEF Sorted
  <2> QED
    BY <2>1, <2>2 DEF QueuesInOrder
<1>13. HeldIsTrue'
  <2>1. ASSUME NEW p \in Consoles, playerTime[p].time # NoFrame
        PROVE  /\ playerTime[p].time <= clock'[p]
               /\ \A i \in 1..Len(backlog'[p]) : playerTime[p].time <= backlog'[p][i]
    <3>1. /\ playerTime[p].time \in Nat
          /\ playerTime[p].time <= clock[p]
          /\ \A i \in 1..Len(backlog[p]) : playerTime[p].time <= backlog[p][i]
      BY <1>0, <2>1, Typed DEF HeldIsTrue
    <3>2. playerTime[p].time <= clock'[p]
      BY <1>5, <3>1
    <3>3. ASSUME NEW i \in 1..Len(backlog'[p])
          PROVE  playerTime[p].time <= backlog'[p][i]
      <4>1. CASE p # c
        BY <1>6, <3>1, <4>1
      <4>2. CASE p = c
        BY <1>4, <1>6, <3>1, <3>2, <4>2
      <4> QED
        BY <4>1, <4>2
    <3> QED
      BY <3>2, <3>3
  <2> QED
    BY <1>0, <1>3, <2>1 DEF HeldIsTrue
<1>14. SentIsTrue'
  BY <1>0, <1>3 DEF SentIsTrue
<1>15. ASSUME NEW d \in Consoles, NEW p \in Consoles
       PROVE  HistoryAt(d, p)'
  <2>1. CASE d = c
    BY <1>3, <1>4, <1>7, <1>10, <2>1 DEF HistoryAt, Sorted
  <2>2. CASE d # c
    BY <1>0, <1>3, <1>4, <1>10, <2>2 DEF Histories, HistoryAt, Sorted
  <2> QED
    BY <2>1, <2>2
<1> QED
  BY <1>11, <1>12, <1>13, <1>14, <1>15 DEF Inv, Histories
-------------------------------------------------------------------------------
(***************************************************************************)
(* The room's steps.                                                       *)
(***************************************************************************)
LEMMA ReceivePingStep ==
  ASSUME Inv, NEW c \in Consoles, ReceivePing(c)
  PROVE  Inv'
<1>0. TypeOK /\ QueuesInOrder /\ HeldIsTrue /\ SentIsTrue /\ Histories
  BY DEF Inv
<1>1. UNCHANGED <<clock, frame, history, cut, backlog, playerTime, sent>>
  BY DEF ReceivePing, consoleVars
<1>2. stage = "pings" /\ stage' \in {"pings", "collect"}
  BY DEF ReceivePing
<1>3. pings' \subseteq Consoles /\ pending' \subseteq Consoles
  BY <1>0 DEF ReceivePing, TypeOK
<1>4. TypeOK'
  BY <1>0, <1>1, <1>2, <1>3 DEF TypeOK
<1>5. QueuesInOrder' /\ HeldIsTrue' /\ Histories'
  BY <1>0, <1>1 DEF QueuesInOrder, HeldIsTrue, Histories, HistoryAt, Sorted
<1>6. SentIsTrue'
  BY <1>0, <1>1, <1>2 DEF SentIsTrue
<1> QED
  BY <1>4, <1>5, <1>6 DEF Inv

\* Taking a request moves the frame held of its player on, and no other.
LEMMA TakesFacts ==
  ASSUME Inv, NEW c \in Consoles, TakesRequest(c), UNCHANGED clock
  PROVE  /\ backlog' \in [Consoles -> Seq(Nat)]
         /\ \A p \in Consoles : Len(backlog'[p]) <= Backlog
         /\ playerTime' \in [Consoles -> PlayerFrame \cup Unsent]
         /\ QueuesInOrder' /\ HeldIsTrue'
         /\ playerTime'[c].time \in Nat
         /\ playerTime[c].time # NoFrame => playerTime[c].time <= playerTime'[c].time
         /\ \A p \in Consoles : p # c => playerTime'[p] = playerTime[p]
<1>0. TypeOK /\ QueuesInOrder /\ HeldIsTrue
  BY DEF Inv
<1> DEFINE q == backlog[c]
           f == [player |-> c, time |-> Head(q)]
<1>1. q # <<>> /\ backlog' = [backlog EXCEPT ![c] = Tail(q)] /\ playerTime' = [playerTime EXCEPT ![c] = f]
  BY DEF TakesRequest
<1>2. /\ q \in Seq(Nat) /\ Len(q) \in Nat /\ Len(q) <= Backlog /\ Sorted(q)
      /\ \A i \in 1..Len(q) : q[i] \in Nat /\ q[i] <= clock[c]
      /\ clock[c] \in Nat
      /\ Backlog \in Nat
  BY <1>0, Typed, RaceAssumption DEF QueuesInOrder
<1>3. /\ Head(q) \in Nat /\ Tail(q) \in Seq(Nat) /\ Len(Tail(q)) = Len(q) - 1
      /\ \A i \in 1..Len(Tail(q)) : Tail(q)[i] = q[i + 1]
  BY <1>1, <1>2, HeadTailProperties
<1>4. Head(q) = q[1] /\ 1 \in 1..Len(q)
  <2>1. Len(q) \in Nat \ {0}
    BY <1>1, <1>2, EmptySeq
  <2> QED
    BY <1>2, <2>1
<1>5. /\ backlog \in [Consoles -> Seq(Nat)]
      /\ playerTime \in [Consoles -> PlayerFrame \cup Unsent]
  BY <1>0 DEF TypeOK
<1>6. /\ backlog'[c] = Tail(q) /\ playerTime'[c] = f
      /\ \A p \in Consoles : p # c => backlog'[p] = backlog[p] /\ playerTime'[p] = playerTime[p]
  BY <1>1, <1>5
<1>7. f.player = c /\ f.time = Head(q) /\ f \in PlayerFrame
  BY <1>3 DEF PlayerFrame
<1> HIDE DEF f
<1>8. backlog' \in [Consoles -> Seq(Nat)]
  BY <1>1, <1>3, <1>5
<1>9. playerTime' \in [Consoles -> PlayerFrame \cup Unsent]
  BY <1>1, <1>5, <1>7
<1>10. \A i \in 1..Len(Tail(q)) : i + 1 \in 1..Len(q)
  BY <1>2, <1>3
<1>11. /\ Len(Tail(q)) <= Backlog
       /\ \A i \in 1..Len(Tail(q)) : Tail(q)[i] <= clock[c] /\ Head(q) <= Tail(q)[i]
  <2>1. ASSUME NEW i \in 1..Len(Tail(q))
        PROVE  Tail(q)[i] <= clock[c] /\ Head(q) <= Tail(q)[i]
    <3>1. Tail(q)[i] = q[i + 1] /\ i + 1 \in 1..Len(q) /\ 1 <= i + 1
      BY <1>3, <1>10
    <3>2. q[1] <= q[i + 1]
      BY <1>2, <1>4, <3>1 DEF Sorted
    <3> QED
      BY <1>2, <1>4, <3>1, <3>2
  <2> QED
    BY <1>2, <1>3, <2>1
<1>12. Sorted(Tail(q))
  <2> SUFFICES ASSUME NEW i \in 1..Len(Tail(q)), NEW j \in 1..Len(Tail(q)), i <= j
               PROVE  Tail(q)[i] <= Tail(q)[j]
    BY DEF Sorted
  <2>1. i + 1 <= j + 1
    OBVIOUS
  <2>2. i + 1 \in 1..Len(q) /\ j + 1 \in 1..Len(q)
    BY <1>10
  <2>3. q[i + 1] <= q[j + 1]
    BY <1>2, <2>1, <2>2 DEF Sorted
  <2> QED
    BY <1>3, <2>3
<1>13. QueuesInOrder'
  <2> SUFFICES ASSUME NEW p \in Consoles
               PROVE  /\ Sorted(backlog'[p])
                      /\ \A i \in 1..Len(backlog'[p]) : backlog'[p][i] <= clock'[p]
    BY DEF QueuesInOrder, Sorted
  <2>1. CASE p = c
    BY <1>6, <1>11, <1>12, <2>1
  <2>2. CASE p # c
    BY <1>0, <1>6, <2>2 DEF QueuesInOrder
  <2> QED
    BY <2>1, <2>2
<1>14. Head(q) <= clock[c]
  BY <1>2, <1>4
<1>15. HeldIsTrue'
  <2> SUFFICES ASSUME NEW p \in Consoles
               PROVE  /\ playerTime'[p].player = p
                      /\ playerTime'[p].time # NoFrame =>
                           /\ playerTime'[p].time <= clock'[p]
                           /\ \A i \in 1..Len(backlog'[p]) : playerTime'[p].time <= backlog'[p][i]
    BY DEF HeldIsTrue
  <2>1. CASE p = c
    BY <1>6, <1>7, <1>11, <1>14, <2>1
  <2>2. CASE p # c
    BY <1>0, <1>6, <2>2 DEF HeldIsTrue
  <2> QED
    BY <2>1, <2>2
<1>16. playerTime[c].time # NoFrame => playerTime[c].time <= playerTime'[c].time
  BY <1>0, <1>4, <1>6, <1>7 DEF HeldIsTrue
<1>17. \A p \in Consoles : Len(backlog'[p]) <= Backlog
  BY <1>0, <1>6, <1>11, Typed
<1> QED
  BY <1>3, <1>6, <1>7, <1>8, <1>9, <1>13, <1>15, <1>16, <1>17

\* The room takes a frame while it still waits for some player's first.
LEMMA CollectStep ==
  ASSUME Inv, NEW c \in Consoles, Collect(c)
  PROVE  Inv'
<1>0. TypeOK /\ QueuesInOrder /\ HeldIsTrue /\ SentIsTrue /\ Histories
  BY DEF Inv
<1>1. /\ stage = "collect" /\ TakesRequest(c)
      /\ stage' = IF \A p \in Consoles : playerTime'[p].time # NoFrame THEN "frames" ELSE stage
      /\ UNCHANGED <<clock, frame, history, cut, pings, pending, sent>>
  BY DEF Collect, consoleVars
<1>2. sent = <<>> /\ sent' = <<>>
  BY <1>0, <1>1 DEF SentIsTrue
<1>3. /\ backlog' \in [Consoles -> Seq(Nat)]
      /\ \A p \in Consoles : Len(backlog'[p]) <= Backlog
      /\ playerTime' \in [Consoles -> PlayerFrame \cup Unsent]
      /\ QueuesInOrder' /\ HeldIsTrue'
  BY <1>1, TakesFacts
<1>4. stage' \in {"collect", "frames"}
  BY <1>1
<1>5. TypeOK'
  BY <1>0, <1>1, <1>3, <1>4 DEF TypeOK
<1>6. SentIsTrue'
  <2>1. Len(sent') = 0
    BY <1>2, EmptySeq
  <2>2. \A n \in 1..Len(sent') : FALSE
    BY <2>1
  <2>3. stage' = "frames" => \A p \in Consoles : playerTime'[p].time # NoFrame
    BY <1>1
  <2> QED
    BY <1>2, <2>2, <2>3 DEF SentIsTrue
<1>7. Histories'
  BY <1>0, <1>1 DEF Histories, HistoryAt, Sorted
<1> QED
  BY <1>3, <1>5, <1>6, <1>7 DEF Inv

\* The room takes a frame and broadcasts what it now holds of everyone.
LEMMA BroadcastStep ==
  ASSUME Inv, NEW c \in Consoles, Broadcast(c)
  PROVE  Inv'
<1>0. TypeOK /\ QueuesInOrder /\ HeldIsTrue /\ SentIsTrue /\ Histories
  BY DEF Inv
<1>1. /\ stage = "frames" /\ TakesRequest(c)
      /\ sent' = Append(sent, playerTime')
      /\ UNCHANGED <<clock, frame, history, cut, pings, stage, pending>>
  BY DEF Broadcast, consoleVars
<1>2. /\ backlog' \in [Consoles -> Seq(Nat)]
      /\ \A p \in Consoles : Len(backlog'[p]) <= Backlog
      /\ playerTime' \in [Consoles -> PlayerFrame \cup Unsent]
      /\ QueuesInOrder' /\ HeldIsTrue'
      /\ playerTime'[c].time \in Nat
      /\ playerTime[c].time # NoFrame => playerTime[c].time <= playerTime'[c].time
      /\ \A p \in Consoles : p # c => playerTime'[p] = playerTime[p]
  BY <1>1, TakesFacts
<1>3. ASSUME NEW p \in Consoles
      PROVE  /\ playerTime[p].time \in Nat /\ playerTime'[p].time \in Nat
             /\ playerTime[p].time <= playerTime'[p].time
             /\ playerTime'[p].player = p
             /\ playerTime'[p] \in PlayerFrame
  <2>1. playerTime[p].time # NoFrame /\ playerTime[p].time \in Nat
    BY <1>0, <1>1, Typed DEF SentIsTrue
  <2>2. playerTime'[p].time \in Nat /\ playerTime[p].time <= playerTime'[p].time
    <3>1. CASE p = c
      BY <1>2, <2>1, <3>1
    <3>2. CASE p # c
      <4>1. playerTime'[p].time = playerTime[p].time
        BY <1>2, <3>2
      <4> QED
        BY <2>1, <4>1
    <3> QED
      BY <3>1, <3>2
  <2>3. playerTime'[p] \in PlayerFrame
    <3>1. playerTime'[p] \in PlayerFrame \cup Unsent
      BY <1>2
    <3>2. \A x \in Unsent : x.time = NoFrame
      BY DEF Unsent
    <3> QED
      BY <2>2, <3>1, <3>2, RaceAssumption
  <2> QED
    BY <1>2, <2>1, <2>2, <2>3 DEF HeldIsTrue
<1>4. playerTime' \in [Consoles -> PlayerFrame]
  BY <1>2, <1>3
<1>5. /\ sent \in Seq([Consoles -> PlayerFrame]) /\ Len(sent) \in Nat
      /\ sent' \in Seq([Consoles -> PlayerFrame])
      /\ Len(sent') = Len(sent) + 1
      /\ \A n \in 1..Len(sent) : sent'[n] = sent[n]
      /\ sent'[Len(sent) + 1] = playerTime'
  BY <1>0, <1>1, <1>4, AppendProperties, Typed DEF TypeOK
<1>6. TypeOK'
  <2>1. frame' \in [Consoles -> 0..Len(sent')]
    <3>1. frame \in [Consoles -> 0..Len(sent)] /\ 0..Len(sent) \subseteq 0..Len(sent')
      BY <1>0, <1>5 DEF TypeOK
    <3> QED
      BY <1>1, <3>1
  <2> QED
    BY <1>0, <1>1, <1>2, <1>5, <2>1 DEF TypeOK
<1>7. \A n \in 1..Len(sent') : n \in 1..Len(sent) \/ n = Len(sent) + 1
  BY <1>5
<1>8. ASSUME NEW n \in 1..Len(sent'), NEW p \in Consoles
      PROVE  /\ sent'[n][p].player = p /\ sent'[n][p].time <= playerTime'[p].time
             /\ sent'[n][p].time \in Nat
  <2>1. CASE n \in 1..Len(sent)
    <3>1. /\ sent'[n][p] = sent[n][p] /\ sent[n][p].player = p
          /\ sent[n][p].time <= playerTime[p].time /\ sent[n][p].time \in Nat
      BY <1>0, <1>5, <2>1, Typed DEF SentIsTrue
    <3> QED
      BY <1>3, <3>1
  <2>2. CASE n = Len(sent) + 1
    <3>1. sent'[n] = playerTime'
      BY <1>5, <2>2
    <3>2. sent'[n][p] = playerTime'[p]
      BY <3>1
    <3> QED
      BY <1>3, <3>2
  <2> QED
    BY <1>7, <2>1, <2>2
<1>9. ASSUME NEW m \in 1..Len(sent'), NEW n \in 1..Len(sent'), NEW p \in Consoles, m <= n
      PROVE  sent'[m][p].time <= sent'[n][p].time
  <2>1. CASE n \in 1..Len(sent)
    <3>1. m \in 1..Len(sent)
      BY <1>5, <1>9, <2>1
    <3>2. sent[m][p].time <= sent[n][p].time
      BY <1>0, <1>9, <2>1, <3>1 DEF SentIsTrue
    <3> QED
      BY <1>5, <2>1, <3>1, <3>2
  <2>2. CASE n = Len(sent) + 1
    <3>1. sent'[n] = playerTime'
      BY <1>5, <2>2
    <3>2. sent'[n][p] = playerTime'[p]
      BY <3>1
    <3> QED
      BY <1>8, <3>2
  <2> QED
    BY <1>7, <2>1, <2>2
<1>10. SentIsTrue'
  BY <1>1, <1>3, <1>8, <1>9, RaceAssumption DEF SentIsTrue
<1>11. ASSUME NEW d \in Consoles, NEW p \in Consoles
       PROVE  HistoryAt(d, p)'
  <2>1. frame[d] # 0 => sent'[frame[d]] = sent[frame[d]]
    BY <1>0, <1>5, Typed
  <2>2. HistoryAt(d, p)
    BY <1>0 DEF Histories
  <2> QED
    BY <1>1, <2>1, <2>2 DEF HistoryAt, Sorted
<1> QED
  BY <1>2, <1>6, <1>10, <1>11 DEF Inv, Histories
-------------------------------------------------------------------------------
(***************************************************************************)
(* The theorems.                                                           *)
(***************************************************************************)
LEMMA InvNext == Inv /\ [Next]_vars => Inv'
<1> SUFFICES ASSUME Inv, [Next]_vars PROVE Inv'
  OBVIOUS
<1>1. ASSUME NEW c \in Consoles,
             CalcRead(c) \/ CalcWrite(c) \/ ReceivePing(c) \/ Collect(c) \/ Broadcast(c)
      PROVE  Inv'
  BY <1>1, CalcReadStep, CalcWriteStep, ReceivePingStep, CollectStep, BroadcastStep
<1>2. CASE UNCHANGED vars
  <2>1. UNCHANGED <<clock, frame, history, cut, backlog, pings, stage, pending, playerTime, sent>>
    BY <1>2 DEF vars, consoleVars, roomVars
  <2> QED
    BY <2>1 DEF Inv, TypeOK, QueuesInOrder, HeldIsTrue, SentIsTrue, Histories, HistoryAt, Sorted
<1> QED
  BY <1>1, <1>2 DEF Next

\* So the invariant always holds.
LEMMA SpecInv == Spec => []Inv
  BY InvInit, InvNext, PTL DEF Spec

\* Every variable keeps its type: backlogs and histories never outgrow their
\* bounds, and the room sends no frame that lacks a player.
THEOREM TypeCorrect == Spec => []TypeOK
<1>1. Inv => TypeOK
  BY DEF Inv
<1> QED
  BY <1>1, SpecInv, PTL

\* Whatever is lost, repeated or reordered, the frame a console holds has every
\* player in its place, at a time this player has reached.
THEOREM FramesTrue == Spec => []FramesAreTrue
<1>1. Inv => FramesAreTrue
  <2> SUFFICES ASSUME Inv, NEW c \in Consoles, NEW p \in Consoles, frame[c] # 0
               PROVE  sent[frame[c]][p].player = p /\ sent[frame[c]][p].time <= clock[p]
    BY DEF FramesAreTrue
  <2>0. TypeOK /\ HeldIsTrue /\ SentIsTrue
    BY DEF Inv
  <2>1. frame[c] \in 1..Len(sent)
    BY <2>0, Typed
  <2>2. /\ sent[frame[c]][p].player = p
        /\ sent[frame[c]][p].time <= playerTime[p].time
        /\ sent[frame[c]][p].time \in Nat
    BY <2>0, <2>1, Typed DEF SentIsTrue
  <2>3. playerTime[p].time # NoFrame
    <3>1. sent # <<>>
      BY <2>1, EmptySeq
    <3> QED
      BY <2>0, <3>1 DEF SentIsTrue
  <2>4. playerTime[p].time \in Nat /\ playerTime[p].time <= clock[p] /\ clock[p] \in Nat
    BY <2>0, <2>3, Typed DEF HeldIsTrue
  <2> QED
    BY <2>2, <2>4
<1> QED
  BY <1>1, SpecInv, PTL

\* isFrameValid accepts every frame newer than the one a console holds.
THEOREM NewerPasses == Spec => []NewerIsValid
<1>1. Inv => NewerIsValid
  <2> SUFFICES ASSUME Inv, NEW c \in Consoles, NEW n \in 1..Len(sent), n > frame[c]
               PROVE  Valid(c, n)
    BY DEF NewerIsValid
  <2>0. TypeOK /\ SentIsTrue
    BY DEF Inv
  <2>1. ASSUME frame[c] # 0, NEW p \in Consoles
        PROVE  sent[n][p].time >= sent[frame[c]][p].time
    <3>1. frame[c] \in 1..Len(sent) /\ frame[c] <= n
      BY <2>0, <2>1, Typed
    <3>2. sent[frame[c]][p].time <= sent[n][p].time
      BY <2>0, <3>1 DEF SentIsTrue
    <3>3. sent[frame[c]][p].time \in Nat /\ sent[n][p].time \in Nat
      BY <2>0, <3>1, Typed
    <3> QED
      BY <3>2, <3>3
  <2> QED
    BY <2>1 DEF Valid
<1> QED
  BY <1>1, SpecInv, PTL

\* Every history stays in order, through frames from the past and the future.
THEOREM HistoriesOrdered == Spec => []HistoryInOrder
<1>1. Inv => HistoryInOrder
  BY DEF Inv, Histories, HistoryAt, Sorted, HistoryInOrder
<1> QED
  BY <1>1, SpecInv, PTL
=================================================================================
