------------------------------ MODULE PageProofs ------------------------------
(***************************************************************************)
(* The pages of an online room, for any number of players and any sizes.   *)
(*                                                                         *)
(* FriendRoomBackPage: the queue leads from the screen to the room, keeps  *)
(* the senders of messages and stays within its capacity.  A queue is      *)
(* followed through the screens it leads to (Leads), each entry means on   *)
(* its screen what it meant when it was queued (Meant), and what steps do  *)
(* to a queue is append, take the first, or remove one.                    *)
(*                                                                         *)
(* Voting: every vote gets a row of its own, and all consoles race on the  *)
(* same course.                                                            *)
(***************************************************************************)
EXTENDS FriendRoomBackPage, Voting, FiniteSetTheorems, WellFoundedInduction, TLAPS

People == Miis \cup {Self}

\* Numbers have a least.
LEMMA HasLeast ==
  ASSUME NEW S \in SUBSET Nat, S # {}
  PROVE  \E n \in S : \A m \in S : n <= m
<1>1. PICK x \in S : TRUE
  OBVIOUS
<1>2. IsWellFoundedOn(OpToRel(<, Nat), Nat)
  BY NatLessThanWellFounded
<1>3. PICK n \in S : \A m \in S : ~(<<m, n>> \in OpToRel(<, Nat))
  BY <1>1, <1>2, WFMin
<1>4. ASSUME NEW m \in S
      PROVE  n <= m
  <2>1. ~(m < n)
    BY <1>3, <1>4 DEF OpToRel
  <2> QED
    BY <2>1
<1> QED
  BY <1>4

\* What is left of a sequence without its element at the place i, counted from 0.
LEMMA WithoutFacts ==
  ASSUME NEW T, NEW s \in Seq(T), NEW i \in 0..(Len(s) - 1)
  PROVE  /\ Without(s, i) \in Seq(T)
         /\ Len(Without(s, i)) = Len(s) - 1
         /\ \A j \in 1..i : Without(s, i)[j] = s[j]
         /\ \A j \in (i + 1)..(Len(s) - 1) : Without(s, i)[j] = s[j + 1]
<1>1. PICK L \in Nat : L = Len(s)
  OBVIOUS
<1>2. PICK a : a = SubSeq(s, 1, i)
  OBVIOUS
<1>3. PICK b : b = SubSeq(s, i + 2, L)
  OBVIOUS
<1>4. i \in Nat /\ i + 1 <= L
  BY <1>1
<1>5. a \in Seq(T) /\ Len(a) = i /\ \A j \in 1..i : a[j] = s[j]
  BY <1>1, <1>2, <1>4
<1>6. b \in Seq(T) /\ Len(b) = L - i - 1 /\ \A j \in 1..(L - i - 1) : b[j] = s[j + i + 1]
  <2>1. CASE i + 2 <= L
    BY <1>1, <1>3, <1>4, <2>1
  <2>2. CASE i + 1 = L
    BY <1>1, <1>3, <1>4, <2>2
  <2> QED
    BY <1>1, <1>4, <2>1, <2>2
<1>7. PICK w : w = a \o b
  OBVIOUS
<1>8. Without(s, i) = w
  BY <1>1, <1>2, <1>3, <1>7 DEF Without
<1>9. w \in Seq(T) /\ Len(w) = L - 1
  BY <1>1, <1>4, <1>5, <1>6, <1>7
<1>10. \A j \in 1..i : w[j] = s[j]
  BY <1>4, <1>5, <1>6, <1>7
<1>11. ASSUME NEW j \in (i + 1)..(L - 1)
       PROVE  w[j] = s[j + 1]
  <2>1. PICK k : k = j - i
    OBVIOUS
  <2>2. k \in 1..(L - i - 1) /\ k + i + 1 = j + 1 /\ j = k + i /\ j \in 1..(L - 1) /\ ~(j <= i)
    BY <1>1, <1>4, <2>1
  <2>3. w[j] = b[k]
    BY <1>5, <1>6, <1>7, <2>1, <2>2
  <2> QED
    BY <1>6, <2>2, <2>3
<1> QED
  BY <1>1, <1>8, <1>9, <1>10, <1>11

\* Two sequences with the same elements are the same.
LEMMA SameSequence ==
  ASSUME NEW T, NEW s \in Seq(T), NEW t \in Seq(T), Len(s) = Len(t),
         \A j \in 1..Len(s) : s[j] = t[j]
  PROVE  s = t
OBVIOUS

\* A departure commutes with the arrivals behind it,
LEMMA WithoutAppend ==
  ASSUME NEW T, NEW s \in Seq(T), NEW x \in T, NEW i \in 0..(Len(s) - 1)
  PROVE  Without(Append(s, x), i) = Append(Without(s, i), x)
<1>1. PICK L \in Nat : L = Len(s)
  OBVIOUS
<1>2. PICK t : t = Append(s, x)
  OBVIOUS
<1>3. t \in Seq(T) /\ Len(t) = L + 1 /\ t[L + 1] = x /\ \A j \in 1..L : t[j] = s[j]
  BY <1>1, <1>2
<1>4. PICK w : w = Without(s, i)
  OBVIOUS
<1>5. /\ w \in Seq(T) /\ Len(w) = L - 1
      /\ \A j \in 1..i : w[j] = s[j]
      /\ \A j \in (i + 1)..(L - 1) : w[j] = s[j + 1]
  BY <1>1, <1>4, WithoutFacts
<1>6. PICK u : u = Without(t, i)
  OBVIOUS
<1>7. /\ u \in Seq(T) /\ Len(u) = L
      /\ \A j \in 1..i : u[j] = t[j]
      /\ \A j \in (i + 1)..L : u[j] = t[j + 1]
  <2>1. i \in 0..(Len(t) - 1) /\ Len(t) - 1 = L
    BY <1>1, <1>3
  <2> QED
    BY <1>3, <1>6, <2>1, WithoutFacts
<1>8. PICK v : v = Append(w, x)
  OBVIOUS
<1>9. v \in Seq(T) /\ Len(v) = L /\ v[L] = x /\ \A j \in 1..(L - 1) : v[j] = w[j]
  BY <1>1, <1>5, <1>8
<1>10. ASSUME NEW j \in 1..L
       PROVE  u[j] = v[j]
  <2>1. CASE j <= i
    <3>1. j \in 1..i /\ j \in 1..L /\ j \in 1..(L - 1)
      BY <1>1, <2>1
    <3> QED
      BY <1>3, <1>5, <1>7, <1>9, <3>1
  <2>2. CASE j > i /\ j # L
    <3>1. j \in (i + 1)..L /\ j \in (i + 1)..(L - 1) /\ j + 1 \in 1..L /\ j \in 1..(L - 1)
      BY <1>1, <2>2
    <3> QED
      BY <1>3, <1>5, <1>7, <1>9, <3>1
  <2>3. CASE j = L
    <3>1. j \in (i + 1)..L
      BY <1>1, <2>3
    <3> QED
      BY <1>3, <1>7, <1>9, <2>3, <3>1
  <2> QED
    BY <1>1, <2>1, <2>2, <2>3
<1>11. u = v
  BY <1>7, <1>9, <1>10, SameSequence
<1> QED
  BY <1>2, <1>4, <1>6, <1>8, <1>11

\* and of the last one nothing is left.
LEMMA WithoutLast ==
  ASSUME NEW T, NEW s \in Seq(T), NEW x \in T
  PROVE  Without(Append(s, x), Len(s)) = s
<1>1. PICK L \in Nat : L = Len(s)
  OBVIOUS
<1>2. PICK t : t = Append(s, x)
  OBVIOUS
<1>3. t \in Seq(T) /\ Len(t) = L + 1 /\ \A j \in 1..L : t[j] = s[j]
  BY <1>1, <1>2
<1>4. PICK u : u = Without(t, L)
  OBVIOUS
<1>5. u \in Seq(T) /\ Len(u) = L /\ \A j \in 1..L : u[j] = t[j]
  <2>1. L \in 0..(Len(t) - 1) /\ Len(t) - 1 = L
    BY <1>3
  <2> QED
    BY <1>3, <1>4, <2>1, WithoutFacts
<1>6. u = s
  BY <1>1, <1>3, <1>5, SameSequence
<1> QED
  BY <1>1, <1>2, <1>4, <1>6


\* What is left when the first element is taken.
LEMMA TailIsWithout ==
  ASSUME NEW T, NEW s \in Seq(T), s # <<>>
  PROVE  Tail(s) = Without(s, 0)
<1>1. PICK L \in Nat : L = Len(s)
  OBVIOUS
<1>2. L > 0
  BY <1>1
<1>3. PICK t : t = Tail(s)
  OBVIOUS
<1>4. t \in Seq(T) /\ Len(t) = L - 1 /\ \A j \in 1..(L - 1) : t[j] = s[j + 1]
  BY <1>1, <1>2, <1>3
<1>5. PICK u : u = Without(s, 0)
  OBVIOUS
<1>6. u \in Seq(T) /\ Len(u) = L - 1 /\ \A j \in 1..(L - 1) : u[j] = s[j + 1]
  <2>1. 0 \in 0..(Len(s) - 1) /\ 0 + 1 = 1
    BY <1>1, <1>2
  <2> QED
    BY <1>1, <1>5, <2>1, WithoutFacts
<1>7. t = u
  BY <1>4, <1>6, SameSequence
<1> QED
  BY <1>3, <1>5, <1>7
-------------------------------------------------------------------------------
\* The screens that the queue q leads through, beginning with s.
Leads(f, q, s) ==
  /\ f \in [0..Len(q) -> Seq(People)]
  /\ f[0] = s
  /\ \A n \in 1..Len(q) : f[n] = Show(q[n], f[n - 1])

\* The entry e means on the screen s what it meant when it was queued.
Meant(e, s) ==
  /\ e.type # "start"
  /\ e.type = "leave" => e.player < Len(s)
  /\ e.type = "comment" => e.player < Len(s) /\ s[e.player + 1] = e.by
  /\ e.type = "settings" => \E j \in 1..Len(s) : s[j] = Self

Sound(f, q) ==
  /\ \A n \in 0..Len(q) : Len(f[n]) <= MaxPlayers
  /\ \A n \in 1..Len(q) : Meant(q[n], f[n - 1])

\* What an entry carries.
LEMMA EntryFacts ==
  ASSUME NEW e \in Entries
  PROVE  /\ e.type \in {"join", "leave", "comment", "settings", "start"}
         /\ e.type = "join" => e.mii \in People
         /\ e.type = "leave" => e.player \in 0..(MaxPlayers - 1)
         /\ e.type = "comment" => e.player \in 0..(MaxPlayers - 1) /\ e.by \in People
BY DEF Entries, People

\* A screen on which an entry has meaning is followed by a screen.
LEMMA ShowTyped ==
  ASSUME NEW e \in Entries, NEW s \in Seq(People), Meant(e, s)
  PROVE  Show(e, s) \in Seq(People)
<1>1. CASE e.type = "join"
  BY <1>1, EntryFacts DEF Show
<1>2. CASE e.type = "leave"
  <2>1. e.player \in Nat /\ e.player < Len(s) /\ Len(s) \in Nat
    BY <1>2, EntryFacts DEF Meant
  <2>2. e.player \in 0..(Len(s) - 1)
    BY <2>1
  <2> QED
    BY <1>2, <2>2, WithoutFacts DEF Show
<1>3. CASE e.type # "join" /\ e.type # "leave"
  BY <1>3 DEF Show
<1> QED
  BY <1>1, <1>2, <1>3

\* One more entry that can be read on the last screen.
LEMMA OneMore ==
  ASSUME NEW q \in Seq(Entries), NEW s, NEW f, Leads(f, q, s), Sound(f, q),
         NEW e \in Entries, Meant(e, f[Len(q)]), Len(Show(e, f[Len(q)])) <= MaxPlayers
  PROVE  \E g : /\ Leads(g, Append(q, e), s) /\ Sound(g, Append(q, e))
                /\ g[Len(q) + 1] = Show(e, f[Len(q)])
<1>1. PICK L \in Nat : L = Len(q)
  OBVIOUS
<1>2. PICK p : p = Append(q, e)
  OBVIOUS
<1>3. Len(p) = L + 1 /\ p[L + 1] = e /\ \A n \in 1..L : p[n] = q[n]
  BY <1>1, <1>2
<1>4. /\ f \in [0..L -> Seq(People)] /\ f[0] = s
      /\ \A n \in 1..L : f[n] = Show(q[n], f[n - 1])
      /\ \A n \in 0..L : Len(f[n]) <= MaxPlayers
      /\ \A n \in 1..L : Meant(q[n], f[n - 1])
  BY <1>1 DEF Leads, Sound
<1>5. PICK x : x = Show(e, f[L])
  OBVIOUS
<1>6. x \in Seq(People) /\ Len(x) <= MaxPlayers
  BY <1>1, <1>4, <1>5, ShowTyped
<1>7. PICK g : g = [n \in 0..(L + 1) |-> IF n <= L THEN f[n] ELSE x]
  OBVIOUS
<1>8. /\ g \in [0..(L + 1) -> Seq(People)] /\ g[L + 1] = x /\ g[0] = s
      /\ \A n \in 0..L : g[n] = f[n]
  BY <1>4, <1>6, <1>7
<1>9. ASSUME NEW n \in 1..(L + 1)
      PROVE  g[n] = Show(p[n], g[n - 1]) /\ Meant(p[n], g[n - 1]) /\ Len(g[n]) <= MaxPlayers
  <2>1. CASE n = L + 1
    <3>1. n - 1 = L /\ g[n - 1] = f[L]
      BY <1>8, <2>1
    <3> QED
      BY <1>1, <1>3, <1>5, <1>6, <1>8, <2>1, <3>1
  <2>2. CASE n # L + 1
    <3>1. n \in 1..L /\ n - 1 \in 0..L /\ n \in 0..L
      BY <2>2
    <3> QED
      BY <1>3, <1>4, <1>8, <3>1
  <2> QED
    BY <2>1, <2>2
<1>10. Len(g[0]) <= MaxPlayers
  BY <1>4, <1>8
<1>11. \A n \in 0..(L + 1) : n = 0 \/ n \in 1..(L + 1)
  BY <1>1
<1>12. Leads(g, p, s) /\ Sound(g, p)
  BY <1>3, <1>8, <1>9, <1>10, <1>11 DEF Leads, Sound
<1> QED
  BY <1>1, <1>2, <1>5, <1>8, <1>12

\* The first entry is shown.
LEMMA OneLess ==
  ASSUME NEW q \in Seq(Entries), q # <<>>, NEW s, NEW f, Leads(f, q, s), Sound(f, q)
  PROVE  /\ Meant(Head(q), s) /\ s \in Seq(People)
         /\ Show(Head(q), s) \in Seq(People) /\ Len(Show(Head(q), s)) <= MaxPlayers
         /\ \E g : /\ Leads(g, Tail(q), Show(Head(q), s)) /\ Sound(g, Tail(q))
                   /\ g[Len(Tail(q))] = f[Len(q)]
<1>1. PICK L \in Nat : L = Len(q)
  OBVIOUS
<1>2. L > 0
  BY <1>1
<1>3. PICK p : p = Tail(q)
  OBVIOUS
<1>4. Len(p) = L - 1 /\ Head(q) = q[1] /\ \A n \in 1..(L - 1) : p[n] = q[n + 1]
  BY <1>1, <1>2, <1>3
<1>5. /\ f \in [0..L -> Seq(People)] /\ f[0] = s
      /\ \A n \in 1..L : f[n] = Show(q[n], f[n - 1])
      /\ \A n \in 0..L : Len(f[n]) <= MaxPlayers
      /\ \A n \in 1..L : Meant(q[n], f[n - 1])
  BY <1>1 DEF Leads, Sound
<1>6. PICK x : x = Show(Head(q), s)
  OBVIOUS
<1>7. f[1] = x /\ Meant(Head(q), s) /\ s \in Seq(People)
  <2>1. 1 \in 1..L /\ 1 - 1 = 0 /\ 0 \in 0..L
    BY <1>2
  <2>2. f[1] = Show(q[1], f[0]) /\ Meant(q[1], f[0]) /\ f[0] \in Seq(People)
    BY <1>5, <2>1
  <2> QED
    BY <1>4, <1>5, <1>6, <2>2
<1>8. PICK g : g = [n \in 0..(L - 1) |-> f[n + 1]]
  OBVIOUS
<1>9. ASSUME NEW n \in 0..(L - 1)
      PROVE  g[n] = f[n + 1] /\ g[n] \in Seq(People) /\ Len(g[n]) <= MaxPlayers
  <2>1. n + 1 \in 0..L
    BY <1>9
  <2> QED
    BY <1>5, <1>8, <2>1
<1>10. ASSUME NEW n \in 1..(L - 1)
       PROVE  g[n] = Show(p[n], g[n - 1]) /\ Meant(p[n], g[n - 1])
  <2>1. n \in 0..(L - 1) /\ n - 1 \in 0..(L - 1) /\ n + 1 \in 1..L /\ n + 1 - 1 = n /\ n - 1 + 1 = n
    BY <1>10
  <2>2. g[n] = f[n + 1] /\ g[n - 1] = f[n]
    BY <1>9, <2>1
  <2>3. f[n + 1] = Show(q[n + 1], f[n]) /\ Meant(q[n + 1], f[n])
    BY <1>5, <2>1
  <2> QED
    BY <1>4, <2>2, <2>3
<1>11. g \in [0..(L - 1) -> Seq(People)]
  BY <1>8, <1>9
<1>12. 0 \in 0..(L - 1) /\ 0 + 1 = 1 /\ L - 1 \in 0..(L - 1) /\ L - 1 + 1 = L
  BY <1>2
<1>13. g[0] = x /\ g[L - 1] = f[L] /\ x \in Seq(People) /\ Len(x) <= MaxPlayers
  BY <1>7, <1>9, <1>12
<1>14. Leads(g, p, x) /\ Sound(g, p)
  BY <1>4, <1>9, <1>10, <1>11, <1>13 DEF Leads, Sound
<1> QED
  BY <1>1, <1>3, <1>4, <1>6, <1>7, <1>13, <1>14


\* Settings that wait change no screen: without them the queue leads to the same.
LEMMA SettingsRemoved ==
  ASSUME NEW q \in Seq(Entries), NEW s, NEW f, Leads(f, q, s), Sound(f, q),
         NEW n \in 1..Len(q), q[n].type = "settings"
  PROVE  \E g : /\ Leads(g, Without(q, n - 1), s) /\ Sound(g, Without(q, n - 1))
                /\ g[Len(q) - 1] = f[Len(q)]
<1>1. PICK L \in Nat : L = Len(q)
  OBVIOUS
<1>2. L > 0 /\ n \in 1..L /\ n - 1 \in 0..(L - 1) /\ n - 1 + 1 = n
  BY <1>1
<1>3. PICK p : p = Without(q, n - 1)
  OBVIOUS
<1>4. /\ Len(p) = L - 1
      /\ \A k \in 1..(n - 1) : p[k] = q[k]
      /\ \A k \in n..(L - 1) : p[k] = q[k + 1]
  BY <1>1, <1>2, <1>3, WithoutFacts
<1>5. /\ f \in [0..L -> Seq(People)] /\ f[0] = s
      /\ \A k \in 1..L : f[k] = Show(q[k], f[k - 1])
      /\ \A k \in 0..L : Len(f[k]) <= MaxPlayers
      /\ \A k \in 1..L : Meant(q[k], f[k - 1])
  BY <1>1 DEF Leads, Sound
<1>6. f[n] = f[n - 1]
  BY <1>2, <1>5 DEF Show
<1>7. PICK g : g = [k \in 0..(L - 1) |-> IF k < n THEN f[k] ELSE f[k + 1]]
  OBVIOUS
<1>8. ASSUME NEW k \in 0..(L - 1)
      PROVE  g[k] \in Seq(People) /\ Len(g[k]) <= MaxPlayers
  <2>1. k \in 0..L /\ k + 1 \in 0..L
    BY <1>8
  <2> QED
    BY <1>5, <1>7, <2>1
<1>9. ASSUME NEW k \in 1..(L - 1)
      PROVE  g[k] = Show(p[k], g[k - 1]) /\ Meant(p[k], g[k - 1])
  <2>1. k \in 0..(L - 1) /\ k - 1 \in 0..(L - 1) /\ k \in 1..L
    BY <1>9
  <2>2. CASE k < n
    <3>1. k - 1 < n /\ k \in 1..(n - 1)
      BY <2>2
    <3> QED
      BY <1>4, <1>5, <1>7, <2>1, <2>2, <3>1
  <2>3. CASE k >= n
    <3>1. k \in n..(L - 1) /\ k + 1 \in 1..L /\ k + 1 - 1 = k /\ ~(k < n)
      BY <1>9, <2>3
    <3>2. g[k] = f[k + 1] /\ p[k] = q[k + 1]
      BY <1>4, <1>7, <2>1, <3>1
    <3>3. g[k - 1] = f[k]
      <4>1. CASE k = n
        <5>1. k - 1 < n /\ g[k - 1] = f[k - 1]
          BY <1>7, <2>1, <4>1
        <5> QED
          BY <1>6, <4>1, <5>1
      <4>2. CASE k # n
        <5>1. ~(k - 1 < n) /\ k - 1 + 1 = k
          BY <2>3, <4>2, <1>9
        <5> QED
          BY <1>7, <2>1, <5>1
      <4> QED
        BY <4>1, <4>2
    <3>4. f[k + 1] = Show(q[k + 1], f[k]) /\ Meant(q[k + 1], f[k])
      BY <1>5, <3>1
    <3> QED
      BY <3>2, <3>3, <3>4
  <2> QED
    BY <2>2, <2>3, <1>2
<1>10. g \in [0..(L - 1) -> Seq(People)]
  BY <1>7, <1>8
<1>11. g[0] = s
  BY <1>2, <1>5, <1>7
<1>12. g[L - 1] = f[L]
  <2>1. L - 1 \in 0..(L - 1) /\ L - 1 + 1 = L
    BY <1>2
  <2>2. CASE L - 1 < n
    <3>1. n = L
      BY <1>2, <2>2
    <3> QED
      BY <1>6, <1>7, <2>1, <2>2, <3>1
  <2>3. CASE ~(L - 1 < n)
    BY <1>7, <2>1, <2>3
  <2> QED
    BY <2>2, <2>3
<1>13. Leads(g, p, s) /\ Sound(g, p)
  BY <1>4, <1>8, <1>9, <1>10, <1>11 DEF Leads, Sound
<1> QED
  BY <1>1, <1>3, <1>12, <1>13

NoLeaves(q) == \A n \in 1..Len(q) : q[n].type # "leave"

\* While nobody leaves, players stay where they are.
LEMMA Steady ==
  ASSUME NEW q \in Seq(Entries), NEW s, NEW f, Leads(f, q, s), NoLeaves(q),
         NEW n \in 0..Len(q), NEW k \in n..Len(q)
  PROVE  Len(f[n]) <= Len(f[k]) /\ \A j \in 1..Len(f[n]) : f[k][j] = f[n][j]
<1> DEFINE Ok(m) == Len(f[n]) <= Len(f[m]) /\ \A j \in 1..Len(f[n]) : f[m][j] = f[n][j]
           S == {m \in n..Len(q) : ~Ok(m)}
<1>1. SUFFICES ASSUME S # {}
               PROVE  FALSE
  OBVIOUS
<1>2. PICK L \in Nat : L = Len(q)
  OBVIOUS
<1>3. S \in SUBSET Nat
  BY <1>2
<1>4. PICK m \in S : \A i \in S : m <= i
  BY <1>1, <1>3, HasLeast
<1>5. /\ f \in [0..L -> Seq(People)]
      /\ \A i \in 1..L : f[i] = Show(q[i], f[i - 1])
  BY <1>2 DEF Leads
<1>6. m # n
  <2>1. f[n] \in Seq(People)
    BY <1>2, <1>5
  <2>2. Ok(n)
    BY <2>1
  <2> QED
    BY <1>4, <2>2
<1>7. m \in (n + 1)..L /\ n \in 0..L
  BY <1>2, <1>4, <1>6
<1>8. m - 1 \in n..L /\ m - 1 \in 0..L /\ m \in 1..L /\ ~(m <= m - 1)
  BY <1>7
<1>9. Ok(m - 1)
  BY <1>2, <1>4, <1>8
<1>10. PICK x, y, z : x = f[n] /\ y = f[m - 1] /\ z = f[m]
  OBVIOUS
<1>11. x \in Seq(People) /\ y \in Seq(People)
  BY <1>5, <1>7, <1>8, <1>10
<1>12. z = Show(q[m], y) /\ q[m] \in Entries /\ q[m].type # "leave"
  BY <1>2, <1>5, <1>8, <1>10 DEF NoLeaves
<1>13. CASE q[m].type = "join"
  <2>1. PICK w \in People : w = q[m].mii
    BY <1>12, <1>13, EntryFacts
  <2>2. z = Append(y, w)
    BY <1>12, <1>13, <2>1 DEF Show
  <2>3. Len(x) <= Len(y) /\ \A j \in 1..Len(x) : y[j] = x[j]
    BY <1>9, <1>10
  <2>4. Len(x) <= Len(z) /\ \A j \in 1..Len(x) : z[j] = x[j]
    BY <1>11, <2>1, <2>2, <2>3
  <2> QED
    BY <1>4, <1>10, <2>4
<1>14. CASE q[m].type # "join"
  <2>1. z = y
    BY <1>12, <1>14 DEF Show
  <2> QED
    BY <1>4, <1>9, <1>10, <2>1
<1> QED
  BY <1>13, <1>14


NoComments(q) == \A n \in 1..Len(q) : q[n].type # "comment"

\* A player whose Join still waits leaves: without this entry the queue leads to the
\* room without the player.
LEMMA JoinCancelled ==
  ASSUME NEW q \in Seq(Entries), NEW s, NEW f, Leads(f, q, s), Sound(f, q),
         NoLeaves(q), NoComments(q), NEW n \in 1..Len(q), q[n].type = "join",
         NEW i, i = Len(f[n - 1]), f[Len(q)][i + 1] # Self
  PROVE  \E g : /\ Leads(g, Without(q, n - 1), s) /\ Sound(g, Without(q, n - 1))
                /\ g[Len(q) - 1] = Without(f[Len(q)], i)
<1>1. PICK L \in Nat : L = Len(q)
  OBVIOUS
<1>2. L > 0 /\ n \in 1..L /\ n - 1 \in 0..(L - 1) /\ n - 1 + 1 = n /\ n - 1 \in 0..L /\ n \in 0..L
  BY <1>1
<1>3. PICK p : p = Without(q, n - 1)
  OBVIOUS
<1>4. /\ Len(p) = L - 1
      /\ \A k \in 1..(n - 1) : p[k] = q[k]
      /\ \A k \in n..(L - 1) : p[k] = q[k + 1]
  BY <1>1, <1>2, <1>3, WithoutFacts
<1>5. /\ f \in [0..L -> Seq(People)] /\ f[0] = s
      /\ \A k \in 1..L : f[k] = Show(q[k], f[k - 1])
      /\ \A k \in 0..L : Len(f[k]) <= MaxPlayers
      /\ \A k \in 1..L : Meant(q[k], f[k - 1])
      /\ \A k \in 1..L : q[k] \in Entries /\ q[k].type # "leave" /\ q[k].type # "comment"
  BY <1>1 DEF Leads, Sound, NoLeaves, NoComments
<1>6. PICK x \in Seq(People) : x = f[n - 1]
  BY <1>2, <1>5
<1>7. i \in Nat /\ i = Len(x)
  BY <1>6
<1>8. PICK w \in People : w = q[n].mii
  BY <1>2, <1>5, EntryFacts
<1>9. f[n] = Append(x, w)
  BY <1>2, <1>5, <1>6, <1>8 DEF Show
<1>10. Without(f[n], i) = x
  BY <1>7, <1>9, WithoutLast
<1>11. Len(f[n]) = i + 1 /\ i + 1 \in 1..Len(f[n])
  BY <1>7, <1>9
<1>12. ASSUME NEW k \in n..L
       PROVE  /\ f[k] \in Seq(People) /\ i \in 0..(Len(f[k]) - 1) /\ f[k][i + 1] # Self
              /\ Len(f[k]) <= MaxPlayers
  <2>1. k \in 0..L /\ L \in n..L
    BY <1>2, <1>12
  <2>2. PICK y \in Seq(People) : y = f[k]
    BY <1>5, <2>1
  <2>3. i + 1 <= Len(y) /\ y[i + 1] = f[n][i + 1] /\ f[L][i + 1] = f[n][i + 1]
    <3>1. n \in 0..Len(q) /\ k \in n..Len(q) /\ L \in n..Len(q)
      BY <1>1, <1>2, <1>12, <2>1
    <3>2. /\ Len(f[n]) <= Len(f[k]) /\ \A j \in 1..Len(f[n]) : f[k][j] = f[n][j]
          /\ \A j \in 1..Len(f[n]) : f[L][j] = f[n][j]
      <4>1. ASSUME NEW m \in n..Len(q)
            PROVE  Len(f[n]) <= Len(f[m]) /\ \A j \in 1..Len(f[n]) : f[m][j] = f[n][j]
        BY <3>1, Steady
      <4> QED
        BY <3>1, <4>1
    <3> QED
      BY <1>11, <2>2, <3>2
  <2>4. i \in 0..(Len(y) - 1)
    BY <1>7, <2>2, <2>3
  <2> QED
    BY <1>1, <1>5, <2>1, <2>2, <2>3, <2>4
<1>13. PICK g : g = [k \in 0..(L - 1) |-> IF k < n THEN f[k] ELSE Without(f[k + 1], i)]
  OBVIOUS
<1>14. ASSUME NEW k \in 0..(L - 1), k < n
       PROVE  g[k] = f[k] /\ g[k] \in Seq(People) /\ Len(g[k]) <= MaxPlayers
  <2>1. k \in 0..L
    BY <1>14
  <2> QED
    BY <1>5, <1>13, <1>14, <2>1
<1>15. ASSUME NEW k \in (n - 1)..(L - 1)
       PROVE  g[k] = Without(f[k + 1], i) /\ g[k] \in Seq(People) /\ Len(g[k]) <= MaxPlayers
  <2>1. k \in 0..(L - 1) /\ k + 1 \in n..L
    BY <1>2, <1>15
  <2>2. g[k] = Without(f[k + 1], i)
    <3>1. CASE k < n
      <4>1. k = n - 1 /\ k + 1 = n
        BY <1>2, <1>15, <3>1
      <4> QED
        BY <1>6, <1>10, <1>14, <2>1, <3>1, <4>1
    <3>2. CASE ~(k < n)
      BY <1>13, <2>1, <3>2
    <3> QED
      BY <3>1, <3>2
  <2>3. PICK y \in Seq(People) : y = f[k + 1] /\ i \in 0..(Len(y) - 1) /\ Len(y) <= MaxPlayers
    BY <1>12, <2>1
  <2>4. Without(y, i) \in Seq(People) /\ Len(Without(y, i)) = Len(y) - 1
    BY <2>3, WithoutFacts
  <2>5. Len(y) - 1 <= MaxPlayers
    BY <2>3, PageAssumption
  <2> QED
    BY <2>2, <2>3, <2>4, <2>5
<1>16. ASSUME NEW k \in 1..(L - 1)
       PROVE  g[k] = Show(p[k], g[k - 1]) /\ Meant(p[k], g[k - 1])
  <2>1. k \in 0..(L - 1) /\ k - 1 \in 0..(L - 1) /\ k \in 1..L
    BY <1>16
  <2>2. CASE k < n
    <3>1. k - 1 < n /\ k \in 1..(n - 1)
      BY <2>2
    <3>2. g[k] = f[k] /\ g[k - 1] = f[k - 1] /\ p[k] = q[k]
      BY <1>4, <1>14, <2>1, <2>2, <3>1
    <3> QED
      BY <1>5, <2>1, <3>2
  <2>3. CASE k >= n
    <3>1. /\ k \in n..(L - 1) /\ k + 1 \in 1..L /\ k + 1 - 1 = k /\ k \in (n - 1)..(L - 1)
          /\ k - 1 \in (n - 1)..(L - 1) /\ k - 1 + 1 = k /\ k \in n..L
      BY <1>2, <1>16, <2>3
    <3>2. g[k] = Without(f[k + 1], i) /\ g[k - 1] = Without(f[k], i) /\ p[k] = q[k + 1]
      BY <1>4, <1>15, <3>1
    <3>3. PICK y \in Seq(People) : y = f[k] /\ i \in 0..(Len(y) - 1) /\ y[i + 1] # Self
      BY <1>12, <3>1
    <3>4. PICK e \in Entries : e = q[k + 1]
      BY <1>5, <3>1
    <3>5. f[k + 1] = Show(e, y) /\ Meant(e, y) /\ e.type # "leave" /\ e.type # "comment"
      BY <1>5, <3>1, <3>3, <3>4
    <3>6. PICK v : v = Without(y, i)
      OBVIOUS
    <3>7. /\ v \in Seq(People) /\ Len(v) = Len(y) - 1
          /\ \A j \in 1..i : v[j] = y[j]
          /\ \A j \in (i + 1)..(Len(y) - 1) : v[j] = y[j + 1]
      BY <3>3, <3>6, WithoutFacts
    <3>8. Without(Show(e, y), i) = Show(e, v)
      <4>1. CASE e.type = "join"
        <5>1. PICK u \in People : u = e.mii
          BY <4>1, EntryFacts
        <5>2. Without(Append(y, u), i) = Append(v, u)
          BY <3>3, <3>6, WithoutAppend
        <5> QED
          BY <4>1, <5>1, <5>2 DEF Show
      <4>2. CASE e.type # "join"
        BY <3>5, <3>6, <4>2 DEF Show
      <4> QED
        BY <4>1, <4>2
    <3>9. Meant(e, v)
      <4>1. ASSUME NEW j \in 1..Len(y), y[j] = Self
            PROVE  \E m \in 1..Len(v) : v[m] = Self
        <5>1. j # i + 1
          BY <3>3, <4>1
        <5>2. CASE j <= i
          <6>1. j \in 1..i /\ j \in 1..Len(v)
            BY <3>3, <3>7, <5>2
          <6> QED
            BY <3>7, <4>1, <6>1
        <5>3. CASE ~(j <= i)
          <6>1. j - 1 \in (i + 1)..(Len(y) - 1) /\ j - 1 \in 1..Len(v) /\ j - 1 + 1 = j
            BY <1>7, <3>3, <3>7, <5>1, <5>3
          <6> QED
            BY <3>7, <4>1, <6>1
        <5> QED
          BY <5>2, <5>3
      <4> QED
        BY <3>5, <4>1 DEF Meant
    <3> QED
      BY <3>2, <3>3, <3>4, <3>5, <3>6, <3>8, <3>9
  <2> QED
    BY <1>2, <2>2, <2>3
<1>17. g \in [0..(L - 1) -> Seq(People)] /\ \A k \in 0..(L - 1) : Len(g[k]) <= MaxPlayers
  <2>1. \A k \in 0..(L - 1) : k < n \/ k \in (n - 1)..(L - 1)
    BY <1>2
  <2>2. \A k \in 0..(L - 1) : g[k] \in Seq(People) /\ Len(g[k]) <= MaxPlayers
    BY <1>14, <1>15, <2>1
  <2> QED
    BY <1>13, <2>2
<1>18. g[0] = s
  <2>1. 0 \in 0..(L - 1) /\ 0 < n
    BY <1>2
  <2> QED
    BY <1>5, <1>14, <2>1
<1>19. g[L - 1] = Without(f[L], i)
  <2>1. L - 1 \in (n - 1)..(L - 1) /\ L - 1 + 1 = L
    BY <1>2
  <2> QED
    BY <1>15, <2>1
<1>20. Leads(g, p, s) /\ Sound(g, p)
  BY <1>4, <1>16, <1>17, <1>18 DEF Leads, Sound
<1> QED
  BY <1>1, <1>3, <1>19, <1>20

-------------------------------------------------------------------------------
Before(type, n) == {k \in Positions(type) : k < n}

\* Entries can be counted.
LEMMA BeforeFinite ==
  ASSUME queue \in Seq(Entries), NEW type, NEW n \in Nat
  PROVE  /\ IsFiniteSet(Before(type, n)) /\ Cardinality(Before(type, n)) \in Nat
         /\ IsFiniteSet(Positions(type)) /\ Cardinality(Positions(type)) \in Nat
<1>1. IsFiniteSet(1..Len(queue))
  BY FS_Interval
<1>2. Before(type, n) \subseteq 1..Len(queue) /\ Positions(type) \subseteq 1..Len(queue)
  BY DEF Before, Positions
<1>3. IsFiniteSet(Before(type, n)) /\ IsFiniteSet(Positions(type))
  BY <1>1, <1>2, FS_Subset
<1> QED
  BY <1>3, FS_CardinalityType

\* The entry at n counts from the next place on.
LEMMA CountsOn ==
  ASSUME queue \in Seq(Entries), NEW type, NEW n \in 1..Len(queue)
  PROVE  Cardinality(Before(type, n + 1)) =
           Cardinality(Before(type, n)) + (IF queue[n].type = type THEN 1 ELSE 0)
<1>1. n \in Nat /\ n \notin Before(type, n)
  BY DEF Before
<1>2. IsFiniteSet(Before(type, n)) /\ Cardinality(Before(type, n)) \in Nat
  BY <1>1, BeforeFinite
<1>3. ASSUME NEW k \in 1..Len(queue)
      PROVE  k < n + 1 <=> k < n \/ k = n
  BY <1>1
<1>4. CASE queue[n].type = type
  <2>1. Before(type, n + 1) = Before(type, n) \cup {n}
    BY <1>3, <1>4 DEF Before, Positions
  <2> QED
    BY <1>1, <1>2, <1>4, <2>1, FS_AddElement
<1>5. CASE queue[n].type # type
  <2>1. Before(type, n + 1) = Before(type, n)
    BY <1>3, <1>5 DEF Before, Positions
  <2> QED
    BY <1>2, <1>5, <2>1
<1> QED
  BY <1>4, <1>5

\* What onPlayerLeave counts is the number of players then on screen.
LEMMA PlayersCounted ==
  ASSUME queue \in Seq(Entries), NEW f, Leads(f, queue, shown), Sound(f, queue)
  PROVE  \A n \in 1..(Len(queue) + 1) : PlayersBefore(n) = Len(f[n - 1])
<1> DEFINE S == {n \in 1..(Len(queue) + 1) : PlayersBefore(n) # Len(f[n - 1])}
<1>1. SUFFICES ASSUME S # {}
               PROVE  FALSE
  OBVIOUS
<1>2. PICK L \in Nat : L = Len(queue)
  OBVIOUS
<1>3. S \in SUBSET Nat
  BY <1>2
<1>4. PICK n \in S : \A m \in S : n <= m
  BY <1>1, <1>3, HasLeast
<1>5. /\ f \in [0..L -> Seq(People)] /\ f[0] = shown
      /\ \A k \in 1..L : f[k] = Show(queue[k], f[k - 1])
      /\ \A k \in 1..L : Meant(queue[k], f[k - 1])
  BY <1>2 DEF Leads, Sound
<1>6. CASE n = 1
  <2>1. Before("join", n) = {} /\ Before("leave", n) = {}
    BY <1>2, <1>6 DEF Before, Positions
  <2>2. f[0] \in Seq(People)
    BY <1>5
  <2>3. PlayersBefore(n) = Len(shown) + Cardinality({}) - Cardinality({})
    BY <2>1 DEF PlayersBefore, Before
  <2>4. Cardinality({}) = 0
    BY FS_EmptySet
  <2>5. n - 1 = 0
    BY <1>6
  <2> QED
    BY <1>4, <1>5, <2>2, <2>3, <2>4, <2>5
<1>7. CASE n # 1
  <2>1. PICK m : m = n - 1
    OBVIOUS
  <2>2. /\ m \in 1..L /\ m + 1 = n /\ m \in 1..(L + 1) /\ ~(n <= m) /\ m \in Nat /\ n \in Nat
        /\ m - 1 \in 0..L
    BY <1>2, <1>4, <1>7, <2>1
  <2>3. PlayersBefore(m) = Len(f[m - 1])
    BY <1>2, <1>4, <2>2
  <2>4. PICK a \in Nat, b \in Nat : a = Cardinality(Before("join", m)) /\ b = Cardinality(Before("leave", m))
    BY <2>2, BeforeFinite
  <2>5. PICK e \in Entries : e = queue[m]
    BY <1>2, <2>2
  <2>6. /\ Cardinality(Before("join", n)) = a + (IF e.type = "join" THEN 1 ELSE 0)
        /\ Cardinality(Before("leave", n)) = b + (IF e.type = "leave" THEN 1 ELSE 0)
    BY <1>2, <2>2, <2>4, <2>5, CountsOn
  <2>7. PICK y \in Seq(People) : y = f[m - 1]
    BY <1>5, <2>2
  <2>8. PICK z \in Nat : z = Len(shown)
    BY <1>5
  <2>9. Len(y) = z + a - b
    BY <2>3, <2>4, <2>7, <2>8 DEF PlayersBefore, Before
  <2>10. PlayersBefore(n) = z + (a + (IF e.type = "join" THEN 1 ELSE 0))
                              - (b + (IF e.type = "leave" THEN 1 ELSE 0))
    BY <2>6, <2>8 DEF PlayersBefore, Before
  <2>11. f[m] = Show(e, y) /\ Meant(e, y)
    BY <1>5, <2>2, <2>5, <2>7
  <2>12. Len(Show(e, y)) = Len(y) + (IF e.type = "join" THEN 1 ELSE 0)
                                  - (IF e.type = "leave" THEN 1 ELSE 0)
    <3>1. CASE e.type = "join"
      <4>1. PICK u \in People : u = e.mii
        BY <3>1, EntryFacts
      <4> QED
        BY <3>1, <4>1 DEF Show
    <3>2. CASE e.type = "leave"
      <4>1. e.player \in 0..(Len(y) - 1)
        <5>1. e.player \in Nat /\ e.player < Len(y) /\ Len(y) \in Nat
          BY <2>11, <3>2, EntryFacts DEF Meant
        <5> QED
          BY <5>1
      <4>2. Len(Without(y, e.player)) = Len(y) - 1
        BY <4>1, WithoutFacts
      <4> QED
        BY <3>2, <4>2 DEF Show
    <3>3. CASE e.type # "join" /\ e.type # "leave"
      BY <3>3 DEF Show
    <3> QED
      BY <3>1, <3>2, <3>3
  <2>13. PlayersBefore(n) = Len(f[m])
    BY <2>9, <2>10, <2>11, <2>12
  <2> QED
    BY <1>4, <2>1, <2>13
<1> QED
  BY <1>6, <1>7


\* What the properties call the screen after n entries.
LEMMA ShownIsScreen ==
  ASSUME queue \in Seq(Entries), NEW f, Leads(f, queue, shown), NEW n \in 0..Len(queue)
  PROVE  ShownAfter(n) = f[n]
<1> DEFINE K[k \in 0..Len(queue)] == IF k = 0 THEN shown ELSE Show(queue[k], K[k - 1])
<1>1. PICK L \in Nat : L = Len(queue)
  OBVIOUS
<1>2. ShownAfter(n) = K[n]
  BY DEF ShownAfter
<1>3. f = [k \in 0..L |-> IF k = 0 THEN shown ELSE Show(queue[k], f[k - 1])]
  <2>1. \A k \in 0..L : k = 0 \/ k \in 1..L
    BY <1>1
  <2> QED
    BY <1>1, <2>1 DEF Leads
<1>4. K = [k \in 0..L |-> IF k = 0 THEN shown ELSE Show(queue[k], K[k - 1])]
  BY <1>1, <1>3 DEF K
<1>5. K[0] = shown /\ \A k \in 1..L : K[k] = Show(queue[k], K[k - 1])
  <2>1. 0 \in 0..L /\ \A k \in 1..L : k \in 0..L /\ k # 0
    BY <1>1
  <2> HIDE DEF K
  <2> QED
    BY <1>4, <2>1
<1>6. f[0] = shown /\ \A k \in 1..L : f[k] = Show(queue[k], f[k - 1])
  BY <1>1 DEF Leads
<1>7. \A k \in 0..L : K[k] = f[k]
  <2> HIDE DEF K
  <2> DEFINE S == {k \in 0..L : K[k] # f[k]}
  <2>1. SUFFICES ASSUME S # {}
                 PROVE  FALSE
    OBVIOUS
  <2>2. S \in SUBSET Nat
    BY <1>1
  <2>3. PICK k \in S : \A m \in S : k <= m
    BY <2>1, <2>2, HasLeast
  <2>4. k # 0
    BY <1>5, <1>6, <2>3
  <2>5. k \in 1..L /\ k - 1 \in 0..L /\ ~(k <= k - 1)
    BY <2>3, <2>4
  <2>6. K[k - 1] = f[k - 1]
    BY <2>3, <2>5
  <2> QED
    BY <1>5, <1>6, <2>3, <2>5, <2>6
<1> QED
  BY <1>1, <1>2, <1>7

\* With no departure queued the id is that of the Join.
LEMMA IdIsJoinId ==
  ASSUME queue \in Seq(Entries), NoLeaves(queue), NEW i
  PROVE  JoinPlayerId(i) = i
<1> DEFINE K[k \in 0..Len(queue)] ==
             IF k = 0 THEN i ELSE CountAgain(queue[Len(queue) + 1 - k], K[k - 1])
<1>1. PICK L \in Nat : L = Len(queue)
  OBVIOUS
<1>2. JoinPlayerId(i) = K[L]
  BY <1>1 DEF JoinPlayerId
<1>3. ASSUME NEW k \in 1..L, NEW x
      PROVE  CountAgain(queue[L + 1 - k], x) = x
  <2>1. L + 1 - k \in 1..L
    BY <1>3
  <2> QED
    BY <1>1, <2>1 DEF CountAgain, NoLeaves
<1>4. PICK h : h = [k \in 0..L |-> i]
  OBVIOUS
<1>5. h = [k \in 0..L |-> IF k = 0 THEN i ELSE CountAgain(queue[L + 1 - k], h[k - 1])]
  <2>1. ASSUME NEW k \in 0..L
        PROVE  i = IF k = 0 THEN i ELSE CountAgain(queue[L + 1 - k], h[k - 1])
    <3>1. CASE k # 0
      <4>1. k \in 1..L /\ k - 1 \in 0..L
        BY <3>1
      <4> QED
        BY <1>3, <1>4, <4>1
    <3> QED
      BY <3>1
  <2> QED
    BY <1>4, <2>1
<1>6. K = [k \in 0..L |-> IF k = 0 THEN i ELSE CountAgain(queue[L + 1 - k], K[k - 1])]
  BY <1>1, <1>5 DEF K
<1>7. \A k \in 0..L : K[k] = i
  <2> HIDE DEF K
  <2> DEFINE S == {k \in 0..L : K[k] # i}
  <2>1. SUFFICES ASSUME S # {}
                 PROVE  FALSE
    OBVIOUS
  <2>2. S \in SUBSET Nat
    BY <1>1
  <2>3. PICK k \in S : \A m \in S : k <= m
    BY <2>1, <2>2, HasLeast
  <2>4. k # 0
    <3>1. 0 \in 0..L
      BY <1>1
    <3> QED
      BY <1>6, <2>3, <3>1
  <2>5. k \in 1..L /\ k - 1 \in 0..L /\ ~(k <= k - 1)
    BY <2>3, <2>4
  <2>6. K[k - 1] = i
    BY <2>3, <2>5
  <2>7. K[k] = CountAgain(queue[L + 1 - k], K[k - 1])
    BY <1>6, <2>4, <2>5
  <2> QED
    BY <1>3, <2>3, <2>5, <2>6, <2>7
<1> QED
  BY <1>1, <1>2, <1>7


\* A player who is on no screen yet has a Join in the queue.
LEMMA JoinIsQueued ==
  ASSUME NEW q \in Seq(Entries), NEW s, NEW f, Leads(f, q, s), Sound(f, q),
         NEW i \in Nat, Len(s) <= i, i < Len(f[Len(q)])
  PROVE  \E n \in 1..Len(q) : q[n].type = "join" /\ Len(f[n - 1]) = i
<1>1. PICK L \in Nat : L = Len(q)
  OBVIOUS
<1> DEFINE S == {n \in 0..L : i < Len(f[n])}
<1>2. S # {} /\ S \in SUBSET Nat
  BY <1>1
<1>3. PICK n \in S : \A m \in S : n <= m
  BY <1>2, HasLeast
<1>4. /\ f \in [0..L -> Seq(People)] /\ f[0] = s
      /\ \A k \in 1..L : f[k] = Show(q[k], f[k - 1])
      /\ \A k \in 1..L : Meant(q[k], f[k - 1])
  BY <1>1 DEF Leads, Sound
<1>5. n # 0
  <2>1. Len(s) \in Nat /\ ~(i < Len(s))
    BY <1>4
  <2> QED
    BY <1>3, <1>4, <2>1
<1>6. n \in 1..L /\ n - 1 \in 0..L /\ ~(n <= n - 1)
  BY <1>3, <1>5
<1>7. PICK y \in Seq(People) : y = f[n - 1]
  BY <1>4, <1>6
<1>8. ~(i < Len(y))
  BY <1>3, <1>6, <1>7
<1>9. PICK e \in Entries : e = q[n]
  BY <1>1, <1>6
<1>10. f[n] = Show(e, y) /\ Meant(e, y)
  BY <1>4, <1>6, <1>7, <1>9
<1>11. i < Len(Show(e, y))
  BY <1>3, <1>10
<1>12. CASE e.type = "join"
  <2>1. PICK u \in People : u = e.mii
    BY <1>12, EntryFacts
  <2>2. i < Len(Append(y, u))
    BY <1>11, <1>12, <2>1 DEF Show
  <2>3. Len(y) = i
    BY <1>8, <2>1, <2>2
  <2> QED
    BY <1>1, <1>6, <1>7, <1>9, <1>12, <2>3
<1>13. CASE e.type = "leave"
  <2>1. e.player \in 0..(Len(y) - 1)
    <3>1. e.player \in Nat /\ e.player < Len(y) /\ Len(y) \in Nat
      BY <1>10, <1>13, EntryFacts DEF Meant
    <3> QED
      BY <3>1
  <2>2. Len(Show(e, y)) = Len(y) - 1
    BY <1>13, <2>1, WithoutFacts DEF Show
  <2> QED
    BY <1>7, <1>8, <1>11, <2>2
<1>14. CASE e.type # "join" /\ e.type # "leave"
  BY <1>8, <1>11, <1>14 DEF Show
<1> QED
  BY <1>12, <1>13, <1>14
-------------------------------------------------------------------------------
(***************************************************************************)
(* How many entries of each kind wait.                                     *)
(***************************************************************************)
Of(q, type) == {n \in 1..Len(q) : q[n].type = type}

\* No two of one kind.
Single(q, type) == \A m, n \in 1..Len(q) : q[m].type = type /\ q[n].type = type => m = n

\* Entries of a kind can be counted.
LEMMA OfFinite ==
  ASSUME NEW q \in Seq(Entries), NEW type
  PROVE  IsFiniteSet(Of(q, type)) /\ Cardinality(Of(q, type)) \in Nat
<1>1. IsFiniteSet(1..Len(q)) /\ Of(q, type) \subseteq 1..Len(q)
  BY FS_Interval DEF Of
<1> QED
  BY <1>1, FS_Subset, FS_CardinalityType

\* No two of a kind is one at most.
LEMMA AtMostOne ==
  ASSUME NEW q \in Seq(Entries), NEW type, Single(q, type)
  PROVE  Cardinality(Of(q, type)) <= 1
<1>1. CASE Of(q, type) = {}
  BY <1>1, FS_EmptySet
<1>2. CASE Of(q, type) # {}
  <2>1. PICK n : n \in Of(q, type)
    BY <1>2
  <2>2. Of(q, type) = {n}
    BY <2>1 DEF Of, Single
  <2>3. Cardinality({n}) = 1
    BY FS_Singleton
  <2> QED
    BY <2>2, <2>3
<1> QED
  BY <1>1, <1>2

\* What one more entry adds to each kind.
LEMMA OfMore ==
  ASSUME NEW q \in Seq(Entries), NEW e \in Entries, NEW type
  PROVE  /\ Of(Append(q, e), type) = Of(q, type) \cup (IF e.type = type THEN {Len(q) + 1} ELSE {})
         /\ Cardinality(Of(Append(q, e), type)) =
              Cardinality(Of(q, type)) + (IF e.type = type THEN 1 ELSE 0)
         /\ e.type # type \/ Of(q, type) = {} => (Single(q, type) => Single(Append(q, e), type))
<1>1. PICK L \in Nat : L = Len(q)
  OBVIOUS
<1>2. PICK p : p = Append(q, e)
  OBVIOUS
<1>3. Len(p) = L + 1 /\ p[L + 1] = e /\ \A n \in 1..L : p[n] = q[n]
  BY <1>1, <1>2
<1>4. \A n : n \in 1..(L + 1) <=> n \in 1..L \/ n = L + 1
  BY <1>1
<1>5. Of(p, type) = Of(q, type) \cup (IF e.type = type THEN {L + 1} ELSE {})
  BY <1>1, <1>3, <1>4 DEF Of
<1>6. L + 1 \notin Of(q, type)
  BY <1>1 DEF Of
<1>7. Cardinality(Of(p, type)) = Cardinality(Of(q, type)) + (IF e.type = type THEN 1 ELSE 0)
  <2>1. CASE e.type = type
    BY <1>5, <1>6, <2>1, OfFinite, FS_AddElement
  <2>2. CASE e.type # type
    <3>1. Of(p, type) = Of(q, type)
      BY <1>5, <2>2
    <3> QED
      BY <2>2, <3>1, OfFinite
  <2> QED
    BY <2>1, <2>2
<1>8. e.type # type \/ Of(q, type) = {} => (Single(q, type) => Single(p, type))
  BY <1>1, <1>3, <1>4 DEF Single, Of
<1> QED
  BY <1>1, <1>2, <1>5, <1>7, <1>8

\* Removing an entry adds to no kind, and leaves none of a kind of which there was one.
LEMMA OfLess ==
  ASSUME NEW q \in Seq(Entries), NEW n \in 1..Len(q), NEW type
  PROVE  /\ Cardinality(Of(Without(q, n - 1), type)) <= Cardinality(Of(q, type))
         /\ Single(q, type) => Single(Without(q, n - 1), type)
         /\ Single(q, type) /\ q[n].type = type => Of(Without(q, n - 1), type) = {}
         /\ Of(q, type) = {} => Of(Without(q, n - 1), type) = {}
<1>1. PICK L \in Nat : L = Len(q)
  OBVIOUS
<1>2. L > 0 /\ n \in 1..L /\ n - 1 \in 0..(L - 1) /\ n - 1 + 1 = n
  BY <1>1
<1>3. PICK p : p = Without(q, n - 1)
  OBVIOUS
<1>4. /\ p \in Seq(Entries) /\ Len(p) = L - 1
      /\ \A k \in 1..(n - 1) : p[k] = q[k]
      /\ \A k \in n..(L - 1) : p[k] = q[k + 1]
  BY <1>1, <1>2, <1>3, WithoutFacts
<1>5. PICK g : g = [k \in 1..(L - 1) |-> IF k < n THEN k ELSE k + 1]
  OBVIOUS
<1>6. \A k \in 1..(L - 1) : g[k] \in 1..L /\ g[k] # n /\ p[k] = q[g[k]]
  <2>1. ASSUME NEW k \in 1..(L - 1)
        PROVE  g[k] \in 1..L /\ g[k] # n /\ p[k] = q[g[k]]
    <3>1. CASE k < n
      <4>1. k \in 1..(n - 1) /\ g[k] = k /\ k \in 1..L
        BY <1>2, <1>5, <3>1
      <4> QED
        BY <1>4, <3>1, <4>1
    <3>2. CASE ~(k < n)
      <4>1. k \in n..(L - 1) /\ g[k] = k + 1 /\ k + 1 \in 1..L /\ k + 1 # n
        BY <1>2, <1>5, <3>2
      <4> QED
        BY <1>4, <4>1
    <3> QED
      BY <3>1, <3>2
  <2> QED
    BY <2>1
<1>7. \A j, k \in 1..(L - 1) : g[j] = g[k] => j = k
  BY <1>2, <1>5
<1>8. \A k \in Of(p, type) : g[k] \in Of(q, type) /\ g[k] # n /\ k \in 1..(L - 1)
  BY <1>1, <1>4, <1>6 DEF Of
<1>9. PICK h : h = [k \in Of(p, type) |-> g[k]]
  OBVIOUS
<1>10. h \in Injection(Of(p, type), Of(q, type))
  BY <1>7, <1>8, <1>9 DEF Injection, IsInjective
<1>11. Cardinality(Of(p, type)) <= Cardinality(Of(q, type))
  BY <1>10, OfFinite, FS_Injection
<1>12. Single(q, type) => Single(p, type)
  <2>1. Single(q, type) <=> \A j, k \in Of(q, type) : j = k
    BY DEF Single, Of
  <2>2. Single(p, type) <=> \A j, k \in Of(p, type) : j = k
    BY DEF Single, Of
  <2> QED
    BY <1>7, <1>8, <2>1, <2>2
<1>13. Single(q, type) /\ q[n].type = type => Of(p, type) = {}
  <2>1. SUFFICES ASSUME Single(q, type), q[n].type = type, NEW k \in Of(p, type)
                 PROVE  FALSE
    OBVIOUS
  <2>2. g[k] \in Of(q, type) /\ g[k] # n
    BY <1>8
  <2> QED
    BY <1>1, <1>2, <2>1, <2>2 DEF Of, Single
<1>14. Of(q, type) = {} => Of(p, type) = {}
  BY <1>8
<1> QED
  BY <1>3, <1>11, <1>12, <1>13, <1>14

-------------------------------------------------------------------------------
(***************************************************************************)
(* A room in its lobby: the queue q leads from the screen s to the roster  *)
(* r, and holds one departure and one change of settings at most.          *)
(***************************************************************************)
Lobby(q, s, r) ==
  /\ \E f : Leads(f, q, s) /\ Sound(f, q) /\ f[Len(q)] = r
  /\ Single(q, "leave") /\ Single(q, "settings")
  /\ Of(q, "leave") # {} => s # <<>>
  /\ Cardinality(Of(q, "comment")) <= MaxComments

\* Screen and roster are sequences of players, no more than there are places.
LEMMA LobbyTyped ==
  ASSUME NEW q \in Seq(Entries), NEW s, NEW r, Lobby(q, s, r)
  PROVE  s \in Seq(People) /\ r \in Seq(People) /\ Len(r) <= MaxPlayers
<1>1. PICK f : Leads(f, q, s) /\ Sound(f, q) /\ f[Len(q)] = r
  BY DEF Lobby
<1>2. 0 \in 0..Len(q) /\ Len(q) \in 0..Len(q)
  OBVIOUS
<1> QED
  BY <1>1, <1>2 DEF Leads, Sound

\* The lobby goes on with one more entry,
LEMMA LobbyMore ==
  ASSUME NEW q \in Seq(Entries), NEW s, NEW r, Lobby(q, s, r), NEW e \in Entries,
         Meant(e, r), Len(Show(e, r)) <= MaxPlayers,
         e.type = "leave" => Of(q, "leave") = {} /\ s # <<>>,
         e.type = "settings" => Of(q, "settings") = {},
         e.type = "comment" => Cardinality(Of(q, "comment")) < MaxComments
  PROVE  Lobby(Append(q, e), s, Show(e, r))
<1>1. PICK f : Leads(f, q, s) /\ Sound(f, q) /\ f[Len(q)] = r
  BY DEF Lobby
<1>2. PICK p : p = Append(q, e)
  OBVIOUS
<1>3. Len(p) = Len(q) + 1
  BY <1>2
<1>4. PICK g : Leads(g, p, s) /\ Sound(g, p) /\ g[Len(p)] = Show(e, r)
  BY <1>1, <1>2, <1>3, OneMore
<1>5. Single(p, "leave") /\ Single(p, "settings")
  BY <1>2, OfMore DEF Lobby
<1>6. Of(p, "leave") # {} => s # <<>>
  <2>1. CASE e.type = "leave"
    BY <2>1
  <2>2. CASE e.type # "leave"
    <3>1. Of(p, "leave") = Of(q, "leave") \cup (IF e.type = "leave" THEN {Len(q) + 1} ELSE {})
      BY <1>2, OfMore
    <3>2. Of(p, "leave") = Of(q, "leave")
      BY <2>2, <3>1
    <3> QED
      BY <3>2 DEF Lobby
  <2> QED
    BY <2>1, <2>2
<1>7. Cardinality(Of(p, "comment")) <= MaxComments
  BY <1>2, OfMore, OfFinite, PageAssumption DEF Lobby
<1> QED
  BY <1>2, <1>4, <1>5, <1>6, <1>7 DEF Lobby

\* with the first entry shown,
LEMMA LobbyLess ==
  ASSUME NEW q \in Seq(Entries), q # <<>>, NEW s, NEW r, Lobby(q, s, r)
  PROVE  Lobby(Tail(q), Show(Head(q), s), r) /\ Meant(Head(q), s)
<1>1. PICK f : Leads(f, q, s) /\ Sound(f, q) /\ f[Len(q)] = r
  BY DEF Lobby
<1>2. PICK p : p = Tail(q)
  OBVIOUS
<1>3. PICK t : t = Show(Head(q), s)
  OBVIOUS
<1>4. /\ Meant(Head(q), s) /\ s \in Seq(People)
      /\ \E g : Leads(g, p, t) /\ Sound(g, p) /\ g[Len(p)] = r
  BY <1>1, <1>2, <1>3, OneLess
<1>5. p = Without(q, 1 - 1) /\ 1 \in 1..Len(q) /\ Head(q) = q[1] /\ Head(q) \in Entries
  <2>1. 1 - 1 = 0 /\ Len(q) \in Nat /\ Len(q) # 0
    OBVIOUS
  <2> QED
    BY <1>2, <2>1, TailIsWithout
<1>6. /\ Single(p, "leave") /\ Single(p, "settings")
      /\ Cardinality(Of(p, "comment")) <= Cardinality(Of(q, "comment"))
      /\ Head(q).type = "leave" => Of(p, "leave") = {}
      /\ Of(q, "leave") = {} => Of(p, "leave") = {}
  BY <1>5, OfLess DEF Lobby
<1>7. Of(p, "leave") # {} => t # <<>>
  <2>1. SUFFICES ASSUME Of(p, "leave") # {}
                 PROVE  t # <<>>
    OBVIOUS
  <2>2. Head(q).type # "leave" /\ s # <<>>
    BY <1>6, <2>1 DEF Lobby
  <2>3. CASE Head(q).type = "join"
    <3>1. t = Append(s, Head(q).mii) /\ Head(q).mii \in People
      BY <1>3, <1>5, <2>3, EntryFacts DEF Show
    <3> QED
      BY <1>4, <3>1
  <2>4. CASE Head(q).type # "join"
    BY <1>3, <2>2, <2>4 DEF Show
  <2> QED
    BY <2>3, <2>4
<1>8. Cardinality(Of(p, "comment")) <= MaxComments
  <2>1. p \in Seq(Entries)
    BY <1>2
  <2>2. Cardinality(Of(p, "comment")) \in Nat /\ Cardinality(Of(q, "comment")) \in Nat
    BY <2>1, OfFinite
  <2> QED
    BY <1>6, <2>2, PageAssumption DEF Lobby
<1> QED
  BY <1>2, <1>3, <1>4, <1>6, <1>7, <1>8 DEF Lobby

\* Removing an entry adds to none of the sizes.
LEMMA SizesLess ==
  ASSUME NEW q \in Seq(Entries), NEW s, NEW r, Lobby(q, s, r), NEW n \in 1..Len(q)
  PROVE  /\ Without(q, n - 1) \in Seq(Entries) /\ Len(Without(q, n - 1)) = Len(q) - 1
         /\ Single(Without(q, n - 1), "leave") /\ Single(Without(q, n - 1), "settings")
         /\ Of(Without(q, n - 1), "leave") # {} => s # <<>>
         /\ Cardinality(Of(Without(q, n - 1), "comment")) <= MaxComments
<1>1. n - 1 \in 0..(Len(q) - 1)
  OBVIOUS
<1>2. PICK p : p = Without(q, n - 1)
  OBVIOUS
<1>3. p \in Seq(Entries) /\ Len(p) = Len(q) - 1
  BY <1>1, <1>2, WithoutFacts
<1>4. /\ Single(p, "leave") /\ Single(p, "settings")
      /\ Cardinality(Of(p, "comment")) <= Cardinality(Of(q, "comment"))
      /\ Of(q, "leave") = {} => Of(p, "leave") = {}
  BY <1>2, OfLess DEF Lobby
<1>5. Cardinality(Of(p, "comment")) <= MaxComments
  <2>1. Cardinality(Of(p, "comment")) \in Nat /\ Cardinality(Of(q, "comment")) \in Nat
    BY <1>3, OfFinite
  <2> QED
    BY <1>4, <2>1, PageAssumption DEF Lobby
<1> QED
  BY <1>2, <1>3, <1>4, <1>5 DEF Lobby

\* without the settings that waited,
LEMMA LobbySettingsRemoved ==
  ASSUME NEW q \in Seq(Entries), NEW s, NEW r, Lobby(q, s, r),
         NEW n \in 1..Len(q), q[n].type = "settings"
  PROVE  Lobby(Without(q, n - 1), s, r) /\ Of(Without(q, n - 1), "settings") = {}
<1>1. PICK f : Leads(f, q, s) /\ Sound(f, q) /\ f[Len(q)] = r
  BY DEF Lobby
<1>2. PICK p : p = Without(q, n - 1)
  OBVIOUS
<1>3. Len(p) = Len(q) - 1
  BY <1>2, SizesLess
<1>4. \E g : Leads(g, p, s) /\ Sound(g, p) /\ g[Len(p)] = r
  BY <1>1, <1>2, <1>3, SettingsRemoved
<1>5. Of(p, "settings") = {}
  BY <1>2, OfLess DEF Lobby
<1> QED
  BY <1>2, <1>4, <1>5, SizesLess DEF Lobby

\* and without the Join of a player who leaves.
LEMMA LobbyJoinCancelled ==
  ASSUME NEW q \in Seq(Entries), NEW s, NEW r, Lobby(q, s, r),
         Of(q, "leave") = {}, Of(q, "comment") = {},
         NEW f, Leads(f, q, s), Sound(f, q), f[Len(q)] = r,
         NEW n \in 1..Len(q), q[n].type = "join", NEW i, i = Len(f[n - 1]), r[i + 1] # Self
  PROVE  Lobby(Without(q, n - 1), s, Without(r, i))
<1>1. NoLeaves(q) /\ NoComments(q)
  BY DEF NoLeaves, NoComments, Of
<1>2. PICK p : p = Without(q, n - 1)
  OBVIOUS
<1>3. Len(p) = Len(q) - 1
  BY <1>2, SizesLess
<1>4. \E g : Leads(g, p, s) /\ Sound(g, p) /\ g[Len(p)] = Without(r, i)
  BY <1>1, <1>2, <1>3, JoinCancelled
<1> QED
  BY <1>2, <1>4, SizesLess DEF Lobby


\* Disjoint sets are counted one by one.
LEMMA CountDisjoint ==
  ASSUME NEW S, NEW T, IsFiniteSet(S), IsFiniteSet(T), S \cap T = {}
  PROVE  IsFiniteSet(S \cup T) /\ Cardinality(S \cup T) = Cardinality(S) + Cardinality(T)
<1>1. IsFiniteSet(S \cup T)
      /\ Cardinality(S \cup T) = Cardinality(S) + Cardinality(T) - Cardinality(S \cap T)
  BY FS_Union
<1>2. Cardinality(S \cap T) = 0 /\ Cardinality(S) \in Nat /\ Cardinality(T) \in Nat
  BY FS_EmptySet, FS_CardinalityType
<1> QED
  BY <1>1, <1>2

\* As many joins wait as players are missing on screen, and one more than that if a
\* departure waits; so there is room for a departure and settings of all players.
LEMMA Sizes ==
  ASSUME queue \in Seq(Entries), Lobby(queue, shown, roster)
  PROVE  /\ Cardinality(Positions("join")) <= MaxPlayers
         /\ Cardinality(Positions("leave")) <= 1
         /\ Cardinality(Positions("settings")) <= 1
         /\ Positions("start") = {}
         /\ Len(queue) < Capacity
<1>1. PICK f : Leads(f, queue, shown) /\ Sound(f, queue) /\ f[Len(queue)] = roster
  BY DEF Lobby
<1>2. PICK L \in Nat : L = Len(queue)
  OBVIOUS
<1>3. PICK J, V, C, S : /\ J = Of(queue, "join") /\ V = Of(queue, "leave")
                        /\ C = Of(queue, "comment") /\ S = Of(queue, "settings")
  OBVIOUS
<1>4. /\ Positions("join") = J /\ Positions("leave") = V /\ Positions("comment") = C
      /\ Positions("settings") = S
  BY <1>3 DEF Positions, Of
<1>5. IsFiniteSet(J) /\ IsFiniteSet(V) /\ IsFiniteSet(C) /\ IsFiniteSet(S)
  BY <1>3, OfFinite
<1> DEFINE j == Cardinality(J)
           v == Cardinality(V)
           c == Cardinality(C)
           t == Cardinality(S)
<1>6. j \in Nat /\ v \in Nat /\ c \in Nat /\ t \in Nat
  BY <1>5, FS_CardinalityType
<1>7. v <= 1 /\ t <= 1 /\ c <= MaxComments
  BY <1>3, <1>6, AtMostOne DEF Lobby
<1>8. shown \in Seq(People) /\ roster \in Seq(People) /\ Len(roster) <= MaxPlayers
  BY LobbyTyped
<1>9. Len(shown) + j - v = Len(roster)
  <2>1. L + 1 \in 1..(L + 1) /\ L + 1 - 1 = L
    OBVIOUS
  <2>2. PlayersBefore(L + 1) = Len(roster)
    BY <1>1, <1>2, <2>1, PlayersCounted
  <2>3. \A k \in 1..L : k < L + 1
    BY <1>2
  <2>4. {k \in J : k < L + 1} = J /\ {k \in V : k < L + 1} = V
    BY <1>2, <1>3, <2>3 DEF Of
  <2> QED
    BY <1>4, <1>6, <2>2, <2>4 DEF PlayersBefore
<1>10. v = 1 => Len(shown) >= 1
  <2>1. SUFFICES ASSUME v = 1
                 PROVE  Len(shown) >= 1
    OBVIOUS
  <2>2. V # {}
    <3>1. SUFFICES ASSUME V = {}
                   PROVE  FALSE
      OBVIOUS
    <3>2. Cardinality(V) = 0
      BY <3>1, FS_EmptySet
    <3> QED
      BY <1>6, <2>1, <3>2
  <2>3. shown # <<>>
    BY <1>3, <2>2 DEF Lobby
  <2> QED
    BY <1>8, <2>3
<1>11. j <= MaxPlayers
  <2>1. PICK a \in Nat, b \in Nat : a = Len(shown) /\ b = Len(roster)
    BY <1>8
  <2> HIDE DEF j, v, c, t
  <2> QED
    BY <1>6, <1>7, <1>8, <1>9, <1>10, <2>1, PageAssumption
<1>12. \A n \in 1..L : queue[n].type \in {"join", "leave", "comment", "settings"}
  <2>1. \A n \in 1..L : queue[n] \in Entries /\ queue[n].type # "start"
    BY <1>1, <1>2 DEF Sound, Meant
  <2> QED
    BY <2>1, EntryFacts
<1>13. Positions("start") = {}
  BY <1>2, <1>12 DEF Positions
<1>14. 1..L = ((J \cup V) \cup C) \cup S
  BY <1>2, <1>3, <1>12 DEF Of
<1>15. J \cap V = {} /\ (J \cup V) \cap C = {} /\ ((J \cup V) \cup C) \cap S = {}
  BY <1>3 DEF Of
<1>16. IsFiniteSet(J \cup V) /\ Cardinality(J \cup V) = j + v
  BY <1>5, <1>6, <1>15, CountDisjoint
<1>17. IsFiniteSet((J \cup V) \cup C) /\ Cardinality((J \cup V) \cup C) = j + v + c
  BY <1>5, <1>6, <1>15, <1>16, CountDisjoint
<1>18. Cardinality(((J \cup V) \cup C) \cup S) = j + v + c + t
  BY <1>5, <1>6, <1>15, <1>17, CountDisjoint
<1>19. Cardinality(1..L) = L
  BY FS_Interval
<1>20. L = j + v + c + t
  BY <1>14, <1>18, <1>19
<1>21. L < Capacity
  <2> HIDE DEF j, v, c, t
  <2> QED
    BY <1>6, <1>7, <1>11, <1>20, PageAssumption
<1> QED
  BY <1>2, <1>4, <1>6, <1>7, <1>11, <1>13, <1>21

-------------------------------------------------------------------------------
(***************************************************************************)
(* The invariant of the page, session by session.                          *)
(***************************************************************************)
HasSelf(r) == \E j \in 1..Len(r) : r[j] = Self

AtRest == session = "none" => queue = <<>>
InSetup ==
  session = "setup" =>
    /\ Len(queue) = Len(roster) /\ Len(roster) < MaxPlayers
    /\ \A n \in 1..Len(roster) : queue[n] = Join(roster[n])
InLobby == session = "open" => Lobby(queue, shown, roster) /\ HasSelf(roster)
AtStart ==
  session = "started" => Len(queue) <= 1 /\ \A n \in 1..Len(queue) : queue[n].type = "start"

BySession == AtRest /\ InSetup /\ InLobby /\ AtStart
PageInv == PageTypeOK /\ ~panicked /\ GlobeFacesItsPlayer /\ BySession

\* The types of the state.
LEMMA PageTyped ==
  ASSUME PageTypeOK
  PROVE  /\ roster \in Seq(People) /\ shown \in Seq(People) /\ queue \in Seq(Entries)
         /\ globe \in 0..(MaxPlayers - 1) \cup {NoOne}
         /\ facing \in People \cup {NoOne}
         /\ session \in {"none", "setup", "open", "started"}
         /\ MaxPlayers \in Nat /\ MaxPlayers > 0 /\ MaxComments \in Nat
         /\ \A x \in Nat : x # NoOne
BY PageAssumption DEF PageTypeOK, People

\* The types of the entries.
LEMMA EntryTyped ==
  /\ \A m \in People : Join(m) \in Entries /\ Join(m).type = "join" /\ Join(m).mii = m
  /\ \A i \in 0..(MaxPlayers - 1) :
       Leave(i) \in Entries /\ Leave(i).type = "leave" /\ Leave(i).player = i
  /\ \A i \in 0..(MaxPlayers - 1), m \in People :
       /\ Comment(i, m) \in Entries /\ Comment(i, m).type = "comment"
       /\ Comment(i, m).player = i /\ Comment(i, m).by = m
  /\ Settings \in Entries /\ Settings.type = "settings"
  /\ Start \in Entries /\ Start.type = "start"
BY DEF Join, Leave, Comment, Settings, Start, Entries, People

\* Steps that do not touch the page on screen.
LEMMA SamePage ==
  ASSUME GlobeFacesItsPlayer, UNCHANGED <<shown, globe, facing>>
  PROVE  GlobeFacesItsPlayer'
BY DEF GlobeFacesItsPlayer

\* A session begins with an empty queue: the last one left none.
LEMMA ConnectInv ==
  ASSUME PageInv, Connect
  PROVE  PageInv'
<1>1. /\ session' = "setup" /\ roster' = <<>> /\ launched' = FALSE /\ queue = <<>>
      /\ UNCHANGED <<queue, shown, busy, globe, facing, started, panicked>>
  BY DEF PageInv, Connect, BySession, AtRest
<1>2. PageTypeOK'
  <2>1. roster' \in Seq(Miis \cup {Self})
    BY <1>1
  <2> QED
    BY <1>1, <2>1 DEF PageInv, PageTypeOK
<1>3. BySession'
  <2>1. PICK r : r = <<>>
    OBVIOUS
  <2>2. Len(r) = 0 /\ 1..Len(r) = {}
    BY <2>1
  <2> QED
    BY <1>1, <2>1, <2>2, PageAssumption DEF BySession, AtRest, InSetup, InLobby, AtStart
<1>4. GlobeFacesItsPlayer'
  BY <1>1, SamePage DEF PageInv
<1> QED
  BY <1>1, <1>2, <1>3, <1>4 DEF PageInv

\* One more Join leads to one more player.
LEMMA PlayerJoinsInv ==
  ASSUME PageInv, NEW m \in Miis, PlayerJoins(m)
  PROVE  PageInv'
<1>1. /\ session \in {"setup", "open"} /\ roster' = Append(roster, m)
      /\ Len(roster) < IF session = "setup" THEN MaxPlayers - 1 ELSE MaxPlayers
      /\ UNCHANGED <<session, shown, busy, globe, facing, started, launched>>
      /\ Enqueue(Append(queue, Join(m)))
  BY DEF PlayerJoins, pageVars
<1>2. roster \in Seq(People) /\ queue \in Seq(Entries) /\ m \in People
  BY PageTyped DEF PageInv, People
<1>3. Join(m) \in Entries /\ Join(m).type = "join" /\ Join(m).mii = m
  BY <1>2, EntryTyped
<1>4. PICK e : e = Join(m)
  OBVIOUS
<1>5. Len(queue) # Capacity
  <2>1. CASE session = "setup"
    <3>1. Len(queue) < MaxPlayers
      BY <2>1 DEF PageInv, BySession, InSetup
    <3> QED
      BY <1>2, <3>1, PageAssumption
  <2>2. CASE session = "open"
    BY <1>2, <2>2, Sizes DEF PageInv, BySession, InLobby
  <2> QED
    BY <1>1, <2>1, <2>2
<1>6. queue' = Append(queue, e) /\ UNCHANGED panicked
  BY <1>1, <1>4, <1>5 DEF Enqueue
<1>7. PageTypeOK'
  <2>1. roster' \in Seq(Miis \cup {Self}) /\ queue' \in Seq(Entries)
    BY <1>1, <1>2, <1>3, <1>4, <1>6 DEF People
  <2> QED
    BY <1>1, <1>6, <2>1 DEF PageInv, PageTypeOK
<1>8. BySession'
  <2>1. CASE session = "setup"
    <3>1. PICK L \in Nat : L = Len(roster)
      BY <1>2
    <3>2. Len(queue) = L /\ L + 1 < MaxPlayers /\ \A n \in 1..L : queue[n] = Join(roster[n])
      BY <1>1, <2>1, <3>1, PageAssumption DEF PageInv, BySession, InSetup
    <3>3. PICK r : r = Append(roster, m)
      OBVIOUS
    <3>4. PICK q : q = Append(queue, e)
      OBVIOUS
    <3>5. /\ Len(r) = L + 1 /\ r[L + 1] = m /\ \A n \in 1..L : r[n] = roster[n]
          /\ Len(q) = L + 1 /\ q[L + 1] = e /\ \A n \in 1..L : q[n] = queue[n]
      BY <1>2, <1>3, <1>4, <3>1, <3>2, <3>3, <3>4
    <3>6. \A n \in 1..(L + 1) : n \in 1..L \/ n = L + 1
      BY <3>1
    <3>7. Len(q) = Len(r) /\ Len(r) < MaxPlayers /\ \A n \in 1..Len(r) : q[n] = Join(r[n])
      BY <1>4, <3>2, <3>5, <3>6
    <3>8. session' = "setup" /\ roster' = r /\ queue' = q
      BY <1>1, <1>6, <2>1, <3>3, <3>4
    <3> QED
      BY <3>7, <3>8 DEF BySession, AtRest, InSetup, InLobby, AtStart
  <2>2. CASE session = "open"
    <3>1. Lobby(queue, shown, roster) /\ HasSelf(roster)
      BY <2>2 DEF PageInv, BySession, InLobby
    <3>2. Meant(e, roster) /\ Show(e, roster) = Append(roster, m)
      BY <1>3, <1>4 DEF Meant, Show
    <3>3. Len(Append(roster, m)) <= MaxPlayers
      BY <1>1, <1>2, <2>2, PageAssumption
    <3>4. Lobby(Append(queue, e), shown, Append(roster, m))
      BY <1>2, <1>3, <1>4, <3>1, <3>2, <3>3, LobbyMore
    <3>5. HasSelf(Append(roster, m))
      BY <1>2, <3>1 DEF HasSelf
    <3>6. session' = "open"
      BY <1>1, <2>2
    <3> QED
      BY <1>1, <1>6, <3>4, <3>5, <3>6 DEF BySession, AtRest, InSetup, InLobby, AtStart
  <2> QED
    BY <1>1, <2>1, <2>2
<1>9. GlobeFacesItsPlayer'
  BY <1>1, SamePage DEF PageInv
<1> QED
  BY <1>6, <1>7, <1>8, <1>9 DEF PageInv

\* The page opens on the players of the setup; the local one is still to be shown.
LEMMA EnterRoomInv ==
  ASSUME PageInv, EnterRoom
  PROVE  PageInv'
<1>1. /\ session = "setup" /\ session' = "open" /\ roster' = Append(roster, Self)
      /\ globe' = NoOne /\ facing' = NoOne /\ busy' = FALSE
      /\ UNCHANGED <<started, launched>>
  BY DEF EnterRoom
<1>2. roster \in Seq(People) /\ queue \in Seq(Entries) /\ Self \in People
  BY PageTyped DEF PageInv, People
<1>3. PICK L \in Nat : L = Len(roster)
  BY <1>2
<1>4. Len(queue) = L /\ L < MaxPlayers /\ \A n \in 1..L : queue[n] = Join(roster[n])
  BY <1>1, <1>3 DEF PageInv, BySession, InSetup
<1>5. Len(queue) # Capacity
  BY <1>4, PageAssumption
<1>6. /\ shown' = [n \in 1..Len(queue) |-> queue[n].mii] /\ queue' = <<Join(Self)>>
      /\ UNCHANGED panicked
  BY <1>5 DEF EnterRoom
<1>7. shown' = roster
  <2>1. \A n \in 1..L : roster[n] \in People
    BY <1>2, <1>3
  <2>2. \A n \in 1..L : queue[n].mii = roster[n]
    BY <1>4, <2>1, EntryTyped
  <2>3. PICK w : w = [n \in 1..L |-> roster[n]]
    OBVIOUS
  <2>4. shown' = w
    BY <1>4, <1>6, <2>2, <2>3
  <2>5. w \in Seq(People) /\ Len(w) = L /\ \A n \in 1..L : w[n] = roster[n]
    BY <1>3, <2>1, <2>3
  <2> QED
    BY <1>2, <1>3, <2>4, <2>5, SameSequence
<1>8. PICK q : q = <<>>
  OBVIOUS
<1>9. q \in Seq(Entries) /\ Len(q) = 0 /\ 1..Len(q) = {}
  BY <1>8
<1>10. Lobby(q, roster, roster)
  <2>1. PICK f : f = [n \in 0..0 |-> roster]
    OBVIOUS
  <2>2. \A n \in 0..0 : f[n] = roster
    BY <2>1
  <2>3. f \in [0..0 -> Seq(People)] /\ f[0] = roster
    BY <1>2, <2>1
  <2>4. Leads(f, q, roster) /\ Sound(f, q) /\ f[Len(q)] = roster
    <3>1. Len(roster) <= MaxPlayers
      BY <1>3, <1>4, PageAssumption
    <3>2. 0..Len(q) = 0..0
      BY <1>9
    <3> QED
      BY <1>9, <2>2, <2>3, <3>1, <3>2 DEF Leads, Sound
  <2>5. \A type : Of(q, type) = {} /\ Single(q, type)
    BY <1>9 DEF Of, Single
  <2>6. Cardinality({}) <= MaxComments
    BY FS_EmptySet, PageAssumption
  <2> QED
    BY <2>4, <2>5, <2>6 DEF Lobby
<1>11. PICK e \in Entries : e = Join(Self) /\ e.type = "join" /\ e.mii = Self
  BY <1>2, EntryTyped
<1>12. Meant(e, roster) /\ Show(e, roster) = Append(roster, Self)
  BY <1>11 DEF Meant, Show
<1>13. Len(Append(roster, Self)) <= MaxPlayers
  BY <1>2, <1>3, <1>4, PageAssumption
<1>14. Lobby(Append(q, e), roster, Append(roster, Self))
  BY <1>9, <1>10, <1>11, <1>12, <1>13, LobbyMore
<1>15. Append(q, e) = <<Join(Self)>>
  BY <1>8, <1>11
<1>16. Lobby(queue', shown', roster')
  BY <1>1, <1>6, <1>7, <1>14, <1>15
<1>17. HasSelf(roster')
  BY <1>1, <1>2 DEF HasSelf
<1>18. PageTypeOK'
  <2>1. roster' \in Seq(Miis \cup {Self}) /\ shown' \in Seq(Miis \cup {Self})
    BY <1>1, <1>2, <1>7 DEF People
  <2>2. queue' \in Seq(Entries)
    BY <1>6, <1>11
  <2> QED
    BY <1>1, <1>6, <2>1, <2>2 DEF PageInv, PageTypeOK
<1>19. BySession'
  BY <1>1, <1>16, <1>17 DEF BySession, AtRest, InSetup, InLobby, AtStart
<1>20. GlobeFacesItsPlayer'
  BY <1>1 DEF GlobeFacesItsPlayer
<1> QED
  BY <1>6, <1>18, <1>19, <1>20 DEF PageInv


\* Steps of an open lobby that queue an entry leave the rest of the page alone.
LEMMA LobbyKept ==
  ASSUME PageInv, session = "open", UNCHANGED <<session, pageVars, panicked>>,
         roster' \in Seq(People), queue' \in Seq(Entries),
         Lobby(queue', shown, roster'), HasSelf(roster')
  PROVE  PageInv'
<1>1. UNCHANGED <<session, shown, busy, globe, facing, started, launched, panicked>>
  BY DEF pageVars
<1>2. PageTypeOK'
  BY <1>1 DEF PageInv, PageTypeOK, People
<1>3. BySession'
  BY <1>1 DEF BySession, AtRest, InSetup, InLobby, AtStart
<1>4. GlobeFacesItsPlayer'
  BY <1>1, SamePage DEF PageInv
<1> QED
  BY <1>1, <1>2, <1>3, <1>4 DEF PageInv

\* A message is queued for the players that will be on screen, or not at all.
LEMMA CommentArrivesInv ==
  ASSUME PageInv, NEW i \in 0..(MaxPlayers - 1), CommentArrives(i)
  PROVE  PageInv'
<1>1. /\ session = "open" /\ i < Len(roster) /\ Enqueue(AfterComment(i))
      /\ UNCHANGED <<session, roster, pageVars>>
  BY DEF CommentArrives
<1>2. roster \in Seq(People) /\ queue \in Seq(Entries)
  BY PageTyped DEF PageInv
<1>3. Lobby(queue, shown, roster) /\ HasSelf(roster)
  BY <1>1 DEF PageInv, BySession, InLobby
<1>4. queue' = AfterComment(i) /\ UNCHANGED panicked
  BY <1>1, <1>2, <1>3, Sizes DEF Enqueue
<1>5. Positions("comment") = Of(queue, "comment")
  BY DEF Positions, Of
<1>6. PICK x : x = roster[i + 1]
  OBVIOUS
<1>7. x \in People
  <2>1. i + 1 \in 1..Len(roster)
    BY <1>1, <1>2
  <2> QED
    BY <1>2, <1>6, <2>1
<1>8. PICK e : e = Comment(i, x)
  OBVIOUS
<1>9. e \in Entries /\ e.type = "comment" /\ e.player = i /\ e.by = x
  BY <1>7, <1>8, EntryTyped
<1>10. CASE Cardinality(Positions("comment")) < MaxComments
  <2>1. queue' = Append(queue, e)
    BY <1>4, <1>6, <1>8, <1>10 DEF AfterComment
  <2>2. Meant(e, roster) /\ Show(e, roster) = roster
    BY <1>1, <1>6, <1>9 DEF Meant, Show
  <2>3. Len(roster) <= MaxPlayers
    BY <1>2, <1>3, LobbyTyped
  <2>4. Lobby(Append(queue, e), shown, roster)
    BY <1>2, <1>3, <1>5, <1>9, <1>10, <2>2, <2>3, LobbyMore
  <2>5. queue' \in Seq(Entries) /\ roster' = roster
    BY <1>1, <1>2, <1>9, <2>1
  <2> QED
    BY <1>1, <1>2, <1>3, <1>4, <2>1, <2>4, <2>5, LobbyKept
<1>11. CASE ~(Cardinality(Positions("comment")) < MaxComments)
  <2>1. queue' = queue /\ roster' = roster
    BY <1>1, <1>4, <1>11 DEF AfterComment
  <2> QED
    BY <1>1, <1>2, <1>3, <1>4, <2>1, LobbyKept
<1> QED
  BY <1>10, <1>11

\* Settings take the place of those that waited.
LEMMA SettingsChangeInv ==
  ASSUME PageInv, SettingsChange
  PROVE  PageInv'
<1>1. /\ session = "open" /\ Enqueue(AfterSettings)
      /\ UNCHANGED <<session, roster, pageVars>>
  BY DEF SettingsChange
<1>2. roster \in Seq(People) /\ queue \in Seq(Entries)
  BY PageTyped DEF PageInv
<1>3. Lobby(queue, shown, roster) /\ HasSelf(roster)
  BY <1>1 DEF PageInv, BySession, InLobby
<1>4. queue' = AfterSettings /\ UNCHANGED panicked
  BY <1>1, <1>2, <1>3, Sizes DEF Enqueue
<1>5. Positions("settings") = Of(queue, "settings")
  BY DEF Positions, Of
<1>6. PICK e : e = Settings
  OBVIOUS
<1>7. e \in Entries /\ e.type = "settings"
  BY <1>6, EntryTyped
<1>8. Meant(e, roster) /\ Show(e, roster) = roster
  BY <1>3, <1>7 DEF Meant, Show, HasSelf
<1>9. Len(roster) <= MaxPlayers
  BY <1>2, <1>3, LobbyTyped
<1>10. ASSUME NEW q \in Seq(Entries), Lobby(q, shown, roster), Of(q, "settings") = {},
              queue' = Append(q, e)
       PROVE  PageInv'
  <2>1. Lobby(Append(q, e), shown, roster)
    BY <1>7, <1>8, <1>9, <1>10, LobbyMore
  <2>2. queue' \in Seq(Entries) /\ roster' = roster
    BY <1>1, <1>7, <1>10
  <2> QED
    BY <1>1, <1>2, <1>3, <1>4, <1>10, <2>1, <2>2, LobbyKept
<1>11. CASE Positions("settings") = {}
  <2>1. queue' = Append(queue, e)
    BY <1>4, <1>6, <1>11 DEF AfterSettings
  <2> QED
    BY <1>2, <1>3, <1>5, <1>10, <1>11, <2>1
<1>12. CASE Positions("settings") # {}
  <2>1. PICK n : n = CHOOSE k \in Positions("settings") : \A m \in Positions("settings") : k <= m
    OBVIOUS
  <2>2. n \in Positions("settings")
    <3>1. Positions("settings") \in SUBSET Nat
      BY <1>2 DEF Positions
    <3>2. \E k \in Positions("settings") : \A m \in Positions("settings") : k <= m
      BY <1>12, <3>1, HasLeast
    <3> QED
      BY <2>1, <3>2
  <2>3. n \in 1..Len(queue) /\ queue[n].type = "settings"
    BY <2>2 DEF Positions
  <2>4. PICK q : q = Without(queue, n - 1)
    OBVIOUS
  <2>5. q \in Seq(Entries) /\ Lobby(q, shown, roster) /\ Of(q, "settings") = {}
    BY <1>2, <1>3, <2>3, <2>4, SizesLess, LobbySettingsRemoved
  <2>6. queue' = Append(q, e)
    BY <1>4, <1>6, <1>12, <2>1, <2>4 DEF AfterSettings
  <2> QED
    BY <1>10, <2>5, <2>6
<1> QED
  BY <1>11, <1>12

\* The other players stay: Self among them.
LEMMA SelfStays ==
  ASSUME NEW r \in Seq(People), NEW i \in 0..(Len(r) - 1), r[i + 1] # Self, HasSelf(r)
  PROVE  HasSelf(Without(r, i))
<1>1. PICK j \in 1..Len(r) : r[j] = Self
  BY DEF HasSelf
<1>2. PICK w : w = Without(r, i)
  OBVIOUS
<1>3. /\ Len(w) = Len(r) - 1
      /\ \A k \in 1..i : w[k] = r[k]
      /\ \A k \in (i + 1)..(Len(r) - 1) : w[k] = r[k + 1]
  BY <1>2, WithoutFacts
<1>4. j # i + 1
  BY <1>1
<1>5. CASE j <= i
  <2>1. j \in 1..i /\ j \in 1..Len(w)
    BY <1>3, <1>5
  <2> QED
    BY <1>1, <1>2, <1>3, <2>1 DEF HasSelf
<1>6. CASE ~(j <= i)
  <2>1. j - 1 \in (i + 1)..(Len(r) - 1) /\ j - 1 + 1 = j /\ j - 1 \in 1..Len(w)
    BY <1>3, <1>4, <1>6
  <2> QED
    BY <1>1, <1>2, <1>3, <2>1 DEF HasSelf
<1> QED
  BY <1>5, <1>6

\* The player shown by a queued Join is there once.
LEMMA CancelledOnce ==
  ASSUME NEW q \in Seq(Entries), NEW s, NEW f, Leads(f, q, s), NoLeaves(q),
         NEW m \in 1..Len(q), NEW n \in 1..Len(q), m < n, q[m].type = "join"
  PROVE  Len(f[m - 1]) # Len(f[n - 1])
<1>1. PICK L \in Nat : L = Len(q)
  OBVIOUS
<1>2. m \in 0..L /\ n - 1 \in m..L /\ m - 1 \in 0..L /\ m \in 1..L
  BY <1>1
<1>3. /\ f \in [0..L -> Seq(People)]
      /\ \A k \in 1..L : f[k] = Show(q[k], f[k - 1])
  BY <1>1 DEF Leads
<1>4. PICK y : y = f[m - 1]
  OBVIOUS
<1>5. PICK z : z = f[n - 1]
  OBVIOUS
<1>6. y \in Seq(People) /\ z \in Seq(People)
  <2>1. n - 1 \in 0..L
    BY <1>2
  <2> QED
    BY <1>2, <1>3, <1>4, <1>5, <2>1
<1>7. PICK u \in People : u = q[m].mii
  BY <1>1, <1>2, EntryFacts
<1>8. f[m] = Append(y, u)
  BY <1>2, <1>3, <1>4, <1>7 DEF Show
<1>9. Len(f[m]) <= Len(z)
  BY <1>1, <1>2, <1>5, Steady
<1>10. Len(Append(y, u)) = Len(y) + 1
  BY <1>6
<1> QED
  BY <1>4, <1>5, <1>6, <1>8, <1>9, <1>10

\* A player leaves who is on screen, and its Leave is queued, or whose one Join is removed.
LEMMA PlayerLeavesInv ==
  ASSUME Faults \subseteq {"startAborts"}, PageInv, NEW i \in 0..(MaxPlayers - 1), PlayerLeaves(i)
  PROVE  PageInv'
<1>1. /\ session = "open" /\ i < Len(roster) /\ roster[i + 1] # Self
      /\ Positions("leave") = {}
      /\ Cancelled(i) = {} \/ Positions("comment") = {}
      /\ roster' = Without(roster, i) /\ Enqueue(AfterLeave(i))
      /\ UNCHANGED <<session, pageVars>>
  BY DEF PlayerLeaves
<1>2. roster \in Seq(People) /\ queue \in Seq(Entries) /\ shown \in Seq(People)
  BY PageTyped DEF PageInv
<1>3. Lobby(queue, shown, roster) /\ HasSelf(roster)
  BY <1>1 DEF PageInv, BySession, InLobby
<1>4. queue' = AfterLeave(i) /\ UNCHANGED panicked
  BY <1>1, <1>2, <1>3, Sizes DEF Enqueue
<1>5. i \in 0..(Len(roster) - 1) /\ i \in Nat
  BY <1>1, <1>2
<1>6. roster' \in Seq(People) /\ HasSelf(roster')
  BY <1>1, <1>2, <1>3, <1>5, WithoutFacts, SelfStays
<1>7. Of(queue, "leave") = {} /\ NoLeaves(queue)
  BY <1>1 DEF Positions, Of, NoLeaves
<1>8. JoinPlayerId(i) = i
  BY <1>2, <1>7, IdIsJoinId
<1>9. PICK f : Leads(f, queue, shown) /\ Sound(f, queue) /\ f[Len(queue)] = roster
  BY <1>3 DEF Lobby
<1>10. Cancelled(i) = {n \in 1..Len(queue) : queue[n].type = "join" /\ Len(f[n - 1]) = i}
  <2>1. \A n \in 1..Len(queue) : PlayersBefore(n) = Len(f[n - 1])
    <3>1. \A n \in 1..Len(queue) : n \in 1..(Len(queue) + 1)
      BY <1>2
    <3> QED
      BY <1>2, <1>9, <3>1, PlayersCounted
  <2> QED
    BY <1>8, <2>1 DEF Cancelled, Positions
<1>11. CASE Cancelled(i) = {}
  <2>1. PICK e \in Entries : e = Leave(i) /\ e.type = "leave" /\ e.player = i
    BY EntryTyped
  <2>2. queue' = Append(queue, e)
    BY <1>4, <1>11, <2>1 DEF AfterLeave
  <2>3. shown # <<>>
    <3>1. SUFFICES ASSUME Len(shown) <= i
                   PROVE  FALSE
      BY <1>2, <1>5
    <3>2. \E n \in 1..Len(queue) : queue[n].type = "join" /\ Len(f[n - 1]) = i
      BY <1>1, <1>2, <1>5, <1>9, <3>1, JoinIsQueued
    <3> QED
      BY <1>10, <1>11, <3>2
  <2>4. Meant(e, roster) /\ Show(e, roster) = Without(roster, i)
    BY <1>1, <2>1 DEF Meant, Show
  <2>5. Len(Without(roster, i)) <= MaxPlayers
    <3>1. Len(roster) <= MaxPlayers
      BY <1>2, <1>3, LobbyTyped
    <3>2. Len(Without(roster, i)) = Len(roster) - 1 /\ Len(roster) \in Nat
      BY <1>2, <1>5, WithoutFacts
    <3> QED
      BY <3>1, <3>2, PageAssumption
  <2>6. Lobby(Append(queue, e), shown, Without(roster, i))
    BY <1>2, <1>3, <1>7, <2>1, <2>3, <2>4, <2>5, LobbyMore
  <2>7. queue' \in Seq(Entries)
    BY <1>2, <2>1, <2>2
  <2> QED
    BY <1>1, <1>4, <1>6, <2>2, <2>6, <2>7, LobbyKept
<1>12. CASE Cancelled(i) # {}
  <2>1. PICK n \in Cancelled(i) : TRUE
    BY <1>12
  <2>2. n \in 1..Len(queue) /\ queue[n].type = "join" /\ Len(f[n - 1]) = i
    BY <1>10, <2>1
  <2>3. \A m \in Cancelled(i) : m = n
    <3>1. ASSUME NEW m \in Cancelled(i), m # n
          PROVE  FALSE
      <4>1. m \in 1..Len(queue) /\ queue[m].type = "join" /\ Len(f[m - 1]) = i
        BY <1>10
      <4>2. CASE m < n
        BY <1>2, <1>7, <1>9, <2>2, <4>1, <4>2, CancelledOnce
      <4>3. CASE n < m
        BY <1>2, <1>7, <1>9, <2>2, <4>1, <4>3, CancelledOnce
      <4> QED
        BY <1>2, <2>2, <3>1, <4>1, <4>2, <4>3
    <3> QED
      BY <3>1
  <2>4. n = CHOOSE k \in Cancelled(i) : \A m \in Cancelled(i) : m <= k
    <3>1. n \in Nat
      BY <2>2
    <3>2. Cancelled(i) = {n}
      BY <2>1, <2>3
    <3>3. \E k \in Cancelled(i) : \A m \in Cancelled(i) : m <= k
      BY <3>1, <3>2
    <3> QED
      BY <2>3, <3>3
  <2>5. queue' = Without(queue, n - 1)
    BY <1>4, <1>12, <2>4 DEF AfterLeave
  <2>6. Of(queue, "comment") = {}
    BY <1>1, <1>12 DEF Positions, Of
  <2>7. Lobby(Without(queue, n - 1), shown, Without(roster, i))
    BY <1>1, <1>2, <1>3, <1>7, <1>9, <2>2, <2>6, LobbyJoinCancelled
  <2>8. queue' \in Seq(Entries)
    BY <1>2, <1>3, <2>2, <2>5, SizesLess
  <2> QED
    BY <1>1, <1>4, <1>6, <2>5, <2>7, <2>8, LobbyKept
<1> QED
  BY <1>11, <1>12


\* The start takes the place of all that waited.
LEMMA RoomStartsInv ==
  ASSUME PageInv, RoomStarts
  PROVE  PageInv'
<1>1. /\ session' = "started" /\ queue' = <<Start>>
      /\ UNCHANGED <<roster, shown, busy, globe, facing, started, launched, panicked>>
  BY DEF RoomStarts, pageVars
<1>2. PICK e \in Entries : e = Start /\ e.type = "start"
  BY EntryTyped
<1>3. queue' \in Seq(Entries) /\ Len(queue') = 1 /\ \A n \in 1..Len(queue') : queue'[n] = e
  BY <1>1, <1>2
<1>4. PageTypeOK'
  BY <1>1, <1>3 DEF PageInv, PageTypeOK
<1>5. BySession'
  <2>1. Len(queue') <= 1 /\ \A n \in 1..Len(queue') : queue'[n].type = "start"
    BY <1>2, <1>3
  <2> QED
    BY <1>1, <2>1 DEF BySession, AtRest, InSetup, InLobby, AtStart
<1>6. GlobeFacesItsPlayer'
  BY <1>1, SamePage DEF PageInv
<1> QED
  BY <1>1, <1>4, <1>5, <1>6 DEF PageInv

\* The connection ends: nothing waits any more.
LEMMA ConnectionEndsInv ==
  ASSUME PageInv, ConnectionEnds
  PROVE  PageInv'
<1>1. /\ session' = "none" /\ queue' = <<>>
      /\ UNCHANGED <<roster, shown, busy, globe, facing, started, launched, panicked>>
  BY DEF ConnectionEnds, pageVars
<1>2. queue' \in Seq(Entries)
  BY <1>1
<1>3. PageTypeOK'
  BY <1>1, <1>2 DEF PageInv, PageTypeOK
<1>4. BySession'
  BY <1>1 DEF BySession, AtRest, InSetup, InLobby, AtStart
<1>5. GlobeFacesItsPlayer'
  BY <1>1, SamePage DEF PageInv
<1> QED
  BY <1>1, <1>3, <1>4, <1>5 DEF PageInv

\* The timer is about none of this.
LEMMA TimerExpiresInv ==
  ASSUME PageInv, TimerExpires
  PROVE  PageInv'
<1>1. /\ busy' = FALSE
      /\ UNCHANGED <<session, roster, queue, shown, globe, facing, started, launched, panicked>>
  BY DEF TimerExpires
<1>2. PageTypeOK'
  BY <1>1 DEF PageInv, PageTypeOK
<1>3. BySession'
  BY <1>1 DEF PageInv, BySession, AtRest, InSetup, InLobby, AtStart
<1>4. GlobeFacesItsPlayer'
  BY <1>1, SamePage DEF PageInv
<1> QED
  BY <1>1, <1>2, <1>3, <1>4 DEF PageInv

\* The page is made anew for the next session.
LEMMA LaunchInv ==
  ASSUME PageInv, Launch
  PROVE  PageInv'
<1>1. /\ session' = "none" /\ queue' = <<>> /\ shown' = <<>> /\ globe' = NoOne
      /\ facing' = NoOne /\ started' = FALSE /\ launched' = TRUE
      /\ UNCHANGED <<roster, busy, panicked>>
  BY DEF Launch, NewPage
<1>2. queue' \in Seq(Entries) /\ shown' \in Seq(Miis \cup {Self})
  BY <1>1
<1>3. PageTypeOK'
  BY <1>1, <1>2 DEF PageInv, PageTypeOK
<1>4. BySession'
  BY <1>1 DEF BySession, AtRest, InSetup, InLobby, AtStart
<1>5. GlobeFacesItsPlayer'
  BY <1>1 DEF GlobeFacesItsPlayer
<1> QED
  BY <1>1, <1>3, <1>4, <1>5 DEF PageInv

\* An entry of the type has come to the front: the lobby's, or the start.
LEMMA ShowsFacts ==
  ASSUME PageInv, NEW type, Shows(type)
  PROVE  /\ queue # <<>> /\ Head(queue) \in Entries /\ Head(queue).type = type
         /\ queue' = Tail(queue) /\ queue' \in Seq(Entries)
         /\ UNCHANGED <<session, roster, launched>>
         /\ type = "start" => session = "started"
         /\ type # "start" => /\ session = "open" /\ Lobby(queue, shown, roster)
                              /\ Meant(Head(queue), shown)
                              /\ Show(Head(queue), shown) \in Seq(People)
                              /\ Len(Show(Head(queue), shown)) <= MaxPlayers
                              /\ Lobby(queue', Show(Head(queue), shown), roster)
<1>1. /\ queue # <<>> /\ Head(queue).type = type /\ queue' = Tail(queue)
      /\ UNCHANGED <<session, roster, launched>> /\ session \in {"open", "started"}
  BY DEF Shows, Calc
<1>2. queue \in Seq(Entries) /\ shown \in Seq(People)
  BY PageTyped DEF PageInv
<1>3. Head(queue) \in Entries /\ Head(queue) = queue[1] /\ queue' \in Seq(Entries) /\ 1 \in 1..Len(queue)
  BY <1>1, <1>2
<1>4. CASE session = "open"
  <2>1. Lobby(queue, shown, roster)
    BY <1>4 DEF PageInv, BySession, InLobby
  <2>2. Lobby(queue', Show(Head(queue), shown), roster) /\ Meant(Head(queue), shown)
    BY <1>1, <1>2, <2>1, LobbyLess
  <2>3. Show(Head(queue), shown) \in Seq(People)
    BY <1>2, <1>3, <2>2, ShowTyped
  <2>4. Len(Show(Head(queue), shown)) <= MaxPlayers
    <3>1. PICK f : Leads(f, queue, shown) /\ Sound(f, queue)
      BY <2>1 DEF Lobby
    <3> QED
      BY <1>1, <1>2, <3>1, OneLess
  <2>5. type # "start"
    BY <1>1, <2>2 DEF Meant
  <2> QED
    BY <1>1, <1>3, <1>4, <2>1, <2>2, <2>3, <2>4, <2>5
<1>5. CASE session = "started"
  <2>1. type = "start"
    BY <1>1, <1>3, <1>5 DEF PageInv, BySession, AtStart
  <2> QED
    BY <1>1, <1>3, <1>5, <2>1
<1> QED
  BY <1>1, <1>4, <1>5

\* What remains to be said of a step that shows an entry of the lobby.
LEMMA LobbyShown ==
  ASSUME PageInv, NEW type, type # "start", Shows(type), UNCHANGED <<started, panicked>>,
         shown' = Show(Head(queue), shown), GlobeFacesItsPlayer', busy' \in BOOLEAN,
         globe' \in 0..(MaxPlayers - 1) \cup {NoOne}, facing' \in People \cup {NoOne}
  PROVE  PageInv'
<1>1. /\ queue' \in Seq(Entries) /\ shown' \in Seq(People)
      /\ UNCHANGED <<session, roster, launched>>
      /\ session = "open" /\ Lobby(queue', shown', roster)
  BY ShowsFacts
<1>2. PageTypeOK'
  BY <1>1 DEF PageInv, PageTypeOK, People
<1>3. BySession'
  BY <1>1 DEF PageInv, BySession, AtRest, InSetup, InLobby, AtStart
<1> QED
  BY <1>2, <1>3 DEF PageInv

\* There is a place on screen for who has joined.
LEMMA ShowJoinInv ==
  ASSUME PageInv, ShowJoin
  PROVE  PageInv'
<1>1. Shows("join") /\ UNCHANGED started
  BY DEF ShowJoin
<1>2. /\ Head(queue) \in Entries /\ Head(queue).type = "join"
      /\ Len(Show(Head(queue), shown)) <= MaxPlayers
  BY <1>1, ShowsFacts
<1>3. PICK m \in People : m = Head(queue).mii
  BY <1>2, EntryFacts
<1>4. shown \in Seq(People)
  BY PageTyped DEF PageInv
<1>5. PICK t : t = Append(shown, m)
  OBVIOUS
<1>6. Show(Head(queue), shown) = t
  BY <1>2, <1>3, <1>5 DEF Show
<1>7. PICK L \in Nat : L = Len(shown)
  BY <1>4
<1>8. Len(t) = L + 1 /\ t[L + 1] = m /\ L < MaxPlayers /\ L \in 0..(MaxPlayers - 1)
  BY <1>2, <1>4, <1>5, <1>6, <1>7, PageAssumption
<1>9. shown' = t /\ globe' = L /\ facing' = m /\ busy' = TRUE /\ UNCHANGED panicked
  BY <1>3, <1>5, <1>7, <1>8 DEF ShowJoin, TurnTo
<1>10. GlobeFacesItsPlayer'
  BY <1>8, <1>9 DEF GlobeFacesItsPlayer
<1> QED
  BY <1>1, <1>6, <1>8, <1>9, <1>10, LobbyShown

\* Who leaves is on screen; the globe stays with its player.
LEMMA ShowLeaveInv ==
  ASSUME PageInv, ShowLeave
  PROVE  PageInv'
<1>1. Shows("leave") /\ UNCHANGED <<busy, facing, started>> /\ TakeAway(Head(queue).player)
  BY DEF ShowLeave
<1>2. Head(queue) \in Entries /\ Head(queue).type = "leave" /\ Meant(Head(queue), shown)
  BY <1>1, ShowsFacts
<1>3. PICK i : i = Head(queue).player
  OBVIOUS
<1>4. shown \in Seq(People) /\ globe \in 0..(MaxPlayers - 1) \cup {NoOne} /\ NoOne \notin Nat
      /\ facing \in People \cup {NoOne} /\ MaxPlayers \in Nat
  BY PageTyped, PageAssumption DEF PageInv
<1>5. i \in Nat /\ i < Len(shown) /\ i \in 0..(Len(shown) - 1)
  <2>1. i \in Nat /\ i < Len(shown)
    BY <1>2, <1>3, EntryFacts DEF Meant
  <2> QED
    BY <1>4, <2>1
<1>6. PICK t : t = Without(shown, i)
  OBVIOUS
<1>7. Show(Head(queue), shown) = t
  BY <1>2, <1>3, <1>6 DEF Show
<1>8. shown # <<>>
  BY <1>5
<1>9. /\ shown' = t /\ UNCHANGED panicked
      /\ globe' = IF globe = NoOne \/ globe = i THEN NoOne
                  ELSE IF globe > i THEN globe - 1 ELSE globe
  BY <1>1, <1>3, <1>6, <1>8 DEF TakeAway
<1>10. /\ Len(t) = Len(shown) - 1
       /\ \A j \in 1..i : t[j] = shown[j]
       /\ \A j \in (i + 1)..(Len(shown) - 1) : t[j] = shown[j + 1]
  BY <1>4, <1>5, <1>6, WithoutFacts
<1>11. globe' \in 0..(MaxPlayers - 1) \cup {NoOne}
  BY <1>4, <1>5, <1>9
<1>12. GlobeFacesItsPlayer'
  <2>1. CASE globe = NoOne \/ globe = i
    BY <1>9, <2>1 DEF GlobeFacesItsPlayer
  <2>2. CASE ~(globe = NoOne \/ globe = i)
    <3>1. globe \in Nat /\ globe < Len(shown) /\ shown[globe + 1] = facing
      BY <1>4, <1>8, <2>2 DEF PageInv, GlobeFacesItsPlayer
    <3>2. CASE globe > i
      <4>1. /\ globe' = globe - 1 /\ globe \in (i + 1)..(Len(shown) - 1)
            /\ globe - 1 + 1 = globe /\ globe - 1 < Len(shown) - 1
        BY <1>4, <1>5, <1>9, <2>2, <3>1, <3>2
      <4> QED
        BY <1>1, <1>9, <1>10, <3>1, <4>1 DEF GlobeFacesItsPlayer
    <3>3. CASE ~(globe > i)
      <4>1. globe' = globe /\ globe + 1 \in 1..i /\ globe < Len(shown) - 1
        BY <1>4, <1>5, <1>9, <2>2, <3>1, <3>3
      <4> QED
        BY <1>1, <1>9, <1>10, <3>1, <4>1 DEF GlobeFacesItsPlayer
    <3> QED
      BY <3>2, <3>3
  <2> QED
    BY <2>1, <2>2
<1>13. busy' \in BOOLEAN
  BY <1>1 DEF PageInv, PageTypeOK
<1> QED
  BY <1>1, <1>4, <1>7, <1>9, <1>11, <1>12, <1>13, LobbyShown

\* Turning to a player that is on screen.
LEMMA Turned ==
  ASSUME PageInv, NEW i \in 0..(MaxPlayers - 1), TurnTo(i, shown), UNCHANGED shown,
         i < Len(shown) \/ shown = <<>>
  PROVE  /\ GlobeFacesItsPlayer' /\ busy' \in BOOLEAN
         /\ globe' \in 0..(MaxPlayers - 1) \cup {NoOne} /\ facing' \in People \cup {NoOne}
<1>1. shown \in Seq(People) /\ i \in Nat
  BY PageTyped DEF PageInv
<1>2. /\ globe' = i /\ busy' = TRUE
      /\ facing' = IF i < Len(shown) THEN shown[i + 1] ELSE NoOne
  BY DEF TurnTo
<1>3. i < Len(shown) => i + 1 \in 1..Len(shown)
  BY <1>1
<1>4. facing' \in People \cup {NoOne}
  BY <1>1, <1>2, <1>3
<1>5. GlobeFacesItsPlayer'
  BY <1>2 DEF GlobeFacesItsPlayer
<1> QED
  BY <1>2, <1>4, <1>5

\* Who wrote is on screen.
LEMMA ShowCommentInv ==
  ASSUME PageInv, ShowComment
  PROVE  PageInv'
<1>1. Shows("comment") /\ UNCHANGED <<shown, started, panicked>> /\ TurnTo(Head(queue).player, shown)
  BY DEF ShowComment
<1>2. Head(queue) \in Entries /\ Head(queue).type = "comment" /\ Meant(Head(queue), shown)
  BY <1>1, ShowsFacts
<1>3. PICK i : i = Head(queue).player
  OBVIOUS
<1>4. i \in 0..(MaxPlayers - 1) /\ i < Len(shown)
  BY <1>2, <1>3, EntryFacts DEF Meant
<1>5. /\ GlobeFacesItsPlayer' /\ busy' \in BOOLEAN
      /\ globe' \in 0..(MaxPlayers - 1) \cup {NoOne} /\ facing' \in People \cup {NoOne}
  BY <1>1, <1>3, <1>4, Turned
<1>6. shown' = Show(Head(queue), shown)
  BY <1>1, <1>2 DEF Show
<1> QED
  BY <1>1, <1>5, <1>6, LobbyShown

\* The host is on screen.
LEMMA ShowSettingsInv ==
  ASSUME PageInv, ShowSettings
  PROVE  PageInv'
<1>1. Shows("settings") /\ UNCHANGED <<shown, started>>
  BY DEF ShowSettings
<1>2. Head(queue) \in Entries /\ Head(queue).type = "settings" /\ Meant(Head(queue), shown)
  BY <1>1, ShowsFacts
<1>3. shown # <<>> /\ 0 < Len(shown)
  BY <1>2, PageTyped DEF Meant, PageInv
<1>4. TurnTo(0, shown) /\ UNCHANGED panicked
  BY <1>3 DEF ShowSettings
<1>5. 0 \in 0..(MaxPlayers - 1)
  BY PageAssumption
<1>6. /\ GlobeFacesItsPlayer' /\ busy' \in BOOLEAN
      /\ globe' \in 0..(MaxPlayers - 1) \cup {NoOne} /\ facing' \in People \cup {NoOne}
  BY <1>1, <1>3, <1>4, <1>5, Turned
<1>7. shown' = Show(Head(queue), shown)
  BY <1>1, <1>2 DEF Show
<1> QED
  BY <1>1, <1>4, <1>6, <1>7, LobbyShown

\* The start is shown of whoever is on screen.
LEMMA ShowStartInv ==
  ASSUME PageInv, ShowStart
  PROVE  PageInv'
<1>1. /\ Shows("start") /\ UNCHANGED <<shown, panicked>> /\ TurnTo(0, shown) /\ started' = TRUE
  BY DEF ShowStart
<1>2. /\ queue # <<>> /\ queue' = Tail(queue) /\ queue' \in Seq(Entries)
      /\ UNCHANGED <<session, roster, launched>> /\ session = "started"
  BY <1>1, ShowsFacts
<1>3. queue \in Seq(Entries) /\ shown \in Seq(People)
  BY PageTyped DEF PageInv
<1>4. 0 \in 0..(MaxPlayers - 1) /\ (0 < Len(shown) \/ shown = <<>>)
  BY <1>3, PageAssumption
<1>5. /\ GlobeFacesItsPlayer' /\ busy' \in BOOLEAN
      /\ globe' \in 0..(MaxPlayers - 1) \cup {NoOne} /\ facing' \in People \cup {NoOne}
  BY <1>1, <1>4, Turned
<1>6. PageTypeOK'
  BY <1>1, <1>2, <1>5 DEF PageInv, PageTypeOK, People
<1>7. Len(queue') = 0
  <2>1. Len(queue) <= 1
    BY <1>2 DEF PageInv, BySession, AtStart
  <2>2. PICK L \in Nat : L = Len(queue)
    BY <1>3
  <2>3. L <= 1 /\ L # 0
    BY <1>2, <1>3, <2>1, <2>2
  <2>4. Len(Tail(queue)) = L - 1
    BY <1>2, <1>3, <2>2
  <2> QED
    BY <1>2, <2>2, <2>3, <2>4
<1>8. Len(queue') <= 1 /\ 1..Len(queue') = {}
  BY <1>7
<1>9. BySession'
  BY <1>2, <1>8 DEF BySession, AtRest, InSetup, InLobby, AtStart
<1> QED
  BY <1>1, <1>5, <1>6, <1>9 DEF PageInv

-------------------------------------------------------------------------------
\* The page begins in the invariant,
LEMMA PageInitInv == PageInit => PageInv
<1> SUFFICES ASSUME PageInit
             PROVE  PageInv
  OBVIOUS
<1>1. PageTypeOK
  <2>1. <<>> \in Seq(Miis \cup {Self}) /\ <<>> \in Seq(Entries)
    OBVIOUS
  <2> QED
    BY <2>1 DEF PageInit, PageTypeOK
<1>2. BySession
  BY DEF PageInit, BySession, AtRest, InSetup, InLobby, AtStart
<1>3. GlobeFacesItsPlayer
  BY DEF PageInit, GlobeFacesItsPlayer
<1> QED
  BY <1>1, <1>2, <1>3 DEF PageInv, PageInit

\* and every step keeps it.
LEMMA PageStepInv ==
  ASSUME Faults \subseteq {"startAborts"}, PageInv, [PageNext]_roomAndPage
  PROVE  PageInv'
<1>1. CASE UNCHANGED roomAndPage
  BY <1>1 DEF roomAndPage, pageVars, PageInv, PageTypeOK, BySession, AtRest, InSetup, InLobby,
              AtStart, GlobeFacesItsPlayer
<1>2. CASE Connect \/ EnterRoom \/ SettingsChange \/ RoomStarts \/ ConnectionEnds
  BY <1>2, ConnectInv, EnterRoomInv, SettingsChangeInv, RoomStartsInv, ConnectionEndsInv
<1>3. CASE \E m \in Miis : PlayerJoins(m)
  BY <1>3, PlayerJoinsInv
<1>4. CASE \E i \in 0..(MaxPlayers - 1) : PlayerLeaves(i) \/ CommentArrives(i)
  BY <1>4, PlayerLeavesInv, CommentArrivesInv
<1>5. CASE AfterCalc
  BY <1>5, TimerExpiresInv, LaunchInv, ShowJoinInv, ShowLeaveInv, ShowCommentInv,
     ShowSettingsInv, ShowStartInv DEF AfterCalc
<1> QED
  BY <1>1, <1>2, <1>3, <1>4, <1>5 DEF PageNext

\* The invariant of the page, for any number of players, any sizes, and events at any
\* rate: as long as one departure at a time waits in the queue, and no message of a player
\* waits behind the Join of one who leaves.
THEOREM PageInvariant ==
  ASSUME Faults \subseteq {"startAborts"}
  PROVE  PageSpec => []PageInv
<1>1. PageInv /\ [PageNext]_roomAndPage => PageInv'
  BY PageStepInv
<1> QED
  BY <1>1, PageInitInv, PTL DEF PageSpec

\* Screen, globe and queue stay within their types.
THEOREM PageTypeCorrect ==
  ASSUME Faults \subseteq {"startAborts"}
  PROVE  PageSpec => []PageTypeOK
<1>1. PageInv => PageTypeOK
  BY DEF PageInv
<1> QED
  BY <1>1, PageInvariant, PTL

\* The queue leads from the players on screen to those in the room.
LEMMA LobbyFollows ==
  ASSUME PageInv
  PROVE  ScreenFollowsRoom /\ MessagesNameTheirSender
<1>1. queue \in Seq(Entries)
  BY PageTyped DEF PageInv
<1>2. PICK L \in Nat : L = Len(queue)
  BY <1>1
<1>3. ASSUME session = "open"
      PROVE  /\ ShownAfter(L) = roster
             /\ \A n \in Positions("leave") : queue[n].player < Len(ShownAfter(n - 1))
             /\ \A n \in Positions("comment") :
                  /\ queue[n].player < Len(ShownAfter(n - 1))
                  /\ ShownAfter(n - 1)[queue[n].player + 1] = queue[n].by
  <2>1. PICK f : Leads(f, queue, shown) /\ Sound(f, queue) /\ f[L] = roster
    BY <1>2, <1>3 DEF PageInv, BySession, InLobby, Lobby
  <2>2. \A n \in 0..L : ShownAfter(n) = f[n]
    BY <1>1, <1>2, <2>1, ShownIsScreen
  <2>3. L \in 0..L /\ \A n \in 1..L : n - 1 \in 0..L
    BY <1>2
  <2>4. \A n \in 1..L : Meant(queue[n], ShownAfter(n - 1))
    BY <1>2, <2>1, <2>2, <2>3 DEF Sound
  <2> QED
    BY <1>2, <2>1, <2>2, <2>3, <2>4 DEF Meant, Positions
<1>4. GlobeFacesItsPlayer
  BY DEF PageInv
<1> QED
  BY <1>2, <1>3, <1>4 DEF ScreenFollowsRoom, MessagesNameTheirSender

\* However far the animation lags behind: once the queue has been shown the players on
\* screen are those of the room, in the order of their ids, no entry refers to a player
\* that is then not there, and the globe is turned to the player whose id it keeps.
THEOREM ScreenFollows ==
  ASSUME Faults \subseteq {"startAborts"}
  PROVE  PageSpec => []ScreenFollowsRoom
<1>1. PageInv => ScreenFollowsRoom
  BY LobbyFollows
<1> QED
  BY <1>1, PageInvariant, PTL

\* A message keeps its sender, however players come and go before it is shown.
THEOREM SendersKept ==
  ASSUME Faults \subseteq {"startAborts"}
  PROVE  PageSpec => []MessagesNameTheirSender
<1>1. PageInv => MessagesNameTheirSender
  BY LobbyFollows
<1> QED
  BY <1>1, PageInvariant, PTL

\* The numbers up to L.
LEMMA CountUpTo ==
  ASSUME NEW L \in Nat
  PROVE  Cardinality(1..L) = L
<1>1. L \in Int /\ 1 \in Int /\ (1 > L => L = 0)
  OBVIOUS
<1>2. Cardinality(1..L) = IF 1 > L THEN 0 ELSE L - 1 + 1
  BY <1>1, FS_Interval
<1> QED
  BY <1>1, <1>2

\* The invariant bounds the queue by kinds.
LEMMA InvFits ==
  ASSUME PageInv
  PROVE  QueueFits
<1>1. queue \in Seq(Entries) /\ \A type : Positions(type) = Of(queue, type)
  BY PageTyped DEF PageInv, Positions, Of
<1>2. MaxPlayers \in Nat /\ MaxPlayers >= 1 /\ MaxComments \in Nat
  BY PageAssumption
<1>3. Cardinality({}) = 0
  BY FS_EmptySet
<1>4. session \in {"none", "setup", "open", "started"}
  BY PageTyped DEF PageInv
<1>5. CASE session = "open"
  <2>1. Lobby(queue, shown, roster)
    BY <1>5 DEF PageInv, BySession, InLobby
  <2>2. /\ Cardinality(Positions("join")) <= MaxPlayers
        /\ Cardinality(Positions("leave")) <= 1
        /\ Cardinality(Positions("settings")) <= 1
        /\ Positions("start") = {}
    BY <1>1, <2>1, Sizes
  <2>3. Cardinality(Positions("comment")) <= MaxComments
    BY <1>1, <2>1 DEF Lobby
  <2>4. Cardinality(Positions("leave")) <= MaxPlayers
    <3>1. Cardinality(Positions("leave")) \in Nat
      BY <1>1, OfFinite
    <3> QED
      BY <1>2, <2>2, <3>1
  <2> QED
    BY <1>3, <2>2, <2>3, <2>4 DEF QueueFits, PageInv
<1>6. CASE session = "setup"
  <2>1. /\ roster \in Seq(People) /\ Len(queue) = Len(roster) /\ Len(roster) < MaxPlayers
        /\ \A n \in 1..Len(roster) : queue[n] = Join(roster[n])
    BY <1>6, PageTyped DEF PageInv, BySession, InSetup
  <2>2. \A n \in 1..Len(queue) : queue[n].type = "join"
    BY <2>1, EntryTyped
  <2>3. /\ Positions("join") = 1..Len(queue) /\ Positions("leave") = {} /\ Positions("comment") = {}
        /\ Positions("settings") = {} /\ Positions("start") = {}
    BY <2>2 DEF Positions
  <2>4. Cardinality(1..Len(queue)) = Len(queue)
    <3>1. Len(queue) \in Nat
      BY <1>1
    <3> QED
      BY <3>1, CountUpTo
  <2>5. Len(queue) <= MaxPlayers
    BY <1>1, <1>2, <2>1
  <2>6. 0 <= MaxPlayers /\ 0 <= MaxComments
    BY <1>2
  <2>7. /\ Cardinality(Positions("leave")) = 0 /\ Cardinality(Positions("comment")) = 0
        /\ Cardinality(Positions("settings")) = 0 /\ Cardinality(Positions("start")) = 0
    BY <1>3, <2>3
  <2>8. Cardinality(Positions("join")) = Len(queue)
    BY <2>3, <2>4
  <2> QED
    BY <2>5, <2>6, <2>7, <2>8 DEF QueueFits, PageInv
<1>7. CASE session \in {"none", "started"}
  <2>1. Len(queue) <= 1 /\ \A n \in 1..Len(queue) : queue[n].type = "start"
    <3>1. CASE session = "none"
      <4>1. queue = <<>>
        BY <3>1 DEF PageInv, BySession, AtRest
      <4> QED
        BY <4>1
    <3>2. CASE session = "started"
      BY <3>2 DEF PageInv, BySession, AtStart
    <3> QED
      BY <1>7, <3>1, <3>2
  <2>2. /\ Positions("join") = {} /\ Positions("leave") = {} /\ Positions("comment") = {}
        /\ Positions("settings") = {} /\ Positions("start") = 1..Len(queue)
    BY <2>1 DEF Positions
  <2>3. Cardinality(1..Len(queue)) = Len(queue)
    <3>1. Len(queue) \in Nat
      BY <1>1
    <3> QED
      BY <3>1, CountUpTo
  <2>4. 0 <= MaxPlayers /\ 0 <= MaxComments
    BY <1>2
  <2>5. /\ Cardinality(Positions("join")) = 0 /\ Cardinality(Positions("leave")) = 0
        /\ Cardinality(Positions("comment")) = 0 /\ Cardinality(Positions("settings")) = 0
    BY <1>3, <2>2
  <2>6. Cardinality(Positions("start")) = Len(queue)
    BY <2>2, <2>3
  <2> QED
    BY <2>1, <2>4, <2>5, <2>6 DEF QueueFits, PageInv
<1> QED
  BY <1>4, <1>5, <1>6, <1>7

\* No kind of entry exceeds its share of the queue, however many events arrive while one
\* is shown, provided that no two departures wait in it and no message is behind a
\* cancelled Join (the other Faults, which outgrow it at FriendRoomBackPage.cc:212).
THEOREM QueueIsLargeEnough ==
  ASSUME Faults \subseteq {"startAborts"}
  PROVE  PageSpec => []QueueFits
<1>1. PageInv => QueueFits
  BY InvFits
<1> QED
  BY <1>1, PageInvariant, PTL
-------------------------------------------------------------------------------
(***************************************************************************)
(* Voting                                                                  *)
(***************************************************************************)
\* The room has sent the outcome.
Ended == \E n \in 1..Len(events) : events[n].type = "info"
Pulses == IF Ended THEN Len(events) - 1 ELSE Len(events)

\* One pulse per counted vote, the outcome after all of them.
PulsesOnce ==
  \A m, n \in 1..Len(events) : events[m].type = "pulse" /\ events[n] = events[m] => m = n
InfoLast ==
  \A n \in 1..Len(events) : events[n].type = "info" => n = Len(events) /\ Counted = Players
PulsesCounted == Cardinality(Counted) = Pulses

EventsAt == PulsesOnce /\ InfoLast /\ PulsesCounted

\* The order of a console is the order of the pulses it has read.
Reading(c) ==
  /\ taken[c] <= Len(events)
  /\ drawn[c] = NoPlayer => /\ nextOrder[c] = taken[c]
                            /\ \A n \in 1..taken[c] : events[n].type = "pulse"
  /\ drawn[c] # NoPlayer => /\ taken[c] = Len(events) /\ taken[c] > 0
                            /\ events[taken[c]] = Info(drawn[c])

OrderRead(c) ==
  \A n \in 1..taken[c] : events[n].type = "pulse" => voteOrder[c][events[n].player] = n - 1

Outcome(c) == drawn[c] # NoPlayer => courseId[c] = vote[voteOrder[c][drawn[c]]]

\* The rows given so far are the first nextRow[c], one per processed vote.
RowsGiven(c) ==
  /\ page[c] \in {"room", "voting", "opened"} => processed[c] = {}
  /\ nextRow[c] = Cardinality(processed[c])
  /\ page[c] \in {"waiting"} \cup Turning =>
       /\ \A p \in Players : rowOf[c][p] # NoRow <=> p \in processed[c]
       /\ \A p \in processed[c] : rowOf[c][p] \in 0..(nextRow[c] - 1)
       /\ \A p, q \in processed[c] : rowOf[c][p] = rowOf[c][q] => p = q
       /\ \A r \in 0..(nextRow[c] - 1) : \E p \in processed[c] : rowOf[c][p] = r
  /\ page[c] \in Turning => processed[c] = Players

ScreenAt(c) == Reading(c) /\ OrderRead(c) /\ Outcome(c) /\ RowsGiven(c)

Inv == TypeOK /\ EventsAt /\ \A c \in Screens : ScreenAt(c)

EventSet == [type : {"pulse", "info"}, player : Players]

\* The constants, as the proofs use them.
LEMMA Facts ==
  /\ PlayerCount \in Nat /\ PlayerCount > 0 /\ Screens \subseteq Players
  /\ NoRow \notin Nat /\ NoPlayer \notin Players /\ NoCourse \notin Courses
  /\ \A p \in Players : p \in Nat /\ p < PlayerCount
  /\ \A n \in Nat : n < PlayerCount => n \in Players
BY VotingAssumption DEF Players

\* What counting sets of players comes to.
LEMMA CountFacts ==
  /\ IsFiniteSet(Players) /\ Cardinality(Players) = PlayerCount
  /\ \A S \in SUBSET Players :
       IsFiniteSet(S) /\ Cardinality(S) \in Nat /\ Cardinality(S) <= PlayerCount
  /\ \A S \in SUBSET Players, p \in Players :
       p \notin S => Cardinality(S \cup {p}) = Cardinality(S) + 1
<1>1. IsFiniteSet(Players) /\ Cardinality(Players) = PlayerCount
  BY FS_Interval, Facts DEF Players
<1>2. ASSUME NEW S \in SUBSET Players
      PROVE  IsFiniteSet(S) /\ Cardinality(S) \in Nat /\ Cardinality(S) <= PlayerCount
  BY <1>1, FS_Subset, FS_CardinalityType
<1>3. ASSUME NEW S \in SUBSET Players, NEW p \in Players, p \notin S
      PROVE  Cardinality(S \cup {p}) = Cardinality(S) + 1
  BY <1>2, <1>3, FS_AddElement
<1> QED
  BY <1>1, <1>2, <1>3

\* A set of players has a least one: the intervals up to its members have.
LEMMA LowestExists ==
  ASSUME NEW S \in SUBSET Players, S # {}
  PROVE  \E p \in S : \A q \in S : p <= q
<1> DEFINE T == {0..p : p \in S}
           O == StrictSubsetOrdering(Players)
<1>0. IsFiniteSet(Players)
  BY FS_Interval, Facts DEF Players
<1>1. IsWellFoundedOn(O, FiniteSubsetsOf(Players))
  BY FS_StrictSubsetOrderingWellFounded
<1>2. T \subseteq FiniteSubsetsOf(Players)
  <2>1. \A p \in S : 0..p \subseteq Players
    BY Facts DEF Players
  <2> QED
    BY <1>0, <2>1, FS_FiniteSubsetsOfFinite
<1>3. T # {}
  OBVIOUS
<1>4. PICK x \in T : \A y \in T : <<y, x>> \notin O
  <2> HIDE DEF T, O
  <2> QED
      BY <1>1, <1>2, <1>3, WFMin
<1>5. PICK p \in S : x = 0..p
  OBVIOUS
<1>6. ASSUME NEW q \in S
      PROVE  p <= q
  <2>1. CASE q < p
    <3>1. 0..q \subseteq 0..p /\ 0..q # 0..p /\ 0..p \subseteq Players
      BY <2>1, Facts DEF Players
    <3>2. <<0..q, 0..p>> \in O
      BY <3>1 DEF StrictSubsetOrdering
    <3> QED
      BY <1>4, <1>5, <3>2
  <2> QED
    BY <2>1, Facts DEF Players
<1> QED
  BY <1>6

\* No more pulses than players, and at most one event after them.
LEMMA PulseBound ==
  ASSUME TypeOK, EventsAt
  PROVE  /\ Len(events) \in Nat /\ Len(events) <= PlayerCount + 1
         /\ \A n \in 1..Len(events) :
              /\ events[n] \in EventSet
              /\ events[n].type = "pulse" => n <= PlayerCount /\ n - 1 \in Players
<1>1. events \in Seq(EventSet) /\ Len(events) \in Nat
  BY DEF TypeOK, EventSet
<1>2. Cardinality(Counted) \in Nat /\ Cardinality(Counted) <= PlayerCount
  BY CountFacts DEF Counted
<1>3. Pulses \in Int /\ Pulses <= PlayerCount /\ Len(events) <= Pulses + 1
  BY <1>1, <1>2 DEF EventsAt, PulsesCounted, Pulses
<1>4. ASSUME NEW n \in 1..Len(events)
      PROVE  /\ events[n] \in EventSet
             /\ events[n].type = "pulse" => n <= PlayerCount /\ n - 1 \in Players
  <2>1. events[n] \in EventSet
    BY <1>1, <1>4
  <2>2. events[n].type = "pulse" => n <= Pulses
    BY <1>1, <1>4 DEF EventsAt, InfoLast, Pulses, Ended
  <2> QED
    BY <1>3, <1>4, <2>1, <2>2, Facts
<1> QED
  BY <1>1, <1>3, <1>4, Facts

\* What counting a vote adds to the events.
LEMMA CountsFacts ==
  ASSUME TypeOK, EventsAt, NEW p \in Players, RoomCounts(p)
  PROVE  /\ ~Ended /\ p \notin Counted /\ Len(events) \in Nat
         /\ events' \in Seq(EventSet)
         /\ \A n \in 1..Len(events) : events'[n] = events[n]
         /\ \/ /\ Counted \cup {p} = Players /\ Len(events') = Len(events) + 2
               /\ events'[Len(events) + 1] = Pulse(p)
               /\ \E q \in Players : events'[Len(events) + 2] = Info(q)
            \/ /\ Counted \cup {p} # Players /\ Len(events') = Len(events) + 1
               /\ events'[Len(events) + 1] = Pulse(p)
<1>1. events \in Seq(EventSet) /\ Len(events) \in Nat
  BY DEF TypeOK, EventSet
<1>2. p \notin Counted /\ ~Ended
  BY DEF RoomCounts, EventsAt, InfoLast, Ended
<1>3. Pulse(p) \in EventSet
  BY DEF Pulse, EventSet
<1>4. CASE Counted \cup {p} = Players
  <2>1. PICK q \in Players : events' = events \o <<Pulse(p), Info(q)>>
    BY <1>4 DEF RoomCounts
  <2>2. Info(q) \in EventSet
    BY DEF Info, EventSet
  <2>3. <<Pulse(p), Info(q)>> \in Seq(EventSet)
    BY <1>3, <2>2
  <2>4. /\ events' \in Seq(EventSet) /\ Len(events') = Len(events) + 2
        /\ \A n \in 1..Len(events) : events'[n] = events[n]
        /\ events'[Len(events) + 1] = Pulse(p) /\ events'[Len(events) + 2] = Info(q)
    BY <1>1, <2>1, <2>3
  <2> QED
    BY <1>1, <1>2, <1>4, <2>4
<1>5. CASE Counted \cup {p} # Players
  <2>1. events' = Append(events, Pulse(p))
    BY <1>5 DEF RoomCounts
  <2>2. /\ events' \in Seq(EventSet) /\ Len(events') = Len(events) + 1
        /\ \A n \in 1..Len(events) : events'[n] = events[n]
        /\ events'[Len(events) + 1] = Pulse(p)
    BY <1>1, <1>3, <2>1
  <2> QED
    BY <1>1, <1>2, <1>5, <2>2
<1> QED
  BY <1>4, <1>5

\* The invariant holds at the start.
LEMMA InitInv == Init => Inv
<1> SUFFICES ASSUME Init
             PROVE  Inv
  OBVIOUS
<1>1. events = <<>> /\ Len(events) = 0 /\ Counted = {} /\ ~Ended
  BY DEF Init, Counted, Ended
<1>2. Cardinality({}) = 0
  BY FS_EmptySet
<1>3. TypeOK
  BY Facts DEF Init, TypeOK, Pages, Rows
<1>4. EventsAt
  BY <1>1, <1>2 DEF EventsAt, PulsesOnce, InfoLast, PulsesCounted, Pulses
<1>5. ASSUME NEW c \in Screens
      PROVE  ScreenAt(c)
  BY <1>1, <1>2, Facts
     DEF Init, ScreenAt, Reading, OrderRead, Outcome, RowsGiven, Turning
<1> QED
  BY <1>3, <1>4, <1>5 DEF Inv
-------------------------------------------------------------------------------
\* The room: its events grow, what was sent stays as it is.

\* Counting a vote keeps what is said of the events.
LEMMA RoomCountsEvents ==
  ASSUME TypeOK, EventsAt, NEW p \in Players, RoomCounts(p)
  PROVE  EventsAt'
<1>0. /\ Len(events) \in Nat /\ ~Ended /\ p \notin Counted
      /\ \A n \in 1..Len(events) : events'[n] = events[n]
      /\ events'[Len(events) + 1] = Pulse(p)
  BY CountsFacts
<1>1. \A n \in 1..Len(events) : events[n].type = "pulse" /\ events[n] # Pulse(p)
  <2>1. TAKE n \in 1..Len(events)
  <2>2. events[n] \in EventSet
    BY PulseBound
  <2> QED
    BY <1>0, <2>2 DEF Ended, EventSet, Counted
<1>2. Cardinality(Counted) = Len(events) /\ Cardinality(Counted \cup {p}) = Len(events) + 1
  BY <1>0, CountFacts DEF EventsAt, PulsesCounted, Pulses, Counted
<1>3. Pulse(p).type = "pulse" /\ \A q \in Players : Info(q).type = "info"
  BY DEF Pulse, Info
<1>4. CASE Counted \cup {p} = Players /\ Len(events') = Len(events) + 2
  <2>1. PICK q \in Players : events'[Len(events) + 2] = Info(q)
    BY <1>0, <1>4, CountsFacts
  <2>2. \A n \in 1..Len(events') : \/ n \in 1..Len(events)
                                   \/ n = Len(events) + 1 \/ n = Len(events) + 2
    BY <1>0, <1>4
  <2>3. \A n \in 1..Len(events') : events'[n].type = "info" <=> n = Len(events')
    BY <1>0, <1>1, <1>3, <1>4, <2>1, <2>2
  <2>4. Counted' = Players
    <3>1. ASSUME NEW r \in Counted
          PROVE  r \in Counted'
      BY <1>0, <1>4 DEF Counted, Pulse
    <3>2. p \in Counted'
      BY <1>0, <1>4 DEF Counted, Pulse
    <3> QED
      BY <1>4, <3>1, <3>2 DEF Counted
  <2>5. PulsesOnce'
    BY <1>0, <1>1, <1>3, <2>1, <2>2, EventsAt DEF EventsAt, PulsesOnce
  <2>6. InfoLast'
    BY <2>3, <2>4 DEF InfoLast
  <2>7. Ended' /\ Pulses' = Len(events')  - 1
    BY <1>0, <1>4, <2>3 DEF Ended, Pulses
  <2>8. PulsesCounted'
    BY <1>0, <1>2, <1>4, <2>4, <2>7 DEF PulsesCounted
  <2> QED
    BY <2>5, <2>6, <2>8 DEF EventsAt
<1>5. CASE Counted \cup {p} # Players /\ Len(events') = Len(events) + 1
  <2>2. \A n \in 1..Len(events') : n \in 1..Len(events) \/ n = Len(events) + 1
    BY <1>0, <1>5
  <2>3. \A n \in 1..Len(events') : events'[n].type = "pulse"
    BY <1>0, <1>1, <1>3, <2>2
  <2>4. Counted' = Counted \cup {p}
    <3>1. ASSUME NEW r \in Counted \cup {p}
          PROVE  r \in Counted'
      BY <1>0, <1>5 DEF Counted, Pulse
    <3>2. ASSUME NEW r \in Counted'
          PROVE  r \in Counted \cup {p}
      <4>1. PICK n \in 1..Len(events') : events'[n] = Pulse(r)
        BY DEF Counted
      <4> QED
        BY <1>0, <2>2, <4>1 DEF Counted, Pulse
    <3> QED
      BY <3>1, <3>2
  <2>5. PulsesOnce'
    BY <1>0, <1>1, <1>3, <2>2, EventsAt DEF EventsAt, PulsesOnce
  <2>6. InfoLast'
    BY <2>3 DEF InfoLast
  <2>7. ~Ended' /\ Pulses' = Len(events')
    BY <2>3 DEF Ended, Pulses
  <2>8. PulsesCounted'
    BY <1>2, <1>5, <2>4, <2>7 DEF PulsesCounted
  <2> QED
    BY <2>5, <2>6, <2>8 DEF EventsAt
<1> QED
  BY <1>4, <1>5, CountsFacts

\* Counting a vote changes nothing a console has read.
LEMMA RoomCountsScreens ==
  ASSUME Inv, NEW p \in Players, RoomCounts(p), NEW c \in Screens
  PROVE  ScreenAt(c)'
<1>0. TypeOK /\ EventsAt /\ Reading(c) /\ OrderRead(c) /\ Outcome(c) /\ RowsGiven(c)
  BY DEF Inv, ScreenAt
<1>1. /\ ~Ended /\ Len(events) \in Nat /\ Len(events') \in Nat /\ Len(events) < Len(events')
      /\ \A n \in 1..Len(events) : events'[n] = events[n]
  BY <1>0, CountsFacts
<1>2. UNCHANGED <<vote, clientVars, page, rouletteVars, outcomeVars>>
  BY DEF RoomCounts
<1>3. taken[c] \in Nat
  BY <1>0, Facts DEF TypeOK
<1>4. drawn[c] = NoPlayer
  <2> SUFFICES ASSUME drawn[c] # NoPlayer
               PROVE  FALSE
    OBVIOUS
  <2>1. taken[c] \in 1..Len(events) /\ events[taken[c]] = Info(drawn[c])
    BY <1>0, <1>1, <1>3 DEF Reading
  <2> QED
    BY <1>1, <2>1 DEF Ended, Info
<1>5. Reading(c)' /\ OrderRead(c)' /\ Outcome(c)'
  <2>1. UNCHANGED <<vote, taken, voteOrder, nextOrder, drawn, courseId>>
    BY <1>2 DEF clientVars, outcomeVars
  <2>2. \A n \in 1..taken[c] : n \in 1..Len(events) /\ events'[n] = events[n]
    BY <1>0, <1>1, <1>3 DEF Reading
  <2>3. Reading(c)'
    BY <1>0, <1>1, <1>3, <1>4, <2>1, <2>2 DEF Reading
  <2>4. OrderRead(c)'
    BY <1>0, <2>1, <2>2 DEF OrderRead
  <2>5. Outcome(c)'
    BY <1>4, <2>1 DEF Outcome
  <2> QED
    BY <2>3, <2>4, <2>5
<1>6. RowsGiven(c)'
  BY <1>0, <1>2 DEF RowsGiven, rouletteVars
<1> QED
  BY <1>5, <1>6 DEF ScreenAt
-------------------------------------------------------------------------------
\* The types, action by action.

\* Counting a vote keeps the types.
LEMMA RoomCountsTypes ==
  ASSUME TypeOK, EventsAt, NEW p \in Players, RoomCounts(p)
  PROVE  TypeOK'
<1>1. events' \in Seq(EventSet)
  BY CountsFacts
<1> QED
  BY <1>1
     DEF RoomCounts, TypeOK, EventSet, Rows, clientVars, rouletteVars, outcomeVars

\* What a console finds in the next event.
LEMMA EventFacts ==
  ASSUME TypeOK, EventsAt, NEW c \in Screens, NEW t, Reads(c, t)
  PROVE  /\ taken[c] \in Nat /\ taken[c] + 1 \in 1..Len(events)
         /\ Event(c) = events[taken[c] + 1] /\ Event(c) \in EventSet /\ Event(c).type = t
         /\ taken[c] + 1 <= PlayerCount + 1
         /\ t = "pulse" => taken[c] + 1 <= PlayerCount /\ taken[c] \in Players
         /\ taken' = [taken EXCEPT ![c] = taken[c] + 1]
<1>1. taken[c] \in Nat /\ taken[c] < Len(events) /\ Len(events) \in Nat
  BY Facts DEF TypeOK, Reads
<1>2. taken[c] + 1 \in 1..Len(events)
  BY <1>1
<1>3. PICK n \in 1..Len(events) : n = taken[c] + 1
  BY <1>2
<1>4. events[n] \in EventSet /\ (events[n].type = "pulse" => n <= PlayerCount /\ n - 1 \in Players)
  BY PulseBound
<1>5. n - 1 = taken[c]
  BY <1>1, <1>3
<1> QED
  BY <1>1, <1>2, <1>3, <1>4, <1>5, PulseBound, Facts DEF Reads, Event

\* A console that still reads has not seen the outcome.
LEMMA Undrawn ==
  ASSUME TypeOK, NEW c \in Screens, Reading(c), NEW t, Reads(c, t)
  PROVE  drawn[c] = NoPlayer /\ nextOrder[c] = taken[c]
BY Facts DEF TypeOK, Reads, Reading

\* Reading a pulse keeps the types.
LEMMA PulseArrivesTypes ==
  ASSUME TypeOK, EventsAt, NEW c \in Screens, Reading(c), PulseArrives(c)
  PROVE  TypeOK'
<1>1. /\ Event(c).player \in Players /\ taken[c] \in Players
      /\ taken[c] + 1 \in 0..PlayerCount /\ taken[c] + 1 \in 0..(PlayerCount + 1)
      /\ taken' = [taken EXCEPT ![c] = taken[c] + 1]
      /\ nextOrder[c] = taken[c]
  BY EventFacts, Undrawn, Facts DEF PulseArrives, EventSet
<1>2. /\ voteOrder' \in [Screens -> [Players -> Rows]]
      /\ nextOrder' \in [Screens -> 0..PlayerCount]
      /\ taken' \in [Screens -> 0..(PlayerCount + 1)]
  BY <1>1 DEF PulseArrives, TypeOK, Rows
<1>3. selected' \in [Screens -> SUBSET Players]
  BY <1>1 DEF PulseArrives, TypeOK
<1> QED
  BY <1>2, <1>3 DEF PulseArrives, TypeOK, Rows, roomVars, rouletteVars, outcomeVars

\* Reading the outcome keeps the types.
LEMMA InfoArrivesTypes ==
  ASSUME TypeOK, EventsAt, NEW c \in Screens, InfoArrives(c)
  PROVE  TypeOK'
<1>1. /\ Event(c).player \in Players /\ taken[c] + 1 \in 0..(PlayerCount + 1)
      /\ taken' = [taken EXCEPT ![c] = taken[c] + 1]
  BY EventFacts, Facts DEF InfoArrives, EventSet
<1>2. CourseVotes(c) \in [Players -> Courses \cup {NoCourse}]
  BY DEF CourseVotes, TypeOK
<1>3. /\ courseVotes' \in [Screens -> [Players -> Courses \cup {NoCourse}]]
      /\ courseVotes'[c] = CourseVotes(c)
  BY <1>2 DEF InfoArrives, TypeOK
<1>4. courseVotes'[c][Event(c).player] \in Courses \cup {NoCourse}
  BY <1>1, <1>2, <1>3
<1>5. courseId' \in [Screens -> Courses \cup {NoCourse}]
  BY <1>4 DEF InfoArrives, TypeOK
<1>6. drawn' \in [Screens -> Players \cup {NoPlayer}]
  BY <1>1 DEF InfoArrives, TypeOK
<1>7. taken' \in [Screens -> 0..(PlayerCount + 1)]
  BY <1>1 DEF TypeOK
<1> QED
  BY <1>3, <1>5, <1>6, <1>7 DEF InfoArrives, TypeOK, Rows, roomVars, rouletteVars

\* Turning a page keeps the types.
LEMMA PageTypes ==
  ASSUME TypeOK, NEW c \in Screens,
         OpenVoting(c) \/ OpenRoulette(c) \/ BeforeInAnim(c)
           \/ WaitForVotes(c) \/ Decide(c) \/ StartRace(c)
  PROVE  TypeOK'
<1> USE DEF TypeOK, Turn, Pages, Rows, roomVars, clientVars, rouletteVars, outcomeVars
<1>1. CASE OpenVoting(c)
  BY <1>1 DEF OpenVoting
<1>2. CASE OpenRoulette(c)
  BY <1>2 DEF OpenRoulette
<1>3. CASE BeforeInAnim(c)
  BY <1>3, Facts DEF BeforeInAnim
<1>4. CASE WaitForVotes(c)
  BY <1>4 DEF WaitForVotes, CalcElements
<1>5. CASE Decide(c)
  BY <1>5 DEF Decide
<1>6. CASE StartRace(c)
  BY <1>6 DEF StartRace
<1> QED
  BY <1>1, <1>2, <1>3, <1>4, <1>5, <1>6

\* The vote that is shown, and how many there are then.
LEMMA ShowFacts ==
  ASSUME TypeOK, NEW c \in Screens, RowsGiven(c), ShowVote(c)
  PROVE  \E p \in Players :
           /\ p \notin processed[c] /\ rowOf[c][p] = NoRow
           /\ rowOf' = [rowOf EXCEPT ![c][p] = nextRow[c]]
           /\ processed' = [processed EXCEPT ![c] = processed[c] \cup {p}]
           /\ nextRow[c] \in Players /\ nextRow[c] + 1 \in 0..PlayerCount
           /\ nextRow[c] + 1 = Cardinality(processed[c] \cup {p})
           /\ nextRow' = [nextRow EXCEPT ![c] = nextRow[c] + 1]
<1>1. selected[c] \subseteq Players /\ processed[c] \subseteq Players
  BY DEF TypeOK
<1>2. Lowest(selected[c] \ processed[c]) \in selected[c] \ processed[c]
  <2>1. PICK p \in selected[c] \ processed[c] : \A q \in selected[c] \ processed[c] : p <= q
    BY <1>1, LowestExists DEF ShowVote
  <2> QED
    BY <2>1 DEF Lowest
<1>3. PICK p \in Players : p = Lowest(selected[c] \ processed[c]) /\ p \notin processed[c]
  BY <1>1, <1>2
<1>4. page[c] = "waiting" /\ rowOf[c][p] = NoRow
  BY <1>3 DEF ShowVote, RowsGiven
<1>5. /\ rowOf' = [rowOf EXCEPT ![c][p] = nextRow[c]]
      /\ processed' = [processed EXCEPT ![c] = processed[c] \cup {p}]
      /\ nextRow' = [nextRow EXCEPT ![c] = nextRow[c] + 1]
  BY <1>3, <1>4 DEF ShowVote
<1>6. nextRow[c] + 1 = Cardinality(processed[c] \cup {p})
  BY <1>1, <1>3, CountFacts DEF RowsGiven
<1>7. nextRow[c] \in Players /\ nextRow[c] + 1 \in 0..PlayerCount
  <2>1. nextRow[c] \in Nat
    BY Facts DEF TypeOK
  <2>2. processed[c] \cup {p} \in SUBSET Players
    BY <1>1
  <2>3. Cardinality(processed[c] \cup {p}) <= PlayerCount
    BY <2>2, CountFacts
  <2> QED
    BY <1>6, <2>1, <2>3, Facts
<1> QED
  BY <1>3, <1>4, <1>5, <1>6, <1>7, Zenon

\* Showing a vote keeps the types: its row is one of the rows there are.
LEMMA ShowVoteTypes ==
  ASSUME TypeOK, NEW c \in Screens, RowsGiven(c), ShowVote(c)
  PROVE  TypeOK'
<1>1. PICK p \in Players :
        /\ p \notin processed[c] /\ rowOf[c][p] = NoRow
        /\ rowOf' = [rowOf EXCEPT ![c][p] = nextRow[c]]
        /\ processed' = [processed EXCEPT ![c] = processed[c] \cup {p}]
        /\ nextRow[c] \in Players /\ nextRow[c] + 1 \in 0..PlayerCount
        /\ nextRow' = [nextRow EXCEPT ![c] = nextRow[c] + 1]
  BY ShowFacts
<1>2. rowOf' \in [Screens -> [Players -> Rows]]
  BY <1>1 DEF TypeOK, Rows
<1>3. processed' \in [Screens -> SUBSET Players] /\ nextRow' \in [Screens -> 0..PlayerCount]
  BY <1>1 DEF TypeOK
<1>4. page' \in [Screens -> Pages]
  BY DEF ShowVote, CalcElements, TypeOK, Pages
<1> QED
  BY <1>2, <1>3, <1>4 DEF ShowVote, TypeOK, Rows, roomVars, clientVars, outcomeVars
-------------------------------------------------------------------------------
\* A screen a step does not touch, in what it has read or in the rows it shows.
SameReading(c) ==
  /\ UNCHANGED <<vote, events>>
  /\ taken'[c] = taken[c] /\ voteOrder'[c] = voteOrder[c] /\ nextOrder'[c] = nextOrder[c]
  /\ drawn'[c] = drawn[c] /\ courseId'[c] = courseId[c]
SameRows(c) ==
  /\ page'[c] = page[c] /\ rowOf'[c] = rowOf[c]
  /\ processed'[c] = processed[c] /\ nextRow'[c] = nextRow[c]

\* What a console has read is untouched where the variables of it are.
LEMMA ReadingKept ==
  ASSUME NEW c \in Screens, Reading(c), OrderRead(c), Outcome(c), SameReading(c)
  PROVE  Reading(c)' /\ OrderRead(c)' /\ Outcome(c)'
BY DEF Reading, OrderRead, Outcome, SameReading

\* The rows given are untouched where the variables of them are.
LEMMA RowsKept ==
  ASSUME NEW c \in Screens, RowsGiven(c), SameRows(c)
  PROVE  RowsGiven(c)'
BY DEF RowsGiven, SameRows

\* The events are as they were while the room does nothing.
LEMMA EventsKept ==
  ASSUME EventsAt, UNCHANGED events
  PROVE  EventsAt'
BY DEF EventsAt, PulsesOnce, InfoLast, PulsesCounted, Counted, Pulses, Ended

\* Reading a pulse records its place in the order.
LEMMA PulseArrivesReading ==
  ASSUME TypeOK, EventsAt, NEW c \in Screens, ScreenAt(c), PulseArrives(c)
  PROVE  Reading(c)' /\ OrderRead(c)' /\ Outcome(c)'
<1>0. TypeOK /\ EventsAt /\ Reading(c) /\ OrderRead(c)
  BY DEF ScreenAt
<1>1. PICK t \in Nat : t = taken[c]
  BY <1>0, EventFacts DEF PulseArrives
<1>2. PICK e \in EventSet : e = events[t + 1] /\ e = Event(c) /\ e.type = "pulse"
  BY <1>0, <1>1, EventFacts DEF PulseArrives
<1>3. /\ t + 1 \in 1..Len(events) /\ taken'[c] = t + 1
      /\ drawn[c] = NoPlayer /\ nextOrder[c] = t
  BY <1>0, <1>1, EventFacts, Undrawn DEF PulseArrives, TypeOK
<1>4. /\ UNCHANGED <<vote, events>> /\ drawn'[c] = NoPlayer
      /\ nextOrder'[c] = t + 1
      /\ \A p \in Players : voteOrder'[c][p] = IF p = e.player THEN t ELSE voteOrder[c][p]
  BY <1>2, <1>3 DEF PulseArrives, TypeOK, roomVars, outcomeVars
<1>5. \A n \in 1..t : events[n].type = "pulse" /\ voteOrder[c][events[n].player] = n - 1
  BY <1>0, <1>1, <1>3 DEF Reading, OrderRead
<1>6. \A n \in 1..t : events[n].player \in Players /\ events[n].player # e.player
  <2>1. TAKE n \in 1..t
  <2>2. n \in 1..Len(events) /\ n # t + 1
    BY <1>0, <1>3, PulseBound
  <2>3. events[n] \in EventSet
    BY <1>0, <2>2, PulseBound
  <2>4. events[n].player = e.player => events[n] = e
    BY <1>2, <1>5, <2>3 DEF EventSet
  <2> QED
    BY <1>0, <1>2, <1>3, <2>2, <2>3, <2>4 DEF EventsAt, PulsesOnce, EventSet
<1>7. \A n \in 1..(t + 1) : n \in 1..t \/ n = t + 1
  BY <1>1
<1>8. Reading(c)'
  <2>1. t + 1 <= Len(events')
    BY <1>0, <1>3, <1>4, PulseBound
  <2>2. \A n \in 1..(t + 1) : events'[n].type = "pulse"
    BY <1>2, <1>4, <1>5, <1>7
  <2> QED
    BY <1>3, <1>4, <2>1, <2>2 DEF Reading
<1>9. OrderRead(c)'
  <2>1. \A n \in 1..t : voteOrder'[c][events'[n].player] = n - 1
    BY <1>4, <1>5, <1>6
  <2>2. voteOrder'[c][events'[t + 1].player] = t
    BY <1>2, <1>4 DEF EventSet
  <2> QED
    BY <1>3, <1>7, <2>1, <2>2 DEF OrderRead
<1> QED
  BY <1>4, <1>8, <1>9 DEF Outcome

\* The outcome is read after every pulse.
LEMMA InfoArrivesReading ==
  ASSUME TypeOK, EventsAt, NEW c \in Screens, ScreenAt(c), InfoArrives(c)
  PROVE  Reading(c)' /\ OrderRead(c)' /\ Outcome(c)'
<1>0. TypeOK /\ EventsAt /\ Reading(c) /\ OrderRead(c)
  BY DEF ScreenAt
<1>1. PICK t \in Nat : t = taken[c]
  BY <1>0, EventFacts DEF InfoArrives
<1>2. PICK e \in EventSet : e = events[t + 1] /\ e = Event(c) /\ e.type = "info"
  BY <1>0, <1>1, EventFacts DEF InfoArrives
<1>3. PICK q \in Players : q = e.player /\ e = Info(q)
  BY <1>2 DEF EventSet, Info
<1>4. t + 1 \in 1..Len(events) /\ taken'[c] = t + 1
  BY <1>0, <1>1, EventFacts DEF InfoArrives, TypeOK
<1>5. t + 1 = Len(events) /\ Counted = Players
  BY <1>0, <1>2, <1>4 DEF EventsAt, InfoLast
<1>6. /\ UNCHANGED <<vote, events, voteOrder>> /\ drawn'[c] = q
      /\ courseId'[c] = courseVotes'[c][q] /\ courseVotes'[c] = CourseVotes(c)
  BY <1>2, <1>3 DEF InfoArrives, TypeOK, roomVars
<1>7. PICK n \in 1..Len(events) : events[n] = Pulse(q)
  BY <1>5 DEF Counted
<1>8. n \in 1..t /\ events[n].type = "pulse" /\ events[n].player = q /\ n - 1 \in Players
  <2>1. events[n].type = "pulse" /\ events[n].player = q
    BY <1>7 DEF Pulse
  <2>2. n # t + 1
    BY <1>2, <2>1
  <2>3. n \in 1..t
    BY <1>1, <1>5, <2>2
  <2> QED
    BY <1>0, <2>1, <2>3, PulseBound
<1>9. voteOrder[c][q] = n - 1
  BY <1>0, <1>1, <1>8 DEF OrderRead
<1>10. Outcome(c)'
  <2>1. CourseVotes(c)[q] = vote[voteOrder[c][q]]
    BY <1>8, <1>9 DEF CourseVotes
  <2> QED
    BY <1>6, <2>1 DEF Outcome
<1>11. Reading(c)'
  <2>1. q # NoPlayer /\ t + 1 = Len(events') /\ t + 1 > 0
    BY <1>1, <1>5, <1>6, Facts
  <2>2. events'[t + 1] = [type |-> "info", player |-> q]
    BY <1>2, <1>3, <1>6 DEF Info
  <2>3. taken'[c] = t + 1 /\ drawn'[c] = q
    BY <1>4, <1>6
  <2> QED
    BY <2>1, <2>2, <2>3 DEF Reading, Info
<1>12. OrderRead(c)'
  <2>1. \A m \in 1..(t + 1) : m \in 1..t \/ m = t + 1
    BY <1>1
  <2> QED
    BY <1>0, <1>1, <1>2, <1>4, <1>6, <2>1 DEF OrderRead
<1> QED
  BY <1>10, <1>11, <1>12
-------------------------------------------------------------------------------
\* The rows, action by action.

\* Reading events leaves the rows alone.
LEMMA EventsLeaveRows ==
  ASSUME NEW c \in Screens, NEW d \in Screens, RowsGiven(d),
         PulseArrives(c) \/ InfoArrives(c)
  PROVE  RowsGiven(d)'
BY RowsKept DEF PulseArrives, InfoArrives, SameRows, rouletteVars

\* The pages leave what was read alone.
LEMMA PagesLeaveReading ==
  ASSUME NEW c \in Screens, NEW d \in Screens, Reading(d), OrderRead(d), Outcome(d),
         OpenVoting(c) \/ PageCalc(c) \/ ShowVote(c)
  PROVE  Reading(d)' /\ OrderRead(d)' /\ Outcome(d)'
BY ReadingKept
   DEF SameReading, OpenVoting, PageCalc, OpenRoulette, BeforeInAnim, WaitForVotes,
       Decide, StartRace, ShowVote, roomVars, clientVars, outcomeVars

\* Turning a page gives no row.
LEMMA PageRows ==
  ASSUME TypeOK, NEW c \in Screens, RowsGiven(c), OpenVoting(c) \/ PageCalc(c)
  PROVE  RowsGiven(c)'
<1> USE DEF RowsGiven, Turning
<1>1. page \in [Screens -> Pages] /\ rowOf \in [Screens -> [Players -> Rows]]
  BY DEF TypeOK
<1>2. CASE OpenVoting(c)
  BY <1>1, <1>2 DEF OpenVoting, Turn, rouletteVars
<1>3. CASE OpenRoulette(c)
  BY <1>1, <1>3 DEF OpenRoulette, Turn
<1>4. CASE BeforeInAnim(c)
  <2>1. processed[c] = {} /\ nextRow[c] = 0
    BY <1>4, FS_EmptySet DEF BeforeInAnim, Turn
  <2>2. /\ processed'[c] = {} /\ nextRow'[c] = 0 /\ page'[c] = "waiting"
        /\ \A p \in Players : rowOf'[c][p] = NoRow
    BY <1>1, <1>4, <2>1 DEF BeforeInAnim, Turn
  <2> QED
    BY <2>1, <2>2, FS_EmptySet
<1>5. CASE WaitForVotes(c)
  <2>1. /\ UNCHANGED <<rowOf, processed, nextRow>> /\ page[c] = "waiting"
        /\ page'[c] = "waiting" \/ (page'[c] = "selecting" /\ AllShown(c))
    BY <1>1, <1>5 DEF WaitForVotes, CalcElements
  <2>2. AllShown(c) => processed[c] = Players
    BY <2>1 DEF AllShown, TypeOK
  <2> QED
    BY <2>1, <2>2
<1>6. CASE Decide(c) \/ StartRace(c)
  BY <1>1, <1>6 DEF Decide, StartRace, Turn, rouletteVars
<1> QED
  BY <1>2, <1>3, <1>4, <1>5, <1>6 DEF PageCalc

\* Showing a vote gives the next row to a player that had none.
LEMMA ShowVoteRows ==
  ASSUME TypeOK, NEW c \in Screens, RowsGiven(c), ShowVote(c)
  PROVE  RowsGiven(c)'
<1>1. PICK p \in Players :
        /\ p \notin processed[c] /\ rowOf[c][p] = NoRow
        /\ rowOf' = [rowOf EXCEPT ![c][p] = nextRow[c]]
        /\ processed' = [processed EXCEPT ![c] = processed[c] \cup {p}]
        /\ nextRow[c] \in Players /\ nextRow[c] + 1 \in 0..PlayerCount
        /\ nextRow[c] + 1 = Cardinality(processed[c] \cup {p})
        /\ nextRow' = [nextRow EXCEPT ![c] = nextRow[c] + 1]
  BY ShowFacts
<1>2. PICK k \in Nat : k = nextRow[c]
  BY <1>1, Facts
<1>3. /\ nextRow'[c] = k + 1 /\ processed'[c] = processed[c] \cup {p}
      /\ rowOf'[c][p] = k /\ rowOf[c] \in [Players -> Rows]
      /\ \A q \in Players : q # p => rowOf'[c][q] = rowOf[c][q]
      /\ processed[c] \subseteq Players
  BY <1>1, <1>2 DEF TypeOK
<1>4. /\ page[c] = "waiting"
      /\ page'[c] = "waiting" \/ (page'[c] = "selecting" /\ AllShown(c))
  BY DEF ShowVote, CalcElements, TypeOK
<1>5. /\ \A q \in Players : rowOf[c][q] # NoRow <=> q \in processed[c]
      /\ \A q \in processed[c] : rowOf[c][q] \in 0..(k - 1)
      /\ \A q, r \in processed[c] : rowOf[c][q] = rowOf[c][r] => q = r
      /\ \A r \in 0..(k - 1) : \E q \in processed[c] : rowOf[c][q] = r
  BY <1>2, <1>4 DEF RowsGiven, Turning
<1>6. \A q \in Players : rowOf'[c][q] # NoRow <=> q \in processed'[c]
  BY <1>1, <1>3, <1>5, Facts
<1>7. \A q \in processed[c] : q # p /\ rowOf'[c][q] = rowOf[c][q]
  BY <1>1, <1>3
<1>8. \A q \in processed'[c] : rowOf'[c][q] \in 0..k
  BY <1>2, <1>3, <1>5, <1>7
<1>9. \A q \in processed[c] : rowOf'[c][q] # k
  BY <1>2, <1>5, <1>7
<1>10. \A q, r \in processed'[c] : rowOf'[c][q] = rowOf'[c][r] => q = r
  BY <1>3, <1>5, <1>7, <1>9
<1>11. \A r \in 0..k : \E q \in processed'[c] : rowOf'[c][q] = r
  <2>1. \A r \in 0..k : r \in 0..(k - 1) \/ r = k
    BY <1>2
  <2> QED
    BY <1>3, <1>5, <1>7, <2>1
<1>12. AllShown(c) => processed'[c] = Players
  BY <1>1, <1>3, <1>6 DEF AllShown
<1>13. nextRow'[c] - 1 = k
  BY <1>2, <1>3
<1>14. nextRow'[c] = Cardinality(processed'[c])
  <2>1. k + 1 = Cardinality(processed[c] \cup {p})
    BY <1>1, <1>2
  <2> QED
    BY <1>3, <2>1
<1> QED
  BY <1>4, <1>6, <1>8, <1>10, <1>11, <1>12, <1>13, <1>14 DEF RowsGiven, Turning

\* What a step of one console leaves alone on another.
LEMMA OthersKept ==
  ASSUME Inv, NEW c \in Screens, NEW d \in Screens, c # d,
         PulseArrives(c) \/ InfoArrives(c) \/ OpenVoting(c) \/ PageCalc(c) \/ ShowVote(c)
  PROVE  ScreenAt(d)'
<1>1. Reading(d) /\ OrderRead(d) /\ Outcome(d) /\ RowsGiven(d) /\ TypeOK
  BY DEF Inv, ScreenAt
<1>2. SameReading(d)
  BY <1>1
     DEF SameReading, PulseArrives, InfoArrives, Reads, OpenVoting, PageCalc, OpenRoulette,
         BeforeInAnim, WaitForVotes, Decide, StartRace, ShowVote, TypeOK,
         roomVars, clientVars, outcomeVars
<1>3. SameRows(d)
  BY <1>1
     DEF SameRows, PulseArrives, InfoArrives, OpenVoting, PageCalc, OpenRoulette,
         BeforeInAnim, WaitForVotes, Decide, StartRace, ShowVote, CalcElements, Turn, TypeOK,
         rouletteVars
<1> QED
  BY <1>1, <1>2, <1>3, ReadingKept, RowsKept DEF ScreenAt
-------------------------------------------------------------------------------
\* Every step keeps the invariant.
LEMMA StepInv == Inv /\ [Next]_vars => Inv'
<1> SUFFICES ASSUME Inv, [Next]_vars
             PROVE  Inv'
  OBVIOUS
<1>0. /\ TypeOK /\ EventsAt
      /\ \A c \in Screens :
           ScreenAt(c) /\ Reading(c) /\ OrderRead(c) /\ Outcome(c) /\ RowsGiven(c)
  BY DEF Inv, ScreenAt
<1>1. ASSUME NEW p \in Players, RoomCounts(p)
      PROVE  Inv'
  BY <1>0, <1>1, RoomCountsTypes, RoomCountsEvents, RoomCountsScreens DEF Inv
<1>2. ASSUME NEW c \in Screens, PulseArrives(c) \/ InfoArrives(c)
      PROVE  Inv'
  <2>1. TypeOK'
    BY <1>0, <1>2, PulseArrivesTypes, InfoArrivesTypes
  <2>2. EventsAt'
    BY <1>0, <1>2, EventsKept DEF PulseArrives, InfoArrives, roomVars
  <2>3. ScreenAt(c)'
    BY <1>0, <1>2, PulseArrivesReading, InfoArrivesReading, EventsLeaveRows DEF ScreenAt
  <2>4. \A d \in Screens : ScreenAt(d)'
    BY <1>2, <2>3, OthersKept
  <2> QED
    BY <2>1, <2>2, <2>4 DEF Inv
<1>3. ASSUME NEW c \in Screens, OpenVoting(c) \/ PageCalc(c) \/ ShowVote(c)
      PROVE  Inv'
  <2>1. TypeOK'
    BY <1>0, <1>3, PageTypes, ShowVoteTypes DEF PageCalc
  <2>2. EventsAt'
    BY <1>0, <1>3, EventsKept
       DEF OpenVoting, PageCalc, OpenRoulette, BeforeInAnim, WaitForVotes,
           Decide, StartRace, ShowVote, roomVars
  <2>3. ScreenAt(c)'
    BY <1>0, <1>3, PagesLeaveReading, PageRows, ShowVoteRows DEF ScreenAt
  <2>4. \A d \in Screens : ScreenAt(d)'
    BY <1>3, <2>3, OthersKept
  <2> QED
    BY <2>1, <2>2, <2>4 DEF Inv
<1>4. CASE UNCHANGED vars
  <2>1. TypeOK'
    BY <1>0, <1>4
       DEF TypeOK, Rows, vars, roomVars, clientVars, rouletteVars, outcomeVars
  <2>2. EventsAt'
    BY <1>0, <1>4, EventsKept DEF vars, roomVars
  <2>3. \A c \in Screens : SameReading(c) /\ SameRows(c)
    BY <1>4 DEF SameReading, SameRows, vars, roomVars, clientVars, rouletteVars, outcomeVars
  <2> QED
    BY <1>0, <2>1, <2>2, <2>3, ReadingKept, RowsKept DEF Inv, ScreenAt
<1> QED
  BY <1>1, <1>2, <1>3, <1>4 DEF Next

\* So the invariant always holds.
LEMMA Invariance == Spec => []Inv
BY InitInv, StepInv, PTL DEF Spec

\* The variables stay in their types: a row is never given past the last, and no
\* console reads more events than there can be.
THEOREM VotingTypeCorrect == Spec => []TypeOK
<1>1. Inv => TypeOK
  BY DEF Inv
<1> QED
  BY <1>1, Invariance, PTL

\* Every vote gets a row of its own, and the roulette turns over exactly those
\* rows: RoulettePage::calcPlayer, for any number of players.
THEOREM OneRowEach == Spec => []OneRowPerVote
<1>1. Inv => OneRowPerVote
  <2> SUFFICES ASSUME Inv, NEW c \in Screens, page[c] \in {"waiting"} \cup Turning
               PROVE  /\ \A p, q \in processed[c] : rowOf[c][p] = rowOf[c][q] => p = q
                      /\ page[c] \in Turning =>
                           {rowOf[c][p] : p \in Players} = 0..(nextRow[c] - 1)
    BY DEF OneRowPerVote
  <2> QED
    BY DEF Inv, ScreenAt, RowsGiven
<1> QED
  BY <1>1, Invariance, PTL

\* Any number of consoles that know the outcome race on the same course, one that
\* was voted for: VotingBackPage::onReceiveInfo.
THEOREM SameRace == Spec => []AllRaceTheSame
<1>1. Inv => AllRaceTheSame
  <2> SUFFICES ASSUME Inv, NEW c \in Screens, NEW d \in Screens,
                      drawn[c] # NoPlayer, drawn[d] # NoPlayer
               PROVE  courseId[c] = courseId[d] /\ \E p \in Players : courseId[c] = vote[p]
    BY DEF AllRaceTheSame
  <2>1. TypeOK /\ EventsAt /\ ScreenAt(c) /\ ScreenAt(d)
    BY DEF Inv
  <2>2. PICK l \in Nat : /\ l = Len(events) /\ l > 0
                         /\ taken[c] = l /\ taken[d] = l
                         /\ events[l] = Info(drawn[c]) /\ events[l] = Info(drawn[d])
    BY <2>1, PulseBound DEF ScreenAt, Reading
  <2>3. PICK q \in Players : q = drawn[c] /\ q = drawn[d]
    BY <2>1, <2>2 DEF Info, TypeOK
  <2>4. events[l].type = "info" /\ Counted = Players
    BY <2>1, <2>2 DEF EventsAt, InfoLast, Info
  <2>5. PICK n \in 1..l : events[n] = Pulse(q)
    BY <2>2, <2>4 DEF Counted
  <2>6. events[n].type = "pulse" /\ events[n].player = q /\ n - 1 \in Players
    <3>1. events[n].type = "pulse" /\ events[n].player = q
      BY <2>5 DEF Pulse
    <3> QED
      BY <2>1, <2>2, <3>1, PulseBound
  <2>7. voteOrder[c][q] = n - 1 /\ voteOrder[d][q] = n - 1
    BY <2>1, <2>2, <2>6 DEF ScreenAt, OrderRead
  <2>8. courseId[c] = vote[n - 1] /\ courseId[d] = vote[n - 1]
    BY <2>1, <2>3, <2>7 DEF ScreenAt, Outcome
  <2> QED
    BY <2>6, <2>8
<1> QED
  BY <1>1, Invariance, PTL
===============================================================================
