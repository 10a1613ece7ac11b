-------------------------- MODULE DecompLoaderProofs --------------------------
(***************************************************************************)
(* For any number of callers and chunks: the loader and its callers never  *)
(* lose each other, every caller decodes its own chunks in order, and a    *)
(* load that succeeds has decoded the whole file.                          *)
(***************************************************************************)
EXTENDS DecompLoader, TLAPS

\* Where the loader's loop stands: it fills srcs[i] with chunk k of the file.
LoaderAt ==
  /\ loader = "open" => pc[serving] = "first"
  /\ loader = "read" \/ (loader = "hand" /\ out = "chunk") => k < total
  /\ loader = "hand" /\ out = "chunk" => srcs[i] = <<serving, k>>
  /\ loader = "hand" /\ out = "end" => k = total

\* A load that waits for the loader has decoded nothing.
Fresh(c) == src[c] = 0 /\ next[c] = 0

\* Where a load stands against the loader: one chunk behind it while it decodes,
\* and always in the other buffer.
CallerAt(c) ==
  /\ pc[c] \in {"start", "first"} => Fresh(c)
  /\ pc[c] = "first" =>
       (loader = "read" \/ (loader = "hand" /\ out # "error") => k = 0 /\ i = 0)
  /\ pc[c] = "decode" =>
       /\ loader \in {"read", "hand"}
       /\ srcs[src[c]] = <<c, next[c]>>
       /\ k = next[c] + 1 /\ i = 1 - src[c] /\ next[c] < total
  /\ pc[c] = "next" => /\ loader \in {"read", "hand"}
                       /\ k = next[c] /\ i = 1 - src[c]

CallersAt == \A c \in Callers : CallerAt(c)

Inv == TypeOK /\ LoaderInStep /\ LoaderAt /\ CallersAt

\* The constants and the two buffers, as the proofs use them.
LEMMA Facts ==
  /\ MaxChunks \in Nat /\ NoCaller \notin Callers
  /\ \A n \in Chunks : n \in Nat /\ n <= MaxChunks
  /\ \A n \in Nat : n <= MaxChunks => n \in Chunks
  /\ Buffers = {0, 1} /\ \A b \in Buffers : 1 - b \in Buffers /\ 1 - b # b
BY DecompAssumption DEF Chunks, Buffers

\* The invariant holds at the start.
LEMMA InitInv == Init => Inv
BY Facts
   DEF Init, Inv, TypeOK, LoaderInStep, LoaderAt, CallersAt, CallerAt, Fresh, InLoad, Torn,
       Locations

\* Where a step of Read's loop leaves the loader, for a chunk within the file.
LEMMA ContinueFacts ==
  ASSUME TypeOK, NEW n \in Nat, NEW m \in Chunks, NEW b \in Buffers, n <= m, Continue(n, m, b)
  PROVE  /\ k' = n /\ i' = b /\ k' \in Chunks
         /\ out' \in {"chunk", "end", "error"}
         /\ srcs' \in [Buffers -> (Callers \cup {NoCaller}) \X Chunks]
         /\ srcs'[1 - b] = srcs[1 - b]
         /\ \/ loader' = "read" /\ n < m
            \/ loader' = "hand" /\ n = m /\ out' = "end"
<1>1. n \in Chunks /\ 0 \in Chunks
  BY Facts
<1>2. CASE n < m
  BY <1>1, <1>2, Facts DEF Continue, TypeOK, Torn
<1>3. CASE ~(n < m)
  BY <1>1, <1>3, Facts DEF Continue, TypeOK
<1> QED
  BY <1>2, <1>3

\* The loader's half of a meeting: after a chunk that was wanted it goes on with
\* the other buffer, or announces the end of the file.
LEMMA LoaderGoesOn ==
  ASSUME Inv, loader = "hand", out = "chunk", LoaderUpdated(TRUE)
  PROVE  /\ loader' \in {"read", "hand"} /\ loader' # "idle" /\ loader' # "open"
         /\ k' = k + 1 /\ k' \in Chunks /\ i' = 1 - i /\ i' \in Buffers
         /\ out' \in {"chunk", "end", "error"}
         /\ srcs' \in [Buffers -> (Callers \cup {NoCaller}) \X Chunks]
         /\ srcs'[i] = <<serving, k>>
         /\ serving' = serving /\ total' = total /\ k < total
         /\ \/ loader' = "read" /\ k' < total
            \/ loader' = "hand" /\ k' = total /\ out' = "end"
<1>1. k < total /\ srcs[i] = <<serving, k>>
  BY DEF Inv, LoaderAt
<1>2. /\ k + 1 \in Nat /\ total \in Chunks /\ 1 - i \in Buffers
      /\ k + 1 <= total /\ 1 - (1 - i) = i
  BY <1>1, Facts DEF Inv, TypeOK
<1>3. Continue(k + 1, total, 1 - i) /\ UNCHANGED <<serving, total>>
  BY DEF LoaderUpdated
<1> QED
  BY <1>1, <1>2, <1>3, ContinueFacts DEF Inv

\* After anything else it is back at startExchange.
LEMMA LoaderRests ==
  ASSUME NEW more \in BOOLEAN, ~(out = "chunk" /\ more), LoaderUpdated(more)
  PROVE  loader' = "idle" /\ UNCHANGED <<k, i, srcs, out, serving, total>>
BY DEF LoaderUpdated

\* The three outcomes of a meeting in the loop of Load.
LEMMA NextFacts ==
  ASSUME Inv, NEW c \in Callers, NextExchange(c)
  PROVE  /\ pc[c] = "next" /\ loader = "hand" /\ serving = c
         /\ LoaderUpdated(TRUE) /\ decoder' = decoder /\ next' = next
         /\ \/ /\ out = "chunk" /\ src' = [src EXCEPT ![c] = 1 - @]
               /\ \E place \in {"decode", "stop"} : pc' = [pc EXCEPT ![c] = place]
            \/ /\ out # "chunk" /\ src' = src
               /\ \E place \in {"true", "false"} : pc' = [pc EXCEPT ![c] = place]
BY DEF NextExchange, Inv, LoaderInStep, InLoad

\* What a caller that meets the loader in its first exchange does.
LEMMA FirstFacts ==
  ASSUME Inv, NEW c \in Callers, FirstExchange(c)
  PROVE  /\ pc[c] = "first" /\ loader = "hand" /\ serving = c
         /\ LoaderUpdated(TRUE) /\ src' = src /\ next' = next
         /\ decoder' \in [Callers -> {"more", "done", "bad"}]
         /\ \/ /\ out = "chunk"
               /\ \E place \in {"decode", "stop"} : pc' = [pc EXCEPT ![c] = place]
            \/ out # "chunk" /\ pc' = [pc EXCEPT ![c] = "false"]
BY DEF FirstExchange, Inv, TypeOK, LoaderInStep, InLoad

\* Type correctness of one step, one case per action.
LEMMA StepType ==
  ASSUME Inv, [Next]_vars
  PROVE  TypeOK'
<1> USE DEF TypeOK, Locations, CallersAt, CallerAt, Fresh, LoaderInStep, InLoad
<1>1. CASE UNCHANGED vars
  BY <1>1 DEF vars, Inv
<1>2. CASE Open
  BY <1>2, Facts, ContinueFacts DEF Open, Inv
<1>3. CASE OpenFails
  BY <1>3, Facts DEF OpenFails, Inv
<1>4. CASE ReadChunk
  BY <1>4, Facts DEF ReadChunk, Inv
<1>5. CASE ReadFails
  BY <1>5, Facts DEF ReadFails, Inv
<1>6. ASSUME NEW c \in Callers, Load(c)
      PROVE  TypeOK'
  BY <1>6, Facts DEF Load, loaderVars, Inv
<1>7. ASSUME NEW c \in Callers, StartExchange(c)
      PROVE  TypeOK'
  BY <1>7, Facts DEF StartExchange, Inv
<1>8. ASSUME NEW c \in Callers, Decode(c)
      PROVE  TypeOK'
  BY <1>8, Facts DEF Decode, Inv
<1>9. ASSUME NEW c \in Callers, FirstExchange(c)
      PROVE  TypeOK'
  <2>1. CASE out = "chunk"
    <3>1. PICK place \in {"decode", "stop"} : pc' = [pc EXCEPT ![c] = place]
      BY <1>9, <2>1, FirstFacts
    <3>2. LoaderUpdated(TRUE) /\ loader = "hand"
      BY <1>9, FirstFacts
    <3> QED
      BY <1>9, <2>1, <3>1, <3>2, FirstFacts, LoaderGoesOn, Facts DEF Inv
  <2>2. CASE out # "chunk"
    <3>1. pc' = [pc EXCEPT ![c] = "false"]
      BY <1>9, <2>2, FirstFacts
    <3>2. loader' = "idle" /\ UNCHANGED <<k, i, srcs, out, serving, total>>
      BY <1>9, <2>2, FirstFacts, LoaderRests
    <3> QED
      BY <1>9, <2>2, <3>1, <3>2, FirstFacts, Facts DEF Inv
  <2> QED
    BY <2>1, <2>2
<1>10. ASSUME NEW c \in Callers, NextExchange(c)
      PROVE  TypeOK'
  <2>1. CASE out = "chunk"
    <3>1. PICK place \in {"decode", "stop"} : pc' = [pc EXCEPT ![c] = place]
      BY <1>10, <2>1, NextFacts
    <3>2. LoaderUpdated(TRUE) /\ loader = "hand"
      BY <1>10, NextFacts
    <3>3. /\ loader' \in {"read", "hand"} /\ k' = k + 1 /\ k' \in Chunks
          /\ i' = 1 - i /\ i' \in Buffers /\ out' \in {"chunk", "end", "error"}
          /\ srcs' \in [Buffers -> (Callers \cup {NoCaller}) \X Chunks]
          /\ srcs'[i] = <<serving, k>> /\ serving' = serving /\ total' = total /\ k < total
          /\ loader' = "read" \/ (loader' = "hand" /\ k' = total /\ out' = "end")
      BY <2>1, <3>2, LoaderGoesOn
    <3>4. src' = [src EXCEPT ![c] = 1 - @] /\ decoder' = decoder /\ next' = next
      BY <1>10, <2>1, NextFacts
    <3>5. src' \in [Callers -> Buffers] /\ pc' \in [Callers -> Locations]
      BY <3>1, <3>4, Facts DEF Inv
    <3> QED
      BY <3>3, <3>4, <3>5 DEF Inv
  <2>2. CASE out # "chunk"
    <3>1. PICK place \in {"true", "false"} : pc' = [pc EXCEPT ![c] = place]
      BY <1>10, <2>2, NextFacts
    <3>2. loader' = "idle" /\ UNCHANGED <<k, i, srcs, out, serving, total>>
      BY <1>10, <2>2, NextFacts, LoaderRests
    <3> QED
      BY <1>10, <2>2, <3>1, <3>2, NextFacts, Facts DEF Inv
  <2> QED
    BY <2>1, <2>2
<1>11. ASSUME NEW c \in Callers, StopExchange(c)
      PROVE  TypeOK'
  BY <1>11, Facts, LoaderRests DEF StopExchange, Inv
<1> QED
  BY <1>1, <1>2, <1>3, <1>4, <1>5, <1>6, <1>7, <1>8, <1>9, <1>10, <1>11
     DEF Next, LoaderStep, Meet

\* No step of either side leaves the other one behind.
LEMMA StepLoaderInStep ==
  ASSUME Inv, [Next]_vars
  PROVE  LoaderInStep'
<1> USE DEF TypeOK, LoaderInStep, InLoad
<1>1. CASE UNCHANGED vars
  BY <1>1 DEF vars, Inv
<1>2. CASE Open
  BY <1>2, Facts, ContinueFacts DEF Open, Inv
<1>3. CASE OpenFails
  BY <1>3, Facts DEF OpenFails, Inv
<1>4. CASE ReadChunk
  BY <1>4, Facts DEF ReadChunk, Inv
<1>5. CASE ReadFails
  BY <1>5, Facts DEF ReadFails, Inv
<1>6. ASSUME NEW c \in Callers, Load(c)
      PROVE  LoaderInStep'
  BY <1>6, Facts DEF Load, loaderVars, Inv
<1>7. ASSUME NEW c \in Callers, StartExchange(c)
      PROVE  LoaderInStep'
  BY <1>7, Facts DEF StartExchange, Inv
<1>8. ASSUME NEW c \in Callers, Decode(c)
      PROVE  LoaderInStep'
  BY <1>8, Facts DEF Decode, Inv
<1>9. ASSUME NEW c \in Callers, FirstExchange(c)
      PROVE  LoaderInStep'
  <2>1. CASE out = "chunk"
    <3>1. PICK place \in {"decode", "stop"} : pc' = [pc EXCEPT ![c] = place]
      BY <1>9, <2>1, FirstFacts
    <3>2. LoaderUpdated(TRUE) /\ loader = "hand"
      BY <1>9, FirstFacts
    <3>3. /\ loader' \in {"read", "hand"} /\ k' = k + 1 /\ k' \in Chunks
          /\ i' = 1 - i /\ i' \in Buffers /\ out' \in {"chunk", "end", "error"}
          /\ srcs' \in [Buffers -> (Callers \cup {NoCaller}) \X Chunks]
          /\ srcs'[i] = <<serving, k>> /\ serving' = serving /\ total' = total /\ k < total
          /\ loader' = "read" \/ (loader' = "hand" /\ k' = total /\ out' = "end")
      BY <2>1, <3>2, LoaderGoesOn
    <3>4. pc' \in [Callers -> Locations] /\ pc[c] = "first" /\ serving = c
      BY <1>9, <3>1, FirstFacts DEF Inv, Locations
    <3>5. pc'[c] = place /\ \A d \in Callers : d # c => pc'[d] = pc[d]
      BY <3>1 DEF Inv
    <3>6. loader = "hand" /\ c # NoCaller
      BY <3>2, Facts
    <3> QED
      BY <3>3, <3>4, <3>5, <3>6 DEF Inv
  <2>2. CASE out # "chunk"
    <3>1. pc' = [pc EXCEPT ![c] = "false"]
      BY <1>9, <2>2, FirstFacts
    <3>2. loader' = "idle" /\ UNCHANGED <<k, i, srcs, out, serving, total>>
      BY <1>9, <2>2, FirstFacts, LoaderRests
    <3> QED
      BY <1>9, <2>2, <3>1, <3>2, FirstFacts, Facts DEF Inv
  <2> QED
    BY <2>1, <2>2
<1>10. ASSUME NEW c \in Callers, NextExchange(c)
      PROVE  LoaderInStep'
  <2>1. CASE out = "chunk"
    <3>1. PICK place \in {"decode", "stop"} : pc' = [pc EXCEPT ![c] = place]
      BY <1>10, <2>1, NextFacts
    <3>2. LoaderUpdated(TRUE) /\ loader = "hand"
      BY <1>10, NextFacts
    <3>3. /\ loader' \in {"read", "hand"} /\ k' = k + 1 /\ k' \in Chunks
          /\ i' = 1 - i /\ i' \in Buffers /\ out' \in {"chunk", "end", "error"}
          /\ srcs' \in [Buffers -> (Callers \cup {NoCaller}) \X Chunks]
          /\ srcs'[i] = <<serving, k>> /\ serving' = serving /\ total' = total /\ k < total
          /\ loader' = "read" \/ (loader' = "hand" /\ k' = total /\ out' = "end")
      BY <2>1, <3>2, LoaderGoesOn
    <3>4. pc' \in [Callers -> Locations] /\ pc[c] = "next" /\ serving = c
      BY <1>10, <3>1, NextFacts DEF Inv, Locations
    <3>5. pc'[c] = place /\ \A d \in Callers : d # c => pc'[d] = pc[d]
      BY <3>1 DEF Inv
    <3>6. loader = "hand" /\ c # NoCaller
      BY <3>2, Facts
    <3> QED
      BY <3>3, <3>4, <3>5, <3>6 DEF Inv
  <2>2. CASE out # "chunk"
    <3>1. PICK place \in {"true", "false"} : pc' = [pc EXCEPT ![c] = place]
      BY <1>10, <2>2, NextFacts
    <3>2. loader' = "idle" /\ UNCHANGED <<k, i, srcs, out, serving, total>>
      BY <1>10, <2>2, NextFacts, LoaderRests
    <3> QED
      BY <1>10, <2>2, <3>1, <3>2, NextFacts, Facts DEF Inv
  <2> QED
    BY <2>1, <2>2
<1>11. ASSUME NEW c \in Callers, StopExchange(c)
      PROVE  LoaderInStep'
  BY <1>11, Facts, LoaderRests DEF StopExchange, Inv
<1> QED
  BY <1>1, <1>2, <1>3, <1>4, <1>5, <1>6, <1>7, <1>8, <1>9, <1>10, <1>11
     DEF Next, LoaderStep, Meet

\* The position of the loop is kept by every step.
LEMMA StepLoaderAt ==
  ASSUME Inv, [Next]_vars
  PROVE  LoaderAt'
<1> USE DEF TypeOK, LoaderInStep, InLoad, LoaderAt
<1>1. CASE UNCHANGED vars
  BY <1>1 DEF vars, Inv
<1>2. CASE Open
  BY <1>2, Facts, ContinueFacts DEF Open, Inv
<1>3. CASE OpenFails
  BY <1>3, Facts DEF OpenFails, Inv
<1>4. CASE ReadChunk
  BY <1>4, Facts DEF ReadChunk, Inv
<1>5. CASE ReadFails
  BY <1>5, Facts DEF ReadFails, Inv
<1>6. ASSUME NEW c \in Callers, Load(c)
      PROVE  LoaderAt'
  BY <1>6, Facts DEF Load, loaderVars, Inv
<1>7. ASSUME NEW c \in Callers, StartExchange(c)
      PROVE  LoaderAt'
  BY <1>7, Facts DEF StartExchange, Inv
<1>8. ASSUME NEW c \in Callers, Decode(c)
      PROVE  LoaderAt'
  BY <1>8, Facts DEF Decode, Inv
<1>9. ASSUME NEW c \in Callers, FirstExchange(c)
      PROVE  LoaderAt'
  <2>1. CASE out = "chunk"
    <3>1. PICK place \in {"decode", "stop"} : pc' = [pc EXCEPT ![c] = place]
      BY <1>9, <2>1, FirstFacts
    <3>2. LoaderUpdated(TRUE) /\ loader = "hand"
      BY <1>9, FirstFacts
    <3> QED
      BY <1>9, <2>1, <3>1, <3>2, FirstFacts, LoaderGoesOn, Facts DEF Inv
  <2>2. CASE out # "chunk"
    <3>1. pc' = [pc EXCEPT ![c] = "false"]
      BY <1>9, <2>2, FirstFacts
    <3>2. loader' = "idle" /\ UNCHANGED <<k, i, srcs, out, serving, total>>
      BY <1>9, <2>2, FirstFacts, LoaderRests
    <3> QED
      BY <1>9, <2>2, <3>1, <3>2, FirstFacts, Facts DEF Inv
  <2> QED
    BY <2>1, <2>2
<1>10. ASSUME NEW c \in Callers, NextExchange(c)
      PROVE  LoaderAt'
  <2>1. CASE out = "chunk"
    <3>1. PICK place \in {"decode", "stop"} : pc' = [pc EXCEPT ![c] = place]
      BY <1>10, <2>1, NextFacts
    <3>2. LoaderUpdated(TRUE) /\ loader = "hand"
      BY <1>10, NextFacts
    <3> QED
      BY <1>10, <2>1, <3>1, <3>2, NextFacts, LoaderGoesOn, Facts DEF Inv
  <2>2. CASE out # "chunk"
    <3>1. PICK place \in {"true", "false"} : pc' = [pc EXCEPT ![c] = place]
      BY <1>10, <2>2, NextFacts
    <3>2. loader' = "idle" /\ UNCHANGED <<k, i, srcs, out, serving, total>>
      BY <1>10, <2>2, NextFacts, LoaderRests
    <3> QED
      BY <1>10, <2>2, <3>1, <3>2, NextFacts, Facts DEF Inv
  <2> QED
    BY <2>1, <2>2
<1>11. ASSUME NEW c \in Callers, StopExchange(c)
      PROVE  LoaderAt'
  BY <1>11, Facts, LoaderRests DEF StopExchange, Inv
<1> QED
  BY <1>1, <1>2, <1>3, <1>4, <1>5, <1>6, <1>7, <1>8, <1>9, <1>10, <1>11
     DEF Next, LoaderStep, Meet

\* The positions of the loads are kept by every step.
LEMMA StepCallersAt ==
  ASSUME Inv, [Next]_vars
  PROVE  CallersAt'
<1> USE DEF TypeOK, LoaderInStep, InLoad, LoaderAt, CallersAt, CallerAt, Fresh
<1>1. CASE UNCHANGED vars
  BY <1>1 DEF vars, Inv
<1>2. CASE Open
  BY <1>2, Facts, ContinueFacts DEF Open, Inv
<1>3. CASE OpenFails
  BY <1>3, Facts DEF OpenFails, Inv
<1>4. CASE ReadChunk
  BY <1>4, Facts DEF ReadChunk, Inv
<1>5. CASE ReadFails
  BY <1>5, Facts DEF ReadFails, Inv
<1>6. ASSUME NEW c \in Callers, Load(c)
      PROVE  CallersAt'
  BY <1>6, Facts DEF Load, loaderVars, Inv
<1>7. ASSUME NEW c \in Callers, StartExchange(c)
      PROVE  CallersAt'
  BY <1>7, Facts DEF StartExchange, Inv
<1>8. ASSUME NEW c \in Callers, Decode(c)
      PROVE  CallersAt'
  BY <1>8, Facts DEF Decode, Inv
<1>9. ASSUME NEW c \in Callers, FirstExchange(c)
      PROVE  CallersAt'
  <2>1. CASE out = "chunk"
    <3>1. PICK place \in {"decode", "stop"} : pc' = [pc EXCEPT ![c] = place]
      BY <1>9, <2>1, FirstFacts
    <3>2. LoaderUpdated(TRUE) /\ loader = "hand"
      BY <1>9, FirstFacts
    <3>3. /\ loader' \in {"read", "hand"} /\ k' = k + 1 /\ k' \in Chunks
          /\ i' = 1 - i /\ i' \in Buffers /\ out' \in {"chunk", "end", "error"}
          /\ srcs' \in [Buffers -> (Callers \cup {NoCaller}) \X Chunks]
          /\ srcs'[i] = <<serving, k>> /\ serving' = serving /\ total' = total /\ k < total
          /\ loader' = "read" \/ (loader' = "hand" /\ k' = total /\ out' = "end")
      BY <2>1, <3>2, LoaderGoesOn
    <3>4. pc' \in [Callers -> Locations] /\ pc[c] = "first" /\ serving = c
      BY <1>9, <3>1, FirstFacts DEF Inv, Locations
    <3>5. pc'[c] = place /\ \A d \in Callers : d # c => pc'[d] = pc[d]
      BY <3>1 DEF Inv
    <3>6. next' = next /\ src' = src /\ Fresh(c)
      BY <1>9, <3>4, FirstFacts DEF Inv
    <3>7. k = 0 /\ i = 0
      BY <2>1, <3>2, <3>4 DEF Inv
    <3>8. CallerAt(c)'
      BY <3>1, <3>3, <3>4, <3>5, <3>6, <3>7, Facts DEF Inv
    <3>9. ASSUME NEW d \in Callers, d # c
          PROVE  CallerAt(d)'
      BY <3>4, <3>5, <3>6, <3>9 DEF Inv
    <3> QED
      BY <3>8, <3>9
  <2>2. CASE out # "chunk"
    <3>1. pc' = [pc EXCEPT ![c] = "false"]
      BY <1>9, <2>2, FirstFacts
    <3>2. loader' = "idle" /\ UNCHANGED <<k, i, srcs, out, serving, total>>
      BY <1>9, <2>2, FirstFacts, LoaderRests
    <3>3. src' = src /\ next' = next /\ serving = c
      BY <1>9, <2>2, FirstFacts
    <3>4. /\ pc'[c] \in {"true", "false"}
          /\ \A d \in Callers : d # c => pc'[d] = pc[d]
      BY <3>1 DEF Inv
    <3>5. \A d \in Callers : d # c => pc[d] \notin {"first", "decode", "next"}
      BY <3>3 DEF Inv
    <3>6. \A d \in Callers : pc[d] = "start" => Fresh(d)
      BY DEF Inv
    <3> QED
      BY <3>3, <3>4, <3>5, <3>6
  <2> QED
    BY <2>1, <2>2
<1>10. ASSUME NEW c \in Callers, NextExchange(c)
      PROVE  CallersAt'
  <2>1. CASE out = "chunk"
    <3>1. PICK place \in {"decode", "stop"} : pc' = [pc EXCEPT ![c] = place]
      BY <1>10, <2>1, NextFacts
    <3>2. LoaderUpdated(TRUE) /\ loader = "hand"
      BY <1>10, NextFacts
    <3>3. /\ loader' \in {"read", "hand"} /\ k' = k + 1 /\ k' \in Chunks
          /\ i' = 1 - i /\ i' \in Buffers /\ out' \in {"chunk", "end", "error"}
          /\ srcs' \in [Buffers -> (Callers \cup {NoCaller}) \X Chunks]
          /\ srcs'[i] = <<serving, k>> /\ serving' = serving /\ total' = total /\ k < total
          /\ loader' = "read" \/ (loader' = "hand" /\ k' = total /\ out' = "end")
      BY <2>1, <3>2, LoaderGoesOn
    <3>4. pc' \in [Callers -> Locations] /\ pc[c] = "next" /\ serving = c
      BY <1>10, <3>1, NextFacts DEF Inv, Locations
    <3>5. pc'[c] = place /\ \A d \in Callers : d # c => pc'[d] = pc[d]
      BY <3>1 DEF Inv
    <3>6. next' = next /\ src'[c] = 1 - src[c] /\ \A d \in Callers : d # c => src'[d] = src[d]
      <4>1. next' = next /\ src' = [src EXCEPT ![c] = 1 - src[c]]
        BY <1>10, <2>1, NextFacts
      <4>2. src \in [Callers -> Buffers]
        BY DEF Inv
      <4> QED
        BY <4>1, <4>2
    <3>7. k = next[c] /\ i = 1 - src[c]
      BY <3>4 DEF Inv
    <3>8. CallerAt(c)'
      BY <3>1, <3>3, <3>4, <3>5, <3>6, <3>7, Facts DEF Inv
    <3>9. ASSUME NEW d \in Callers, d # c
          PROVE  CallerAt(d)'
      BY <3>4, <3>5, <3>6, <3>9 DEF Inv
    <3> QED
      BY <3>8, <3>9
  <2>2. CASE out # "chunk"
    <3>1. PICK place \in {"true", "false"} : pc' = [pc EXCEPT ![c] = place]
      BY <1>10, <2>2, NextFacts
    <3>2. loader' = "idle" /\ UNCHANGED <<k, i, srcs, out, serving, total>>
      BY <1>10, <2>2, NextFacts, LoaderRests
    <3>3. src' = src /\ next' = next /\ serving = c
      BY <1>10, <2>2, NextFacts
    <3>4. /\ pc'[c] \in {"true", "false"}
          /\ \A d \in Callers : d # c => pc'[d] = pc[d]
      BY <3>1 DEF Inv
    <3>5. \A d \in Callers : d # c => pc[d] \notin {"first", "decode", "next"}
      BY <3>3 DEF Inv
    <3>6. \A d \in Callers : pc[d] = "start" => Fresh(d)
      BY DEF Inv
    <3> QED
      BY <3>3, <3>4, <3>5, <3>6
  <2> QED
    BY <2>1, <2>2
<1>11. ASSUME NEW c \in Callers, StopExchange(c)
      PROVE  CallersAt'
  BY <1>11, Facts, LoaderRests DEF StopExchange, Inv
<1> QED
  BY <1>1, <1>2, <1>3, <1>4, <1>5, <1>6, <1>7, <1>8, <1>9, <1>10, <1>11
     DEF Next, LoaderStep, Meet

\* So the invariant always holds.
LEMMA Invariance == Spec => []Inv
<1>1. Inv /\ [Next]_vars => Inv'
  BY StepType, StepLoaderInStep, StepLoaderAt, StepCallersAt DEF Inv
<1> QED
  BY InitInv, <1>1, PTL DEF Spec

\* For any number of callers and chunks the state of the loader has its type:
\* no chunk past the file is asked for.
THEOREM TypeCorrect == Spec => []TypeOK
BY Invariance, PTL DEF Inv

\* The loader is at startExchange exactly when no load is under way, for any
\* number of threads that call Load and on every early return of either side.
THEOREM LoaderStaysInStep == Spec => []LoaderInStep
BY Invariance, PTL DEF Inv

\* A caller decodes its own next chunk, never one being overwritten: two buffers
\* are enough for files of any length.
THEOREM DecodesOwnChunks == Spec => []DecodesItsChunk
<1>1. Inv => DecodesItsChunk
  BY DEF Inv, CallersAt, CallerAt, DecodesItsChunk
<1> QED
  BY Invariance, <1>1, PTL

\* Load returns true only after the last chunk of its file was decoded.
THEOREM SuccessMeansWhole == Spec => SuccessIsWhole
<1> DEFINE Whole == \A c \in Callers :
                      pc[c] # "true" /\ pc'[c] = "true" => next[c] = total /\ out = "end"
<1>1. Inv /\ Next => Whole
  <2> SUFFICES ASSUME Inv, Next, NEW c \in Callers, pc[c] # "true", pc'[c] = "true"
               PROVE  next[c] = total /\ out = "end"
    OBVIOUS
  <2>1. pc \in [Callers -> Locations]
    BY DEF Inv, TypeOK
  <2>2. ASSUME NEW d \in Callers, NextExchange(d)
        PROVE  next[c] = total /\ out = "end"
    BY <2>1, <2>2 DEF NextExchange, Inv, LoaderAt, CallersAt, CallerAt
  <2>3. ASSUME NEW d \in Callers, Load(d) \/ StartExchange(d) \/ Decode(d)
                                  \/ FirstExchange(d) \/ StopExchange(d)
        PROVE  FALSE
    BY <2>1, <2>3 DEF Load, StartExchange, Decode, FirstExchange, StopExchange
  <2>4. ~LoaderStep
    BY <2>1 DEF LoaderStep, Open, OpenFails, ReadChunk, ReadFails
  <2> QED
    BY <2>2, <2>3, <2>4 DEF Next, Meet
<1>2. Inv /\ [Next]_vars => [Whole]_vars
  BY <1>1
<1> QED
  BY Invariance, <1>2, PTL DEF Spec, SuccessIsWhole
===============================================================================
