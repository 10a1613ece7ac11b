----------------------------- MODULE DecompLoader -----------------------------
(***************************************************************************)
(* The decompressing file loader (payload/sp/storage/DecompLoader.cc).     *)
(* One loader thread reads a file chunk by chunk into two static buffers   *)
(* and hands each chunk to the thread that called Load, which decodes it   *)
(* while the next one is being read.  The two threads meet in two          *)
(* exchanges, startExchange and updateExchange; ExchangeProofs shows that  *)
(* an exchange is an atomic rendezvous, so a meeting is one action here.   *)
(*                                                                         *)
(* Abstracted: what is decoded (a decoder is "more", "done" or "bad"), the *)
(* bytes (a chunk is the load it belongs to and its number) and which file *)
(* a path resolves to.                                                     *)
(***************************************************************************)
EXTENDS Naturals

CONSTANTS Callers,    \* the threads that call Load
          MaxChunks,  \* bound: chunks in a file
          NoCaller

ASSUME DecompAssumption ==
  /\ MaxChunks \in Nat
  /\ NoCaller \notin Callers

Buffers == {0, 1}              \* the index i of srcs[i]
Chunks == 0..MaxChunks         \* chunk numbers; a file has at most MaxChunks
Torn == <<NoCaller, 0>>        \* a buffer never filled, or being written

VARIABLES
  loader,   \* the loader thread: "idle", "open", "read" (filling srcs[i]) or "hand"
  serving,  \* the load it works for
  total,    \* chunks of the open file
  k, i,     \* Read's loop: the chunk, and the buffer it goes to
  out,      \* the argument of updateExchange.right: "chunk", "end" (0) or "error" (-1)
  srcs,     \* what each buffer holds
  pc,       \* per caller: where its Load stands
  decoder,  \* per caller: "more", "done" or "bad" (not ok)
  next,     \* per caller: number of the chunk it decodes next
  src       \* per caller: the buffer `src` points to

vars == <<loader, serving, total, k, i, out, srcs, pc, decoder, next, src>>
loaderVars == <<loader, serving, total, k, i, out, srcs>>

\* "start", "first", "next", "stop" stand at an exchange of Load, "decode" runs
\* the decoder, "true" and "false" are Load's results.
Locations == {"none", "start", "first", "decode", "next", "stop", "true", "false"}

Init ==
  /\ loader = "idle" /\ serving = NoCaller
  /\ total = 0 /\ k = 0 /\ i = 0 /\ out = "end"
  /\ srcs = [b \in Buffers |-> Torn]
  /\ pc = [c \in Callers |-> "none"]
  /\ decoder = [c \in Callers |-> "more"]
  /\ next = [c \in Callers |-> 0]
  /\ src = [c \in Callers |-> 0]

Load(c) ==
  /\ pc[c] \in {"none", "true", "false"}
  /\ pc' = [pc EXCEPT ![c] = "start"]
  /\ decoder' = [decoder EXCEPT ![c] = "more"]
  /\ next' = [next EXCEPT ![c] = 0]
  /\ src' = [src EXCEPT ![c] = 0]
  /\ UNCHANGED loaderVars

\* startExchange: the idle loader takes one of the loads that wait for it.
StartExchange(c) ==
  /\ pc[c] = "start"
  /\ loader = "idle"
  /\ loader' = "open"
  /\ serving' = c
  /\ pc' = [pc EXCEPT ![c] = "first"]
  /\ UNCHANGED <<total, k, i, out, srcs, decoder, next, src>>

\* The head of Read's loop: start filling srcs[b] with chunk n, or announce
\* the end of a file of m chunks.
Continue(n, m, b) ==
  /\ k' = n
  /\ i' = b
  /\ IF n < m THEN loader' = "read" /\ srcs' = [srcs EXCEPT ![b] = Torn] /\ UNCHANGED out
              ELSE loader' = "hand" /\ out' = "end" /\ UNCHANGED srcs

Open ==
  /\ loader = "open"
  /\ \E m \in Chunks : total' = m /\ Continue(0, m, 0)
  /\ UNCHANGED <<serving, pc, decoder, next, src>>

OpenFails ==
  /\ loader = "open"
  /\ loader' = "hand"
  /\ out' = "error"
  /\ UNCHANGED <<serving, total, k, i, srcs, pc, decoder, next, src>>

ReadChunk ==
  /\ loader = "read"
  /\ srcs' = [srcs EXCEPT ![i] = <<serving, k>>]
  /\ loader' = "hand"
  /\ out' = "chunk"
  /\ UNCHANGED <<serving, total, k, i, pc, decoder, next, src>>

\* Mutant of ReadFails: a read error looks like the end of the file.
ReadFailsSilently ==
  /\ loader = "read"
  /\ loader' = "hand"
  /\ out' = "end"
  /\ UNCHANGED <<serving, total, k, i, srcs, pc, decoder, next, src>>

ReadFails ==
  /\ loader = "read"
  /\ loader' = "hand"
  /\ out' = "error"
  /\ UNCHANGED <<serving, total, k, i, srcs, pc, decoder, next, src>>

\* Mutants of LoaderUpdated: the same buffer is filled again; left(false) does not
\* stop the loader; the loader stops after every chunk.
LoaderKeepsBuffer(more) ==
  /\ IF out = "chunk" /\ more
     THEN Continue(k + 1, total, i)
     ELSE loader' = "idle" /\ UNCHANGED <<k, i, srcs, out>>
  /\ UNCHANGED <<serving, total>>
LoaderIgnoresStop(more) ==
  /\ IF out = "chunk"
     THEN Continue(k + 1, total, 1 - i)
     ELSE loader' = "idle" /\ UNCHANGED <<k, i, srcs, out>>
  /\ UNCHANGED <<serving, total>>
LoaderStopsEarly(more) ==
  /\ loader' = "idle"
  /\ UNCHANGED <<k, i, srcs, out, serving, total>>

\* The loader's half of updateExchange, where more is the argument of left():
\* it goes on after a chunk that was wanted, and is idle after anything else.
LoaderUpdated(more) ==
  /\ IF out = "chunk" /\ more
     THEN Continue(k + 1, total, 1 - i)
     ELSE loader' = "idle" /\ UNCHANGED <<k, i, srcs, out>>
  /\ UNCHANGED <<serving, total>>

\* updateExchange with Load's first left(true).  A first chunk too short for
\* the magic is refused; otherwise the decoder that fits it is made, and is
\* not ok if the header is bad.
FirstExchange(c) ==
  /\ pc[c] = "first"
  /\ loader = "hand"
  /\ LoaderUpdated(TRUE)
  /\ IF out = "chunk"
     THEN \/ pc' = [pc EXCEPT ![c] = "stop"] /\ UNCHANGED decoder
          \/ pc' = [pc EXCEPT ![c] = "decode"] /\ UNCHANGED decoder
          \/ pc' = [pc EXCEPT ![c] = "stop"] /\ decoder' = [decoder EXCEPT ![c] = "bad"]
     ELSE pc' = [pc EXCEPT ![c] = "false"] /\ UNCHANGED decoder
  /\ UNCHANGED <<next, src>>

\* decoder->decode(src, srcSize): any outcome, whatever it returned.
Decode(c) ==
  /\ pc[c] = "decode"
  /\ \E d \in {"more", "done", "bad"} : decoder' = [decoder EXCEPT ![c] = d]
  /\ \E target \in {"next", "stop"} : pc' = [pc EXCEPT ![c] = target]
  /\ next' = [next EXCEPT ![c] = @ + 1]
  /\ UNCHANGED <<loader, serving, total, k, i, out, srcs, src>>

\* updateExchange with left(true) in the loop, and the loop condition.
NextExchange(c) ==
  /\ pc[c] = "next"
  /\ loader = "hand"
  /\ LoaderUpdated(TRUE)
  /\ \/ /\ out = "chunk"
        /\ src' = [src EXCEPT ![c] = 1 - @]
        /\ pc' = [pc EXCEPT ![c] = IF decoder[c] = "more" THEN "decode" ELSE "stop"]
     \/ /\ out = "end" /\ decoder[c] = "done"
        /\ pc' = [pc EXCEPT ![c] = "true"]
        /\ UNCHANGED src
     \/ /\ out = "error" \/ (out = "end" /\ decoder[c] # "done")
        /\ pc' = [pc EXCEPT ![c] = "false"]
        /\ UNCHANGED src
  /\ UNCHANGED <<decoder, next>>

\* updateExchange with left(false): the loader is told to stop.
StopExchange(c) ==
  /\ pc[c] = "stop"
  /\ loader = "hand"
  /\ LoaderUpdated(FALSE)
  /\ pc' = [pc EXCEPT ![c] = "false"]
  /\ UNCHANGED <<decoder, next, src>>

LoaderStep == Open \/ OpenFails \/ ReadChunk \/ ReadFails
Meet(c) == FirstExchange(c) \/ NextExchange(c) \/ StopExchange(c)

Next ==
  \/ LoaderStep
  \/ \E c \in Callers : Load(c) \/ StartExchange(c) \/ Decode(c) \/ Meet(c)

\* Both threads keep running, storage and the decoder answer.  Which caller
\* startExchange serves first is left open.
Spec ==
  /\ Init /\ [][Next]_vars
  /\ WF_vars(LoaderStep)
  /\ \A c \in Callers : WF_vars(Decode(c)) /\ WF_vars(Meet(c))
-------------------------------------------------------------------------------
InLoad(c) == pc[c] \in {"first", "decode", "next", "stop"}

TypeOK ==
  /\ loader \in {"idle", "open", "read", "hand"}
  /\ serving \in Callers \cup {NoCaller}
  /\ total \in Chunks /\ k \in Chunks /\ i \in Buffers
  /\ out \in {"chunk", "end", "error"}
  /\ srcs \in [Buffers -> (Callers \cup {NoCaller}) \X Chunks]
  /\ pc \in [Callers -> Locations]
  /\ decoder \in [Callers -> {"more", "done", "bad"}]
  /\ next \in [Callers -> Chunks]
  /\ src \in [Callers -> Buffers]

\* While a caller decodes, the buffer it reads holds its own next chunk: the
\* loader, running ahead, fills only the other one, and never that of a caller
\* that has not met it again.
DecodesItsChunk ==
  \A c \in Callers : pc[c] = "decode" => srcs[src[c]] = <<c, next[c]>>

\* The exchanges never pair the loader with a load it is not working for, and
\* it is back at startExchange exactly when no load is under way: no early
\* return on either side leaves the other one behind in updateExchange.
LoaderInStep ==
  /\ \A c \in Callers : InLoad(c) => loader # "idle" /\ serving = c
  /\ loader # "idle" => serving # NoCaller /\ InLoad(serving)

\* Load succeeds only on a file that was read to the end and decoded whole.
SuccessIsWhole ==
  [][\A c \in Callers : pc[c] # "true" /\ pc'[c] = "true" => next[c] = total /\ out = "end"]_vars

\* A load the loader has accepted returns, and frees it for the next one.
AcceptedLoadReturns == \A c \in Callers : InLoad(c) ~> ~InLoad(c)
===============================================================================
