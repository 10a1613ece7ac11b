----------------------------- MODULE MCOnlineRoom -----------------------------
(* OnlineRoom for TLC: the connections of an instance are interchangeable. *)
EXTENDS OnlineRoom

LOCAL INSTANCE TLC

Interchangeable == Permutations(Conns)
===============================================================================
