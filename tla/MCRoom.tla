-------------------------------- MODULE MCRoom --------------------------------
(* Room for TLC: the connections of an instance are interchangeable. *)
EXTENDS Room

LOCAL INSTANCE TLC

Interchangeable == Permutations(Conns)
===============================================================================
