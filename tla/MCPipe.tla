------------------------------- MODULE MCPipe -------------------------------
(* Pipe, for a reader, a writer, and a task that selects on the writing end. *)
EXTENDS Pipe, TLC

CONSTANTS p1, t1, t2, t3

Ends ==
  t1 :> {<<p1, "read">>} @@ t2 :> {<<p1, "write">>} @@ t3 :> {<<p1, "read">>, <<p1, "write">>}

WhenRoom == {[in |-> {}, out |-> {p1}, ex |-> {}, order |-> <<p1>>, limit |-> FALSE]}
=============================================================================
