----------------------------- MODULE MCKvService -----------------------------
(***************************************************************************)
(* The KV service on small instances.  Keys and values include the empty   *)
(* text, keys one with a '|', values one that is too long.                 *)
(***************************************************************************)
EXTENDS KvService, TLC

CONSTANTS n1, n2, c1, c2

Keys == {<<"a">>, <<"a", "b">>, NoText}
Vals == {<<"b">>, NoText, <<Long>>}

\* The view leaves out what no step or property reads again: of a call the
\* fields it is past, of a finished one everything but whether it read too
\* little, whom a node takes for its leader, and what is on disk once no restart
\* will come.
Unread(call) ==
  CASE call.pc = "idle" -> [pc |-> "done", old |-> FALSE]
    [] call.pc = "done" -> [pc |-> "done", old |-> call.kind = "read" /\ call.seen < call.floor
                                                 /\ call.code \in {"OK", "KEY_NOT_FOUND"}
                                                 /\ call.at \notin forgot]
    [] call.pc = "proposing" -> <<call.pc, call.at, call.cmd>>
    [] call.pc \in {"replicating", "applying"} -> <<call.pc, call.at, call.id, call.reign>>
    [] call.pc = "answering" -> <<call.pc>>
    [] call.pc = "reading" -> <<call.pc, call.at, call.floor>>

View ==
  <<log, open, newest, [n \in Node |-> [node[n] EXCEPT !.leader = Nil]],
    [c \in Client |-> Unread(calls[c])], acked, forgot, restarts,
    IF restarts = MaxRestarts THEN <<>> ELSE <<disk, unsaved>>>>

Symmetry == Permutations({n1, n2})
=============================================================================
