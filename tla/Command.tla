------------------------------- MODULE Command -------------------------------
(***************************************************************************)
(* Client commands, their text form in the log and the checks before them  *)
(* (src/modules/raft/common/command.cpp, the Validate functions of         *)
(* raft_node.cpp and KvStateMachine::Apply).                               *)
(*                                                                         *)
(* A text is the sequence of pieces that its '|' characters separate, so a *)
(* text without '|' has one piece and concatenating sequences is joining   *)
(* texts with '|'.                                                         *)
(***************************************************************************)
EXTENDS Naturals, Sequences

CONSTANTS
  Empty,    \* the empty piece
  Long,     \* a piece past max_key_bytes and max_value_bytes
  Malformed \* what Deserialize answers for a text that is no command

NoText == <<Empty>>
Bars(text) == Len(text) - 1
TooLong(text) == \E i \in DOMAIN text : text[i] = Long

Set(key, value) == [type |-> "SET", key |-> key, value |-> value]
Delete(key) == [type |-> "DEL", key |-> key, value |-> NoText]
NoOpText == <<"__raft_internal_noop__">>

\* Fault: an escape for '|' is assumed where there is none.
AnyKey(key) == key # NoText /\ ~TooLong(key)

ValidateKey(key) == key # NoText /\ Bars(key) = 0 /\ ~TooLong(key)
ValidateValue(value) == Bars(value) = 0 /\ ~TooLong(value)

\* Under the default limits max_command_bytes is beyond any key and value.
ValidateCommand(c) == ValidateKey(c.key) /\ (c.type = "SET" => ValidateValue(c.value))

Serialize(c) == <<c.type>> \o c.key \o c.value

\* getline reports no empty item after the last '|'.
Split(text) ==
  IF text[Len(text)] = Empty THEN SubSeq(text, 1, Len(text) - 1) ELSE text

Deserialize(text) ==
  LET parts == Split(text) IN
  CASE Len(parts) >= 3 /\ parts[1] = "SET" /\ parts[2] # Empty -> Set(<<parts[2]>>, <<parts[3]>>)
    [] Len(parts) >= 2 /\ parts[1] = "DEL" /\ parts[2] # Empty -> Delete(<<parts[2]>>)
    [] OTHER -> Malformed

\* What a command does to the map from keys to values.
Executed(kv, c) ==
  LET others == DOMAIN kv \ {c.key}
      keys == IF c.type = "SET" THEN others \cup {c.key} ELSE others
  IN [k \in keys |-> IF k = c.key THEN c.value ELSE kv[k]]

\* KvStateMachine::Apply: it fails on a text that is no command.
CanApply(text) == text = NoOpText \/ Deserialize(text) # Malformed
Applied(kv, text) == IF text = NoOpText THEN kv ELSE Executed(kv, Deserialize(text))
=============================================================================
