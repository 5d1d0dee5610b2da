-------------------------- MODULE KvServiceProofs ---------------------------
(***************************************************************************)
(* What a client may rely on: a command that passes the validation before  *)
(* Propose, and does not set an empty value, comes back from the log as it *)
(* was sent; a Get at the node that acknowledged a write sees it, unless   *)
(* the node restarted after a save that failed; and a leader that has      *)
(* applied its no-op is current.                                           *)
(*                                                                         *)
(* The invariant follows a write from the entry Propose makes to the index *)
(* that is acknowledged: the number of the entry leads to its reign, and   *)
(* the newest reign belongs to one node, so what any other node has        *)
(* acknowledged lies before every entry of the newest reign.               *)
(***************************************************************************)
EXTENDS KvService, SequenceTheorems, FiniteSetTheorems, TLAPS

(* The text of a command *)

\* A text without '|' is one piece.
LEMMA OnePiece ==
  ASSUME NEW Piece, NEW text \in Seq(Piece), Bars(text) = 0
  PROVE  text = <<text[1]>> /\ Len(text) = 1
<1>1. Len(text) = 1
  BY DEF Bars
<1> QED
  BY <1>1

\* Three pieces joined.
LEMMA ThreePieces ==
  ASSUME NEW a, NEW b, NEW c
  PROVE  /\ <<a>> \o <<b>> \o <<c>> = <<a, b, c>>
         /\ SubSeq(<<a, b, c>>, 1, 2) = <<a, b>>
<1> DEFINE S == {a, b, c}
<1>1. /\ <<a>> \in Seq(S) /\ <<b>> \in Seq(S) /\ <<c>> \in Seq(S)
      /\ <<a, b>> \in Seq(S) /\ <<a, b, c>> \in Seq(S)
  OBVIOUS
<1>2. <<a>> \o <<b>> = <<a, b>>
  <2> DEFINE x == <<a>> \o <<b>>
             y == <<a, b>>
  <2>1. x \in Seq(S) /\ Len(x) = 2 /\ x[1] = a /\ x[2] = b
    BY <1>1, ConcatProperties
  <2>2. y \in Seq(S) /\ Len(y) = 2 /\ y[1] = a /\ y[2] = b
    BY <1>1
  <2> HIDE DEF x, y, S
  <2>3. \A i \in 1 .. Len(x) : x[i] = y[i]
    BY <2>1, <2>2
  <2>4. x = y
    BY <2>1, <2>2, <2>3, SeqEqual
  <2> QED
    BY <2>4 DEF x, y
<1>3. <<a, b>> \o <<c>> = <<a, b, c>>
  <2> DEFINE x == <<a, b>> \o <<c>>
             y == <<a, b, c>>
  <2>1. x \in Seq(S) /\ Len(x) = 3 /\ x[1] = a /\ x[2] = b /\ x[3] = c
    BY <1>1, ConcatProperties
  <2>2. y \in Seq(S) /\ Len(y) = 3 /\ y[1] = a /\ y[2] = b /\ y[3] = c
    BY <1>1
  <2> HIDE DEF x, y, S
  <2>3. \A i \in 1 .. Len(x) : x[i] = y[i]
    BY <2>1, <2>2
  <2>4. x = y
    BY <2>1, <2>2, <2>3, SeqEqual
  <2> QED
    BY <2>4 DEF x, y
<1>4. SubSeq(<<a, b, c>>, 1, 2) = <<a, b>>
  <2> DEFINE t == <<a, b, c>>
             x == SubSeq(t, 1, 2)
             y == <<a, b>>
  <2>1. t[1] = a /\ t[2] = b /\ \A i \in 1 .. 2 : t[i] \in S
    OBVIOUS
  <2>2. y \in Seq(S) /\ Len(y) = 2 /\ y[1] = a /\ y[2] = b
    BY <1>1
  <2> HIDE DEF t, y, S
  <2>3. x \in Seq(S) /\ Len(x) = 2 /\ x[1] = t[1] /\ x[2] = t[2]
    BY <2>1, SubSeqProperties
  <2> HIDE DEF x
  <2>4. \A i \in 1 .. Len(x) : x[i] = y[i]
    BY <2>1, <2>2, <2>3
  <2>5. x = y
    BY <2>2, <2>3, <2>4, SeqEqual
  <2> QED
    BY <2>5 DEF t, x, y
<1> QED
  BY <1>2, <1>3, <1>4

\* Every SET that ValidateCommand lets through with a non-empty value is read
\* back unchanged by Deserialize (Serialize, Split).
LEMMA SetRoundTrip ==
  ASSUME NEW Piece, NEW key \in Seq(Piece), NEW value \in Seq(Piece),
         ValidateCommand(Set(key, value)), value # NoText
  PROVE  Deserialize(Serialize(Set(key, value))) = Set(key, value)
<1>1. Bars(key) = 0 /\ key # NoText /\ Bars(value) = 0
  BY DEF ValidateCommand, ValidateKey, ValidateValue, Set
<1>2. key = <<key[1]>> /\ value = <<value[1]>>
  BY <1>1, OnePiece
<1>3. key[1] # Empty /\ value[1] # Empty
  BY <1>1, <1>2 DEF NoText
<1> DEFINE text == <<"SET", key[1], value[1]>>
<1>4. Serialize(Set(key, value)) = text
  <2>1. Serialize(Set(key, value)) = <<"SET">> \o key \o value
    BY DEF Serialize, Set
  <2>2. <<"SET">> \o <<key[1]>> \o <<value[1]>> = text
    BY ThreePieces
  <2> QED
    BY <1>2, <2>1, <2>2
<1>5. Split(text) = text /\ Len(text) = 3 /\ text[1] = "SET" /\ text[2] = key[1] /\ text[3] = value[1]
  BY <1>3 DEF Split
<1> HIDE DEF text
<1>6. Deserialize(text) = Set(<<key[1]>>, <<value[1]>>)
  BY <1>3, <1>5 DEF Deserialize
<1> QED
  BY <1>2, <1>4, <1>6

\* Every DEL that ValidateCommand lets through is read back unchanged.
LEMMA DeleteRoundTrip ==
  ASSUME NEW Piece, NEW key \in Seq(Piece), ValidateCommand(Delete(key))
  PROVE  Deserialize(Serialize(Delete(key))) = Delete(key)
<1>1. Bars(key) = 0 /\ key # NoText
  BY DEF ValidateCommand, ValidateKey, Delete
<1>2. key = <<key[1]>>
  BY <1>1, OnePiece
<1>3. key[1] # Empty
  BY <1>1, <1>2 DEF NoText
<1> DEFINE text == <<"DEL", key[1], Empty>>
           parts == <<"DEL", key[1]>>
<1>4. Serialize(Delete(key)) = text
  <2>1. Serialize(Delete(key)) = <<"DEL">> \o key \o <<Empty>>
    BY DEF Serialize, Delete, NoText
  <2>2. <<"DEL">> \o <<key[1]>> \o <<Empty>> = text
    BY ThreePieces
  <2> QED
    BY <1>2, <2>1, <2>2
<1>5. Split(text) = parts
  <2>1. text[Len(text)] = Empty /\ Len(text) - 1 = 2
    OBVIOUS
  <2>2. SubSeq(text, 1, 2) = parts
    BY ThreePieces
  <2> QED
    BY <2>1, <2>2 DEF Split
<1>6. Len(parts) = 2 /\ parts[1] = "DEL" /\ parts[2] = key[1]
  OBVIOUS
<1> HIDE DEF text, parts
<1>7. Deserialize(text) = Delete(<<key[1]>>)
  BY <1>3, <1>5, <1>6 DEF Deserialize
<1> QED
  BY <1>2, <1>4, <1>7

ClientCommands(Piece) ==
  {Set(key, value) : key, value \in Seq(Piece)} \cup {Delete(key) : key \in Seq(Piece)}

\* What ValidateCommand lets through comes back from the log as it was sent,
\* unless it sets an empty value: refusing '|' in keys and values is enough for
\* Serialize and Deserialize to be inverse, at any length.
THEOREM ValidatedRoundTrip ==
  ASSUME NEW Piece, NEW c \in ClientCommands(Piece), ValidateCommand(c),
         c.type = "SET" => c.value # NoText
  PROVE  Deserialize(Serialize(c)) = c
<1>1. ASSUME NEW key \in Seq(Piece), NEW value \in Seq(Piece), c = Set(key, value)
      PROVE  Deserialize(Serialize(c)) = c
  <2>1. value # NoText
    BY <1>1 DEF Set
  <2> QED
    BY <1>1, <2>1, SetRoundTrip
<1>2. ASSUME NEW key \in Seq(Piece), c = Delete(key)
      PROVE  Deserialize(Serialize(c)) = c
  BY <1>2, DeleteRoundTrip
<1> QED
  BY <1>1, <1>2 DEF ClientCommands

\* The exception: a Put of an empty value passes ValidateCommand under every
\* valid key, and its text is no command to Deserialize, so no node can apply it.
THEOREM EmptyValueLost ==
  ASSUME NEW Piece, NEW key \in Seq(Piece), ValidateKey(key), Empty # Long
  PROVE  /\ ValidateCommand(Set(key, NoText))
         /\ Deserialize(Serialize(Set(key, NoText))) = Malformed
<1>1. Bars(key) = 0 /\ key = <<key[1]>>
  <2>1. Bars(key) = 0
    BY DEF ValidateKey
  <2> QED
    BY <2>1, OnePiece
<1>2. ValidateCommand(Set(key, NoText))
  <2>1. ValidateValue(NoText)
    BY DEF ValidateValue, Bars, TooLong, NoText
  <2> QED
    BY <2>1 DEF ValidateCommand, Set
<1> DEFINE text == <<"SET", key[1], Empty>>
           parts == <<"SET", key[1]>>
<1>3. Serialize(Set(key, NoText)) = text
  <2>1. Serialize(Set(key, NoText)) = <<"SET">> \o key \o <<Empty>>
    BY DEF Serialize, Set, NoText
  <2>2. <<"SET">> \o <<key[1]>> \o <<Empty>> = text
    BY ThreePieces
  <2> QED
    BY <1>1, <2>1, <2>2
<1>4. Split(text) = parts
  <2>1. text[Len(text)] = Empty /\ Len(text) - 1 = 2
    OBVIOUS
  <2>2. SubSeq(text, 1, 2) = parts
    BY ThreePieces
  <2> QED
    BY <2>1, <2>2 DEF Split
<1>5. Len(parts) = 2 /\ parts[1] = "SET"
  OBVIOUS
<1> HIDE DEF text, parts
<1>6. Deserialize(text) = Malformed
  BY <1>4, <1>5 DEF Deserialize
<1> QED
  BY <1>2, <1>3, <1>6

----------------------------------------------------------------------------
(* The invariant *)

Code == {"", "OK", "KEY_NOT_FOUND", "NOT_LEADER", "TIMEOUT", "INTERNAL", "INVALID_ARGUMENT",
         "NODE_STOPPING"}

\* U holds the texts, commands, maps and leader ids, which no step here looks at.
EntryRec(U) == [text : U, cmd : U, reign : Nat, id : Nat]

NodeRec(U) == [reign : Nat, leader : U, applied : Nat, kv : U, up : BOOLEAN]

CallRec(U) ==
  [pc : {"proposing", "replicating", "applying", "answering", "reading"}, kind : {"read", "write"},
   cmd : U, at : Node, id : Nat, reign : Nat, code : Code, leader : U, floor : Nat]

AnswerRec(U) ==
  [pc : {"done"}, kind : {"read", "write"}, at : Node, code : Code, leader : U, address : U,
   floor : Nat, seen : Nat]

AnyCall(U) == {Idle} \cup CallRec(U) \cup AnswerRec(U)

Typed(U) ==
  /\ log \in Seq(EntryRec(U)) /\ open \in SUBSET EntryRec(U) /\ IsFiniteSet(open)
  /\ newest \in Nat /\ acked \in [Node -> Nat] /\ disk \in [Node -> Nat]
  /\ node \in [Node -> NodeRec(U)]
  /\ calls \in [Client -> AnyCall(U)]

\* Entries are numbered up to Proposed and belong to reigns up to the newest;
\* committed ones are in the order of their reigns.
EntriesInv ==
  /\ \A e \in open : e.id <= Proposed /\ e.reign <= newest
  /\ \A i \in 1 .. Len(log) : log[i].id <= Proposed /\ log[i].reign <= newest
  /\ \A i, j \in 1 .. Len(log) : i <= j => log[i].reign <= log[j].reign

\* A reign belongs to one node, and what is acknowledged is committed, and
\* applied by a node that did not forget.
NodesInv ==
  /\ \A n \in Node : /\ node[n].reign <= newest /\ acked[n] <= Len(log)
                     /\ node[n].applied <= Len(log)
                     /\ n \notin forgot => acked[n] <= node[n].applied
  /\ \A n, p \in Node : node[n].reign # 0 /\ node[n].reign = node[p].reign => n = p

\* n leads the newest reign.
Rules(n) == node[n].reign # 0 /\ node[n].reign = newest

\* While n leads the newest reign, no other node has acknowledged an entry of it,
\* and n has applied what it acknowledged of it.
AckedInv ==
  \A n, p \in Node :
    Rules(n) /\ acked[p] # 0
      => log[acked[p]].reign < newest \/ (p = n /\ acked[p] <= node[n].applied)

\* A call in Propose knows the reign of its entry, which is its own node's; a Get
\* began with what its node had acknowledged.
CallInv(call) ==
  /\ call.pc \in {"replicating", "applying"} =>
       /\ call.id <= Proposed /\ call.reign <= newest
       /\ \A e \in open : e.id = call.id => e.reign = call.reign
       /\ \A i \in 1 .. Len(log) : log[i].id = call.id => log[i].reign = call.reign
       /\ \A n \in Node : Rules(n) /\ call.at # n => call.reign < newest
  /\ call.pc = "applying" => \E i \in 1 .. Len(log) : log[i].id = call.id
  /\ call.pc = "reading" => call.floor <= acked[call.at]
  /\ call.pc \in {"proposing", "replicating", "applying", "answering"} => call.kind = "write"
  /\ call.pc = "done" /\ call.kind = "read" /\ call.code \in {"OK", "KEY_NOT_FOUND"} =>
       call.seen >= call.floor \/ call.at \in forgot

KvInv ==
  /\ \E U : Typed(U)
  /\ EntriesInv /\ NodesInv /\ AckedInv
  /\ \A c \in Client : CallInv(calls[c])

----------------------------------------------------------------------------
(* Types *)

LEMMA TypedGrows ==
  ASSUME NEW U, NEW V, U \subseteq V, Typed(U)
  PROVE  Typed(V)
<1>1. EntryRec(U) \subseteq EntryRec(V) /\ NodeRec(U) \subseteq NodeRec(V)
  BY DEF EntryRec, NodeRec
<1>2. CallRec(U) \subseteq CallRec(V) /\ AnswerRec(U) \subseteq AnswerRec(V)
  BY DEF CallRec, AnswerRec
<1>3. log \in Seq(EntryRec(V))
  BY <1>1 DEF Typed
<1>4. open \in SUBSET EntryRec(V)
  BY <1>1 DEF Typed
<1>5. node \in [Node -> NodeRec(V)]
  BY <1>1 DEF Typed
<1>6. calls \in [Client -> AnyCall(V)]
  BY <1>2 DEF Typed, AnyCall
<1> QED BY <1>3, <1>4, <1>5, <1>6 DEF Typed

\* The values a step brings in may be taken to be in U.
LEMMA TypedWith ==
  ASSUME KvInv, NEW W
  PROVE  \E U : Typed(U) /\ W \subseteq U
<1>1. PICK U : Typed(U)
  BY DEF KvInv
<1>2. Typed(U \cup W)
  BY <1>1, TypedGrows
<1> QED BY <1>2

LEMMA ProposedType ==
  ASSUME NEW U, Typed(U)
  PROVE  Len(log) \in Nat /\ Cardinality(open) \in Nat /\ Proposed \in Nat /\ DOMAIN log = 1 .. Len(log)
<1>1. Len(log) \in Nat /\ DOMAIN log = 1 .. Len(log)
  BY DEF Typed
<1>2. Cardinality(open) \in Nat
  BY FS_CardinalityType DEF Typed
<1> QED BY <1>1, <1>2 DEF Proposed

\* What a call satisfies depends on its fields and not on its other calls.
LEMMA CallShape ==
  /\ Idle.pc = "idle"
  /\ \A U : \A x \in CallRec(U) : x.pc # "done"
  /\ \A U : \A x \in AnswerRec(U) : x.pc = "done"
BY DEF Idle, CallRec, AnswerRec

----------------------------------------------------------------------------
(* Steps of a call *)

\* A step that only moves client c on to x.
LEMMA CallStep ==
  ASSUME KvInv, NEW U, Typed(U), NEW c \in Client, NEW x \in AnyCall(U), Goto(c, x), CallInv(x),
         UNCHANGED <<log, open, newest, node, disk, acked, forgot>>
  PROVE  KvInv'
<1>1. Typed(U)'
  BY DEF Typed, Goto
<1>2. EntriesInv' /\ NodesInv' /\ AckedInv'
  BY DEF KvInv, EntriesInv, NodesInv, AckedInv, Rules, Proposed
<1>3. \A d \in Client : calls'[d] = IF d = c THEN x ELSE calls[d]
  BY DEF Goto, Typed
<1>4. \A d \in Client : CallInv(calls'[d])
  BY <1>3 DEF KvInv
<1>5. \A d \in Client : CallInv(calls[d])'
  BY <1>4 DEF CallInv, Rules, Proposed
<1> QED BY <1>1, <1>2, <1>5 DEF KvInv

\* A call that is neither idle nor done has the fields of a call.
LEMMA OpenCall ==
  ASSUME NEW U, Typed(U), NEW c \in Client, calls[c].pc \notin {"idle", "done"}
  PROVE  calls[c] \in CallRec(U)
BY CallShape DEF Typed, AnyCall

LEMMA NewCallType ==
  ASSUME NEW U, Typed(U), NEW kind \in {"read", "write"}, NEW cmd \in U, NEW n \in Node, Nil \in U
  PROVE  /\ NewCall(kind, cmd, n) \in CallRec(U)
         /\ NewCall(kind, cmd, n).pc = "proposing" /\ NewCall(kind, cmd, n).kind = kind
         /\ NewCall(kind, cmd, n).at = n /\ NewCall(kind, cmd, n).floor = acked[n]
BY DEF NewCall, CallRec, Typed, Code

LEMMA WriteStep ==
  ASSUME KvInv, NEW c \in Client, NEW n \in Node, NEW cmd, Write(c, n, cmd)
  PROVE  KvInv'
<1>1. PICK U : Typed(U) /\ {cmd, Nil} \subseteq U
  BY TypedWith
<1> DEFINE call == NewCall("write", cmd, n)
           answer == Answer(call, "INVALID_ARGUMENT", node[n].leader, node[n].leader, 0)
<1>2. call \in CallRec(U) /\ call.pc = "proposing" /\ call.kind = "write"
  BY <1>1, NewCallType
<1>3. node[n].leader \in U
  BY <1>1 DEF Typed, NodeRec
<1> HIDE DEF call
<1>4. answer \in AnyCall(U) /\ answer.pc = "done" /\ answer.kind = "write"
  <2>1. "INVALID_ARGUMENT" \in Code /\ 0 \in Nat
    BY DEF Code
  <2> QED BY <1>2, <1>3, <2>1 DEF Answer, CallRec, AnswerRec, AnyCall
<1> HIDE DEF answer
<1>5. CallInv(call) /\ CallInv(answer) /\ call \in AnyCall(U)
  BY <1>2, <1>4 DEF CallInv, AnyCall
<1>6. \E x \in {call, answer} : Goto(c, x)
  BY DEF Write, call, answer
<1>7. UNCHANGED <<log, open, newest, node, disk, acked, forgot>>
  BY DEF Write
<1> QED BY <1>1, <1>4, <1>5, <1>6, <1>7, CallStep

\* Propose, when it makes no entry.
LEMMA ProposeRefused ==
  ASSUME KvInv, NEW c \in Client, calls[c].pc = "proposing", NEW code \in Code, NEW leader,
         Goto(c, [calls[c] EXCEPT !.pc = "answering", !.code = code, !.leader = leader]),
         UNCHANGED <<log, open, newest, node, disk, acked, forgot>>
  PROVE  KvInv'
<1>1. PICK U : Typed(U) /\ {leader} \subseteq U
  BY TypedWith
<1>2. calls[c] \in CallRec(U)
  BY <1>1, OpenCall
<1> DEFINE x == [calls[c] EXCEPT !.pc = "answering", !.code = code, !.leader = leader]
<1>3. x \in CallRec(U) /\ x.pc = "answering" /\ x.kind = calls[c].kind
  BY <1>1, <1>2 DEF CallRec
<1>4. Goto(c, x)
  OBVIOUS
<1> HIDE DEF x
<1>5. CallInv(x) /\ x \in AnyCall(U)
  BY <1>3 DEF CallInv, KvInv, AnyCall
<1> QED BY <1>1, <1>4, <1>5, CallStep

LEMMA ReplicatedStep ==
  ASSUME KvInv, NEW c \in Client, Replicated(c)
  PROVE  KvInv'
<1>0. /\ calls[c].pc = "replicating" /\ CallInv(calls[c])
      /\ UNCHANGED <<log, open, newest, node, disk, acked, forgot>>
  BY DEF Replicated, KvInv
<1> DEFINE leader == node[calls[c].at].leader
<1>1. PICK U : Typed(U) /\ {leader} \subseteq U
  BY TypedWith
<1>2. calls[c] \in CallRec(U)
  BY <1>0, <1>1, OpenCall
<1>3. CASE /\ IsCommitted(calls[c].id) /\ Goto(c, [calls[c] EXCEPT !.pc = "applying"])
  <2> DEFINE x == [calls[c] EXCEPT !.pc = "applying"]
  <2>1. /\ x \in CallRec(U) /\ x.pc = "applying" /\ x.kind = calls[c].kind /\ x.id = calls[c].id
        /\ x.reign = calls[c].reign /\ x.at = calls[c].at
    BY <1>2 DEF CallRec
  <2> HIDE DEF x
  <2>2. \E i \in 1 .. Len(log) : log[i].id = calls[c].id
    BY <1>1, <1>3, ProposedType DEF IsCommitted
  <2>3. CallInv(x) /\ x \in AnyCall(U)
    BY <1>0, <2>1, <2>2 DEF CallInv, AnyCall
  <2> QED BY <1>0, <1>1, <1>3, <2>3, CallStep DEF x
<1>4. ASSUME NEW code \in Code,
             Goto(c, [calls[c] EXCEPT !.pc = "answering", !.code = code, !.leader = leader])
      PROVE  KvInv'
  <2> DEFINE x == [calls[c] EXCEPT !.pc = "answering", !.code = code, !.leader = leader]
  <2> HIDE DEF leader
  <2>1. x \in CallRec(U) /\ x.pc = "answering" /\ x.kind = calls[c].kind
    BY <1>1, <1>2 DEF CallRec
  <2>2. Goto(c, x)
    BY <1>4
  <2> HIDE DEF x
  <2>3. CallInv(x) /\ x \in AnyCall(U)
    BY <1>0, <2>1 DEF CallInv, AnyCall
  <2> QED BY <1>0, <1>1, <2>2, <2>3, CallStep
<1>5. \/ IsCommitted(calls[c].id) /\ Goto(c, [calls[c] EXCEPT !.pc = "applying"])
      \/ Goto(c, [calls[c] EXCEPT !.pc = "answering", !.code = "NOT_LEADER", !.leader = leader])
      \/ Goto(c, [calls[c] EXCEPT !.pc = "answering", !.code = "TIMEOUT", !.leader = leader])
  BY DEF Replicated
<1> HIDE DEF leader
<1>6. "NOT_LEADER" \in Code /\ "TIMEOUT" \in Code
  BY DEF Code
<1> QED BY <1>3, <1>4, <1>5, <1>6

LEMMA WriteAnswersStep ==
  ASSUME KvInv, NEW c \in Client, WriteAnswers(c)
  PROVE  KvInv'
<1>0. /\ calls[c].pc = "answering" /\ CallInv(calls[c])
      /\ UNCHANGED <<log, open, newest, node, disk, acked, forgot>>
  BY DEF WriteAnswers, KvInv
<1>1. PICK U : Typed(U)
  BY DEF KvInv
<1>2. calls[c] \in CallRec(U)
  BY <1>0, <1>1, OpenCall
<1> DEFINE x == Answer(calls[c], calls[c].code, calls[c].leader, node[calls[c].at].leader, 0)
<1>3. /\ calls[c].at \in Node /\ calls[c].code \in Code /\ calls[c].leader \in U
      /\ node[calls[c].at].leader \in U
  BY <1>1, <1>2 DEF CallRec, Typed, NodeRec
<1>4. x \in AnyCall(U) /\ x.pc = "done" /\ x.kind = calls[c].kind
  BY <1>2, <1>3 DEF Answer, CallRec, AnswerRec, AnyCall
<1>5. Goto(c, x)
  BY DEF WriteAnswers
<1> HIDE DEF x
<1>6. CallInv(x)
  BY <1>0, <1>4 DEF CallInv
<1> QED BY <1>0, <1>1, <1>4, <1>5, <1>6, CallStep

LEMMA GetStep ==
  ASSUME KvInv, NEW c \in Client, NEW n \in Node, NEW key, Get(c, n, key)
  PROVE  KvInv'
<1>1. PICK U : Typed(U) /\ {Delete(key), Nil} \subseteq U
  BY TypedWith
<1> DEFINE call == NewCall("read", Delete(key), n)
           Refused(code) == Answer(call, code, node[n].leader, node[n].leader, 0)
           x == [call EXCEPT !.pc = "reading", !.leader = node[n].leader]
<1>2. /\ call \in CallRec(U) /\ call.pc = "proposing" /\ call.kind = "read" /\ call.at = n
      /\ call.floor = acked[n]
  BY <1>1, NewCallType
<1>3. node[n].leader \in U /\ acked[n] \in Nat
  BY <1>1 DEF Typed, NodeRec
<1>4. UNCHANGED <<log, open, newest, node, disk, acked, forgot>>
  BY DEF Get
<1>5. \/ Goto(c, Refused("INVALID_ARGUMENT")) \/ Goto(c, Refused("NOT_LEADER")) \/ Goto(c, x)
  BY DEF Get
<1> HIDE DEF call
<1>6. ASSUME NEW code \in {"INVALID_ARGUMENT", "NOT_LEADER"}, Goto(c, Refused(code))
      PROVE  KvInv'
  <2> DEFINE y == Refused(code)
  <2>1. y \in AnyCall(U) /\ y.pc = "done" /\ y.code = code
    <3>1. code \in Code /\ 0 \in Nat
      BY DEF Code
    <3> QED BY <1>2, <1>3, <3>1 DEF Answer, CallRec, AnswerRec, AnyCall
  <2>2. Goto(c, y)
    BY <1>6
  <2> HIDE DEF y
  <2>3. CallInv(y)
    BY <2>1 DEF CallInv
  <2> QED BY <1>1, <1>4, <2>1, <2>2, <2>3, CallStep
<1>7. CASE Goto(c, x)
  <2>1. x \in CallRec(U) /\ x.pc = "reading" /\ x.floor = acked[n] /\ x.at = n
    BY <1>2, <1>3 DEF CallRec
  <2> HIDE DEF x
  <2>2. CallInv(x) /\ x \in AnyCall(U)
    <3>1. x.floor <= acked[x.at]
      BY <1>3, <2>1
    <3> QED BY <2>1, <3>1 DEF CallInv, AnyCall
  <2> QED BY <1>1, <1>4, <1>7, <2>2, CallStep
<1> QED BY <1>5, <1>6, <1>7

LEMMA GetReadsStep ==
  ASSUME KvInv, NEW c \in Client, GetReads(c)
  PROVE  KvInv'
<1>0. /\ calls[c].pc = "reading" /\ CallInv(calls[c]) /\ NodesInv
      /\ UNCHANGED <<log, open, newest, node, disk, acked, forgot>>
  BY DEF GetReads, KvInv
<1>1. PICK U : Typed(U)
  BY DEF KvInv
<1>2. calls[c] \in CallRec(U)
  BY <1>0, <1>1, OpenCall
<1> DEFINE p == calls[c].at
           code == IF calls[c].cmd.key \in DOMAIN node[p].kv THEN "OK" ELSE "KEY_NOT_FOUND"
           x == Answer(calls[c], code, calls[c].leader, calls[c].leader, node[p].applied)
<1>3. /\ p \in Node /\ calls[c].leader \in U /\ node[p].applied \in Nat
      /\ calls[c].floor \in Nat /\ acked[p] \in Nat
  BY <1>1, <1>2 DEF CallRec, Typed, NodeRec
<1>4. Goto(c, x)
  BY DEF GetReads
<1>4a. code \in Code
  BY DEF Code
<1> HIDE DEF code
<1>5. /\ x \in AnyCall(U) /\ x.pc = "done" /\ x.floor = calls[c].floor
      /\ x.seen = node[p].applied /\ x.at = p
  BY <1>2, <1>3, <1>4a DEF Answer, CallRec, AnswerRec, AnyCall
<1> HIDE DEF x
<1>6. calls[c].floor <= acked[p] /\ (p \notin forgot => acked[p] <= node[p].applied)
  BY <1>0, <1>3 DEF CallInv, NodesInv
<1>7. CallInv(x)
  <2>1. x.seen >= x.floor \/ x.at \in forgot
    <3>1. x.floor = calls[c].floor /\ x.seen = node[p].applied /\ x.at = p
      BY <1>5
    <3> QED BY <1>3, <1>6, <3>1
  <2> QED BY <1>5, <2>1, ZenonT(60) DEF CallInv
<1> QED BY <1>0, <1>1, <1>4, <1>5, <1>7, CallStep

----------------------------------------------------------------------------
(* The nodes *)

LEMMA InitInv == Init => KvInv
<1> SUFFICES ASSUME Init PROVE KvInv
  OBVIOUS
<1> DEFINE U == {Nil, <<>>}
<1>1. node \in [Node -> NodeRec(U)]
  BY DEF Init, NodeRec
<1>2. /\ calls \in [Client -> AnyCall(U)] /\ acked \in [Node -> Nat] /\ newest \in Nat
      /\ disk \in [Node -> Nat]
  BY DEF Init, AnyCall
<1>3. log \in Seq(EntryRec(U)) /\ Len(log) = 0 /\ open = {}
  BY DEF Init
<1>4. Typed(U)
  BY <1>1, <1>2, <1>3, FS_EmptySet DEF Typed
<1> HIDE DEF U
<1>5. EntriesInv
  BY <1>3 DEF EntriesInv
<1>6. NodesInv
  BY <1>3 DEF Init, NodesInv
<1>7. AckedInv
  BY DEF Init, AckedInv
<1>8. ASSUME NEW c \in Client PROVE CallInv(calls[c])
  <2>1. calls[c].pc = "idle"
    BY CallShape DEF Init
  <2> QED BY <2>1 DEF CallInv
<1> QED BY <1>4, <1>5, <1>6, <1>7, <1>8 DEF KvInv

\* A step in which nodes lose their reigns, apply entries or restart, and calls
\* are lost.
LEMMA NodeStep ==
  ASSUME KvInv, NEW U, Typed(U), node' \in [Node -> NodeRec(U)], calls' \in [Client -> AnyCall(U)],
         disk' \in [Node -> Nat], forgot \subseteq forgot',
         \A p \in Node : /\ node'[p].reign \in {0, node[p].reign}
                         /\ node'[p].applied <= Len(log)
                         /\ \/ node[p].applied <= node'[p].applied
                            \/ p \in forgot' /\ node'[p].reign = 0,
         \A c \in Client : calls'[c] \in {calls[c], Idle},
         UNCHANGED <<log, open, newest, acked>>
  PROVE  KvInv'
<1>1. Typed(U)'
  BY DEF Typed
<1>2. Proposed' = Proposed /\ Len(log) \in Nat
  BY ProposedType DEF Proposed
<1>3. EntriesInv'
  BY <1>2 DEF EntriesInv, KvInv
<1>4. \A p \in Node : /\ node[p].applied \in Nat /\ node'[p].applied \in Nat /\ acked[p] \in Nat
                      /\ node[p].reign \in Nat /\ newest \in Nat
  BY DEF Typed, NodeRec
<1>5. NodesInv'
  <2>1. ASSUME NEW p \in Node
        PROVE  /\ node'[p].reign <= newest /\ acked[p] <= Len(log) /\ node'[p].applied <= Len(log)
    BY <1>4 DEF NodesInv, KvInv
  <2>2. ASSUME NEW p \in Node, p \notin forgot' PROVE acked[p] <= node'[p].applied
    <3>1. acked[p] <= node[p].applied /\ node[p].applied <= node'[p].applied
      BY <2>2 DEF NodesInv, KvInv
    <3> QED BY <1>4, <3>1
  <2>3. ASSUME NEW n \in Node, NEW p \in Node, node'[n].reign # 0, node'[n].reign = node'[p].reign
        PROVE  n = p
    <3>1. node[n].reign # 0 /\ node[n].reign = node[p].reign
      BY <2>3
    <3> QED BY <3>1 DEF NodesInv, KvInv
  <2> QED BY <2>1, <2>2, <2>3 DEF NodesInv
<1>6. \A p \in Node : Rules(p)' => Rules(p) /\ node[p].applied <= node'[p].applied
  BY DEF Rules
<1>7. AckedInv'
  <2> SUFFICES ASSUME NEW n \in Node, NEW p \in Node, Rules(n)', acked[p] # 0
               PROVE  log[acked[p]].reign < newest \/ (p = n /\ acked[p] <= node'[n].applied)
    BY DEF AckedInv
  <2>1. log[acked[p]].reign < newest \/ (p = n /\ acked[p] <= node[n].applied)
    BY <1>6 DEF AckedInv, KvInv
  <2>2. node[n].applied <= node'[n].applied
    BY <1>6
  <2> QED BY <1>4, <2>1, <2>2
<1>8. ASSUME NEW c \in Client PROVE CallInv(calls[c])'
  <2>1. CASE calls'[c] = Idle
    <3>1. calls'[c].pc = "idle"
      BY <2>1, CallShape
    <3> QED BY <3>1 DEF CallInv
  <2>2. CASE calls'[c] = calls[c]
    <3>1. CallInv(calls[c])
      BY DEF KvInv
    <3> QED BY <2>2, <3>1, <1>2, <1>6 DEF CallInv
  <2> QED BY <2>1, <2>2
<1> QED BY <1>1, <1>3, <1>5, <1>7, <1>8 DEF KvInv

\* Every save leaves a number on disk.
LEMMA SavesType ==
  ASSUME NEW U, Typed(U), NEW n \in Node, Saves(n)
  PROVE  disk' \in [Node -> Nat]
<1>1. node[n].applied \in Nat
  BY DEF Typed, NodeRec
<1> QED BY <1>1 DEF Saves, Typed

LEMMA FollowStep ==
  ASSUME KvInv, NEW n \in Node, NEW l, node' = [node EXCEPT ![n].reign = 0, ![n].leader = l],
         Saves(n) \/ UNCHANGED disk, UNCHANGED <<log, open, newest, calls, acked, forgot>>
  PROVE  KvInv'
<1>1. PICK U : Typed(U) /\ {l} \subseteq U
  BY TypedWith
<1>2. /\ node' \in [Node -> NodeRec(U)]
      /\ \A p \in Node : node'[p].reign \in {0, node[p].reign} /\ node'[p].applied = node[p].applied
  BY <1>1 DEF Typed, NodeRec
<1>3. \A p \in Node : node[p].applied \in Nat /\ node[p].applied <= Len(log)
  BY <1>1 DEF Typed, NodeRec, KvInv, NodesInv
<1>4. calls' \in [Client -> AnyCall(U)]
  BY <1>1 DEF Typed
<1>5. disk' \in [Node -> Nat]
  BY <1>1, SavesType DEF Typed
<1>6. \A p \in Node : node[p].applied <= node'[p].applied /\ node'[p].applied <= Len(log)
  BY <1>2, <1>3
<1> QED BY <1>1, <1>2, <1>4, <1>5, <1>6, NodeStep

LEMMA ApplyNextStep ==
  ASSUME KvInv, NEW n \in Node, ApplyNext(n)
  PROVE  KvInv'
<1> DEFINE kv == Applied(node[n].kv, log[node[n].applied + 1].text)
<1>1. PICK U : Typed(U) /\ {kv} \subseteq U
  BY TypedWith
<1>2. /\ node' = [node EXCEPT ![n].applied = @ + 1, ![n].kv = kv]
      /\ node[n].applied < Len(log) /\ UNCHANGED <<log, open, newest, calls, acked, forgot>>
      /\ disk' = [disk EXCEPT ![n] = node[n].applied + 1] \/ UNCHANGED disk
  BY DEF ApplyNext
<1> HIDE DEF kv
<1>3. /\ node' \in [Node -> NodeRec(U)]
      /\ \A p \in Node : /\ node'[p].reign = node[p].reign
                         /\ p # n => node'[p].applied = node[p].applied
      /\ node'[n].applied = node[n].applied + 1
  <2> DEFINE a == node[n].applied + 1
             z == [node[n] EXCEPT !.applied = a, !.kv = kv]
  <2>1. node[n] \in NodeRec(U) /\ a \in Nat
    BY <1>1 DEF Typed, NodeRec
  <2>2. node' = [node EXCEPT ![n].applied = a, ![n].kv = kv]
    BY <1>2
  <2> HIDE DEF a
  <2>3. node' = [node EXCEPT ![n] = z]
    BY <1>1, <2>1, <2>2 DEF Typed, NodeRec
  <2>4. z \in NodeRec(U) /\ z.reign = node[n].reign /\ z.applied = a
    BY <1>1, <2>1 DEF NodeRec
  <2> HIDE DEF z
  <2> QED BY <1>1, <2>3, <2>4 DEF Typed, a
<1>4. \A p \in Node : node[p].applied \in Nat /\ node[p].applied <= Len(log)
  BY <1>1 DEF Typed, NodeRec, KvInv, NodesInv
<1>5. Len(log) \in Nat
  BY <1>1, ProposedType
<1>6. calls' \in [Client -> AnyCall(U)]
  BY <1>1, <1>2 DEF Typed
<1>7. \A p \in Node : node[p].applied <= node'[p].applied /\ node'[p].applied <= Len(log)
  BY <1>2, <1>3, <1>4, <1>5
<1>8. disk' \in [Node -> Nat]
  BY <1>1, <1>2, <1>4 DEF Typed
<1> QED BY <1>1, <1>2, <1>3, <1>6, <1>7, <1>8, NodeStep

LEMMA RestartStep ==
  ASSUME KvInv, NEW n \in Node, Restart(n)
  PROVE  KvInv'
<1>1. PICK i \in disk[n] .. Len(log) :
        LET ok == \A k \in 1 .. i : CanApply(log[k].text) IN
        /\ node' = [node EXCEPT ![n] =
                      IF ok THEN [reign |-> 0, leader |-> Nil, applied |-> i, kv |-> Replayed(i),
                                  up |-> TRUE]
                      ELSE [@ EXCEPT !.reign = 0, !.leader = Nil, !.up = FALSE]]
        /\ disk' = [disk EXCEPT ![n] = IF ok THEN i ELSE @]
  BY DEF Restart
<1> DEFINE kv == Replayed(i)
           x == [reign |-> 0, leader |-> Nil, applied |-> i, kv |-> kv, up |-> TRUE]
           y == [node[n] EXCEPT !.reign = 0, !.leader = Nil, !.up = FALSE]
<1>2. PICK U : Typed(U) /\ {kv, Nil} \subseteq U
  BY TypedWith
<1>3. /\ node' = [node EXCEPT ![n] = x] \/ node' = [node EXCEPT ![n] = y]
      /\ disk' = [disk EXCEPT ![n] = i] \/ disk' = [disk EXCEPT ![n] = @]
  BY <1>1
<1> HIDE DEF kv
<1>4. \A p \in Node : node[p].applied \in Nat /\ node[p].applied <= Len(log) /\ disk[p] \in Nat
  BY <1>2 DEF Typed, NodeRec, KvInv, NodesInv
<1>5. Len(log) \in Nat
  BY <1>2, ProposedType
<1>5a. i \in Nat /\ node[n] \in NodeRec(U) /\ disk[n] <= i /\ i <= Len(log)
  BY <1>2, <1>4, <1>5 DEF Typed
<1>5b. x \in NodeRec(U) /\ x.reign = 0 /\ x.applied = i
  BY <1>2, <1>5a DEF NodeRec
<1>5c. y \in NodeRec(U) /\ y.reign = 0 /\ y.applied = node[n].applied
  BY <1>2, <1>5a DEF NodeRec
<1>5d. disk' \in [Node -> Nat]
  BY <1>2, <1>3, <1>5a DEF Typed
<1> HIDE DEF x, y
<1>6. forgot' = IF disk[n] < node[n].applied THEN forgot \cup {n} ELSE forgot
  BY DEF Restart
<1>7. /\ node' \in [Node -> NodeRec(U)]
      /\ \A p \in Node \ {n} : node'[p] = node[p]
      /\ node'[n].reign = 0 /\ node'[n].applied \in {i, node[n].applied}
  BY <1>2, <1>3, <1>5b, <1>5c DEF Typed
<1>8. \A p \in Node : /\ node'[p].reign \in {0, node[p].reign}
                      /\ node'[p].applied <= Len(log)
                      /\ \/ node[p].applied <= node'[p].applied
                         \/ p \in forgot' /\ node'[p].reign = 0
  <2>1. ASSUME NEW p \in Node \ {n}
        PROVE  /\ node'[p].reign = node[p].reign /\ node'[p].applied <= Len(log)
               /\ node[p].applied <= node'[p].applied
    BY <1>4, <1>7, <2>1
  <2>2. node'[n].applied <= Len(log)
    BY <1>4, <1>5a, <1>7
  <2>3. node[n].applied <= node'[n].applied \/ n \in forgot'
    <3>1. CASE disk[n] < node[n].applied
      BY <1>6, <3>1
    <3>2. CASE ~(disk[n] < node[n].applied)
      BY <1>4, <1>5a, <1>7, <3>2
    <3> QED BY <3>1, <3>2
  <2> QED BY <1>7, <2>1, <2>2, <2>3
<1>9. calls' \in [Client -> AnyCall(U)] /\ \A c \in Client : calls'[c] \in {calls[c], Idle}
  BY <1>2 DEF Restart, Typed, AnyCall
<1>10. UNCHANGED <<log, open, newest, acked>> /\ forgot \subseteq forgot'
  BY <1>6 DEF Restart
<1> QED BY <1>2, <1>5d, <1>7, <1>8, <1>9, <1>10, NodeStep

----------------------------------------------------------------------------
(* Entries *)

LEMMA EntryTypes ==
  ASSUME NEW U, Typed(U)
  PROVE  /\ \A e \in open : e.id \in Nat /\ e.reign \in Nat
         /\ \A i \in 1 .. Len(log) : log[i].id \in Nat /\ log[i].reign \in Nat
<1>1. \A e \in EntryRec(U) : e.id \in Nat /\ e.reign \in Nat
  BY DEF EntryRec
<1>2. log \in Seq(EntryRec(U)) /\ open \subseteq EntryRec(U)
  BY DEF Typed
<1>3. \A i \in 1 .. Len(log) : log[i] \in EntryRec(U)
  BY <1>2
<1> QED BY <1>1, <1>2, <1>3

LEMMA EntryBounds ==
  ASSUME KvInv
  PROVE  /\ \A e \in open : e.id <= Proposed /\ e.reign <= newest
         /\ \A i \in 1 .. Len(log) : log[i].id <= Proposed /\ log[i].reign <= newest
         /\ \A i, j \in 1 .. Len(log) : i <= j => log[i].reign <= log[j].reign
BY DEF KvInv, EntriesInv

LEMMA NodeBounds ==
  ASSUME KvInv, NEW U, Typed(U)
  PROVE  \A p \in Node : /\ node[p].reign \in Nat /\ node[p].reign <= newest /\ acked[p] \in Nat
                         /\ acked[p] <= Len(log) /\ node[p].applied <= Len(log)
                         /\ node[p].applied \in Nat
<1>1. \A p \in Node : /\ node[p].reign <= newest /\ acked[p] <= Len(log)
                      /\ node[p].applied <= Len(log)
  BY DEF KvInv, NodesInv
<1>2. \A p \in Node : node[p].reign \in Nat /\ acked[p] \in Nat /\ node[p].applied \in Nat
  BY DEF Typed, NodeRec
<1> QED BY <1>1, <1>2

\* A leader takes an entry: it has a number of its own.
LEMMA EntryTaken ==
  ASSUME KvInv, NEW U, Typed(U), NEW e \in EntryRec(U), e.id = Proposed + 1, e.reign <= newest',
         newest' \in Nat, newest <= newest', open' = open \cup {e}, log' = log
  PROVE  /\ EntriesInv' /\ Proposed' = Proposed + 1 /\ IsFiniteSet(open') /\ open' \subseteq EntryRec(U)
         /\ \A i \in 1 .. Len(log) : log[i].id # Proposed + 1
         /\ \A d \in open : d.id # Proposed + 1
<1>1. /\ Len(log) \in Nat /\ Cardinality(open) \in Nat /\ Proposed \in Nat /\ newest \in Nat
      /\ IsFiniteSet(open) /\ \A d \in open \cup {e} : d.id \in Nat /\ d.reign \in Nat
      /\ \A i \in 1 .. Len(log) : log[i].id \in Nat /\ log[i].reign \in Nat
  <2>1. e.id \in Nat /\ e.reign \in Nat
    BY DEF EntryRec
  <2> QED BY <2>1, ProposedType, EntryTypes DEF Typed
<1>2. /\ \A d \in open : d.id <= Proposed /\ d.reign <= newest
      /\ \A i \in 1 .. Len(log) : log[i].id <= Proposed /\ log[i].reign <= newest
      /\ \A i, j \in 1 .. Len(log) : i <= j => log[i].reign <= log[j].reign
  BY EntryBounds
<1>3. /\ \A i \in 1 .. Len(log) : log[i].id # Proposed + 1
      /\ \A d \in open : d.id # Proposed + 1
  BY <1>1, <1>2
<1>4. e \notin open
  BY <1>3
<1>5. IsFiniteSet(open') /\ Cardinality(open') = Cardinality(open) + 1
  BY <1>1, <1>4, FS_AddElement
<1>6. Proposed' = Proposed + 1
  BY <1>1, <1>5 DEF Proposed
<1>7. EntriesInv'
  <2>1. \A d \in open' : d.id <= Proposed' /\ d.reign <= newest'
    BY <1>1, <1>2, <1>6
  <2>2. \A i \in 1 .. Len(log') : log'[i].id <= Proposed' /\ log'[i].reign <= newest'
    BY <1>1, <1>2, <1>6
  <2> QED BY <1>2, <2>1, <2>2 DEF EntriesInv
<1> QED BY <1>3, <1>5, <1>6, <1>7 DEF Typed

LEMMA ElectStep ==
  ASSUME KvInv, NEW n \in Node, Elect(n)
  PROVE  KvInv'
<1>1. PICK U : Typed(U) /\ {n, NoOp, NoOpText} \subseteq U
  BY TypedWith
<1>2. /\ newest' = newest + 1 /\ open' = open \cup {Entry(NoOpText, NoOp, newest + 1)}
      /\ node' = [node EXCEPT ![n].reign = newest + 1, ![n].leader = n]
      /\ UNCHANGED <<log, calls, acked, forgot>> /\ Saves(n)
  BY DEF Elect
<1> DEFINE e == Entry(NoOpText, NoOp, newest + 1)
<1>3. Proposed \in Nat /\ newest \in Nat /\ Len(log) \in Nat
  BY <1>1, ProposedType DEF Typed
<1>4. e \in EntryRec(U) /\ e.id = Proposed + 1 /\ e.reign = newest + 1
  BY <1>1, <1>3 DEF EntryRec, Entry
<1> HIDE DEF e
<1>5. /\ EntriesInv' /\ Proposed' = Proposed + 1 /\ IsFiniteSet(open') /\ open' \subseteq EntryRec(U)
      /\ \A d \in open : d.id # Proposed + 1
  <2>1. open' = open \cup {e} /\ log' = log
    BY <1>2 DEF e
  <2>2. newest' \in Nat /\ newest <= newest' /\ e.reign <= newest'
    BY <1>2, <1>3, <1>4
  <2> QED BY <1>1, <1>4, <2>1, <2>2, EntryTaken
<1>6. /\ node' \in [Node -> NodeRec(U)] /\ node'[n].reign = newest + 1
      /\ \A p \in Node \ {n} : node'[p].reign = node[p].reign
      /\ \A p \in Node : node'[p].applied = node[p].applied
  <2> DEFINE r == newest + 1
             z == [node[n] EXCEPT !.reign = r, !.leader = n]
  <2>1. node[n] \in NodeRec(U) /\ r \in Nat
    BY <1>1, <1>3 DEF Typed
  <2>2. node' = [node EXCEPT ![n].reign = r, ![n].leader = n]
    BY <1>2
  <2> HIDE DEF r
  <2>3. node' = [node EXCEPT ![n] = z]
    BY <1>1, <2>1, <2>2 DEF Typed, NodeRec
  <2>4. z \in NodeRec(U) /\ z.reign = r /\ z.applied = node[n].applied
    BY <1>1, <2>1 DEF NodeRec
  <2> HIDE DEF z
  <2> QED BY <1>1, <2>3, <2>4 DEF Typed, r
<1>7. Typed(U)'
  <2>1. disk' \in [Node -> Nat]
    BY <1>1, <1>2, SavesType
  <2> QED BY <1>1, <1>2, <1>3, <1>5, <1>6, <2>1 DEF Typed
<1>8. \A p \in Node : /\ node[p].reign \in Nat /\ node[p].reign <= newest /\ acked[p] \in Nat
                      /\ acked[p] <= Len(log) /\ node[p].applied <= Len(log)
                      /\ node[p].applied \in Nat
  BY <1>1, NodeBounds
<1>9. NodesInv'
  BY <1>2, <1>3, <1>6, <1>8 DEF NodesInv, KvInv
<1>10. \A i \in 1 .. Len(log) : log[i].reign \in Nat /\ log[i].reign <= newest
  BY <1>1, EntryTypes, EntryBounds
<1>11. AckedInv'
  BY <1>2, <1>3, <1>8, <1>10, SMTT(60) DEF AckedInv
<1>12. ASSUME NEW c \in Client PROVE CallInv(calls[c])'
  <2>1. CallInv(calls[c]) /\ calls'[c] = calls[c]
    BY <1>2 DEF KvInv
  <2>2. CASE calls[c].pc \in {"replicating", "applying"}
    <3>1. calls[c] \in CallRec(U)
      BY <1>1, <2>2, OpenCall
    <3>2. calls[c].id \in Nat /\ calls[c].reign \in Nat
      BY <3>1 DEF CallRec
    <3>3. calls[c].id <= Proposed /\ calls[c].reign <= newest
      BY <2>1, <2>2 DEF CallInv
    <3>4. calls[c].id # e.id
      BY <1>3, <1>4, <3>2, <3>3
    <3> QED BY <1>2, <1>3, <1>5, <2>1, <2>2, <3>2, <3>3, <3>4 DEF CallInv, e
  <2>3. CASE calls[c].pc \notin {"replicating", "applying"}
    BY <1>2, <2>1, <2>3 DEF CallInv
  <2> QED BY <2>2, <2>3
<1> QED BY <1>5, <1>7, <1>9, <1>11, <1>12 DEF KvInv

LEMMA CommitStep ==
  ASSUME KvInv, NEW e \in open, Commit(e)
  PROVE  KvInv'
<1>1. PICK U : Typed(U)
  BY DEF KvInv
<1>2. /\ \A i \in DOMAIN log : log[i].reign <= e.reign
      /\ log' = Append(log, e) /\ open' = open \ {e}
      /\ UNCHANGED <<newest, node, calls, disk, acked, forgot>>
  BY DEF Commit
<1>3. /\ Len(log) \in Nat /\ Cardinality(open) \in Nat /\ Proposed \in Nat /\ newest \in Nat
      /\ DOMAIN log = 1 .. Len(log)
  BY <1>1, ProposedType DEF Typed
<1>4. e \in EntryRec(U) /\ log \in Seq(EntryRec(U)) /\ IsFiniteSet(open)
  BY <1>1 DEF Typed
<1>5. /\ log' \in Seq(EntryRec(U)) /\ Len(log') = Len(log) + 1 /\ log'[Len(log) + 1] = e
      /\ \A i \in 1 .. Len(log) : log'[i] = log[i]
  BY <1>2, <1>4
<1>6. IsFiniteSet(open') /\ Cardinality(open') = Cardinality(open) - 1
  BY <1>2, <1>4, FS_RemoveElement
<1>7. Proposed' = Proposed
  BY <1>3, <1>5, <1>6 DEF Proposed
<1>8. Typed(U)'
  BY <1>1, <1>2, <1>5, <1>6 DEF Typed
<1>9. /\ \A d \in open : d.id <= Proposed /\ d.reign <= newest /\ d.reign \in Nat
      /\ \A i \in 1 .. Len(log) : log[i].id <= Proposed /\ log[i].reign <= newest /\ log[i].reign \in Nat
      /\ \A i, j \in 1 .. Len(log) : i <= j => log[i].reign <= log[j].reign
  BY <1>1, EntryTypes, EntryBounds
<1>10. \A i \in 1 .. Len(log') : i \in 1 .. Len(log) \/ i = Len(log) + 1
  BY <1>3, <1>5
<1>11. EntriesInv'
  <2>1. \A i \in 1 .. Len(log') : log'[i].id <= Proposed /\ log'[i].reign <= newest
    BY <1>5, <1>9, <1>10
  <2>2. ASSUME NEW i \in 1 .. Len(log'), NEW j \in 1 .. Len(log'), i <= j
        PROVE  log'[i].reign <= log'[j].reign
    <3>1. CASE j = Len(log) + 1
      BY <1>2, <1>3, <1>5, <1>9, <1>10, <3>1
    <3>2. CASE j \in 1 .. Len(log)
      <4>1. i \in 1 .. Len(log)
        BY <1>3, <1>10, <2>2, <3>2
      <4>2. log'[i] = log[i] /\ log'[j] = log[j]
        BY <1>5, <3>2, <4>1
      <4>3. log[i].reign <= log[j].reign
        BY <1>9, <2>2, <3>2, <4>1
      <4> QED BY <4>2, <4>3
    <3> QED BY <1>10, <3>1, <3>2
  <2> QED BY <1>2, <1>7, <1>9, <2>1, <2>2 DEF EntriesInv
<1>12. \A p \in Node : /\ node[p].applied \in Nat /\ acked[p] \in Nat
                       /\ acked[p] <= Len(log) /\ node[p].applied <= Len(log)
  BY <1>1, NodeBounds
<1>13. NodesInv'
  BY <1>2, <1>3, <1>5, <1>12 DEF NodesInv, KvInv
<1>14. AckedInv'
  BY <1>2, <1>3, <1>5, <1>12 DEF AckedInv, KvInv, Rules
<1>15. ASSUME NEW c \in Client PROVE CallInv(calls[c])'
  <2>1. CallInv(calls[c]) /\ calls'[c] = calls[c]
    BY <1>2 DEF KvInv
  <2>2. \A p \in Node : Rules(p)' = Rules(p)
    BY <1>2 DEF Rules
  <2>3. \A d \in open' : d.id = calls[c].id => d \in open
    BY <1>2
  <2>4. CASE calls[c].pc \in {"replicating", "applying"}
    <3>1. \A i \in 1 .. Len(log') : log'[i].id = calls[c].id => log'[i].reign = calls[c].reign
      BY <1>5, <1>10, <2>1, <2>4 DEF CallInv
    <3>2. (\E i \in 1 .. Len(log) : log[i].id = calls[c].id)
            => \E i \in 1 .. Len(log') : log'[i].id = calls[c].id
      BY <1>3, <1>5
    <3> QED BY <1>2, <1>7, <2>1, <2>2, <2>3, <2>4, <3>1, <3>2 DEF CallInv
  <2>5. CASE calls[c].pc \notin {"replicating", "applying"}
    BY <1>2, <2>1, <2>5 DEF CallInv
  <2> QED BY <2>4, <2>5
<1> QED BY <1>8, <1>11, <1>13, <1>14, <1>15 DEF KvInv

\* Propose, when it makes an entry.
Takes(c, e) ==
  /\ calls[c].pc = "proposing"
  /\ e = Entry(Serialize(calls[c].cmd), calls[c].cmd, node[calls[c].at].reign)
  /\ open' = open \cup {e}
  /\ Goto(c, [calls[c] EXCEPT !.pc = "replicating", !.id = e.id,
                              !.reign = node[calls[c].at].reign, !.leader = calls[c].at])
  /\ Saves(calls[c].at)
  /\ UNCHANGED <<log, newest, node, acked, forgot>>

LEMMA ProposeTaken ==
  ASSUME KvInv, NEW c \in Client, NEW e, Takes(c, e)
  PROVE  KvInv'
<1> DEFINE n == calls[c].at
           r == node[n].reign
           text == Serialize(calls[c].cmd)
           x == [calls[c] EXCEPT !.pc = "replicating", !.id = e.id, !.reign = r, !.leader = n]
<1>1. PICK U : Typed(U) /\ {text, n} \subseteq U
  BY TypedWith
<1>2. calls[c] \in CallRec(U) /\ calls[c].pc = "proposing"
  BY <1>1, OpenCall DEF Takes
<1>3. Proposed \in Nat /\ newest \in Nat /\ Len(log) \in Nat /\ n \in Node /\ calls[c].cmd \in U
  BY <1>1, <1>2, ProposedType DEF Typed, CallRec
<1>4. r \in Nat /\ r <= newest
  BY <1>1, <1>3, NodeBounds
<1>5. Goto(c, x)
  BY DEF Takes
<1>5a. /\ open' = open \cup {e} /\ log' = log /\ newest' = newest /\ node' = node /\ acked' = acked
       /\ forgot' = forgot
  BY DEF Takes
<1>5b. disk' \in [Node -> Nat]
  BY <1>1, <1>3, SavesType DEF Takes
<1> HIDE DEF text, n, r
<1>6. e \in EntryRec(U) /\ e.id = Proposed + 1 /\ e.reign = r
  <2>1. e = Entry(text, calls[c].cmd, r)
    BY DEF text, r, n, Takes
  <2> QED BY <1>1, <1>3, <1>4, <2>1 DEF EntryRec, Entry
<1>7. /\ EntriesInv' /\ Proposed' = Proposed + 1 /\ IsFiniteSet(open') /\ open' \subseteq EntryRec(U)
      /\ \A i \in 1 .. Len(log) : log[i].id # Proposed + 1
      /\ \A d \in open : d.id # Proposed + 1
  <2>1. newest' \in Nat /\ newest <= newest' /\ e.reign <= newest'
    BY <1>3, <1>4, <1>5a, <1>6
  <2> QED BY <1>1, <1>5a, <1>6, <2>1, EntryTaken
<1>8. e.id \in Nat
  BY <1>3, <1>6, SMTT(60)
<1>9. /\ x \in CallRec(U) /\ x.pc = "replicating" /\ x.id = Proposed + 1 /\ x.reign = r /\ x.at = n
      /\ x.kind = calls[c].kind
  <2>1. /\ x \in CallRec(U) /\ x.pc = "replicating" /\ x.id = e.id /\ x.reign = r
        /\ x.at = calls[c].at /\ x.kind = calls[c].kind
    BY <1>1, <1>2, <1>3, <1>4, <1>8 DEF CallRec
  <2> QED BY <2>1, <1>6 DEF n
<1> HIDE DEF x
<1>10. /\ calls' \in [Client -> AnyCall(U)] /\ calls'[c] = x
       /\ \A d \in Client \ {c} : calls'[d] = calls[d]
  BY <1>1, <1>5, <1>9 DEF Goto, Typed, AnyCall
<1>11. Typed(U)'
  BY <1>1, <1>5a, <1>5b, <1>7, <1>10 DEF Typed
<1>12. NodesInv' /\ AckedInv' /\ \A p \in Node : Rules(p)' = Rules(p)
  BY <1>5a DEF KvInv, NodesInv, AckedInv, Rules
<1>13. CallInv(calls[c])'
  <2>1. \A p \in Node : Rules(p) /\ n # p => r < newest
    <3>1. \A p \in Node : node[p].reign # 0 /\ node[p].reign = node[n].reign => p = n
      BY <1>3 DEF KvInv, NodesInv
    <3> QED BY <1>3, <1>4, <3>1 DEF Rules, r
  <2>2. calls[c].kind = "write"
    BY <1>2 DEF KvInv, CallInv
  <2>3. x.id <= Proposed' /\ x.reign <= newest'
    <3>1. x.id = Proposed + 1 /\ Proposed' = Proposed + 1 /\ x.reign = r /\ newest' = newest
      BY <1>5a, <1>7, <1>9, Zenon
    <3> QED BY <1>3, <1>4, <3>1
  <2>4. \A f \in open' : f.id = x.id => f.reign = x.reign
    BY <1>5a, <1>6, <1>7, <1>9
  <2>5. \A i \in 1 .. Len(log') : log'[i].id # x.id
    BY <1>5a, <1>7, <1>9
  <2>6. \A p \in Node : Rules(p)' /\ x.at # p => x.reign < newest'
    BY <1>5a, <1>9, <1>12, <2>1
  <2> QED BY <1>9, <1>10, <2>2, <2>3, <2>4, <2>5, <2>6 DEF CallInv
<1>14. ASSUME NEW d \in Client \ {c} PROVE CallInv(calls[d])'
  <2>1. CallInv(calls[d]) /\ calls'[d] = calls[d]
    BY <1>10 DEF KvInv
  <2>2. CASE calls[d].pc \in {"replicating", "applying"}
    <3>1. calls[d] \in CallRec(U)
      BY <1>1, <2>2, OpenCall
    <3>2. calls[d].id \in Nat /\ calls[d].reign \in Nat
      BY <3>1 DEF CallRec
    <3>3. calls[d].id <= Proposed
      BY <2>1, <2>2 DEF CallInv
    <3>4. calls[d].id # e.id /\ calls[d].id <= Proposed'
      <4>1. Proposed' = Proposed + 1 /\ e.id = Proposed + 1 /\ Proposed \in Nat
        BY <1>3, <1>6, <1>7, Zenon
      <4> QED BY <3>2, <3>3, <4>1
    <3>5. \A f \in open' : f.id = calls[d].id => f \in open
      BY <1>5a, <3>4
    <3> QED BY <1>5a, <1>12, <2>1, <2>2, <3>4, <3>5 DEF CallInv
  <2>3. CASE calls[d].pc \notin {"replicating", "applying"}
    BY <1>5a, <2>1, <2>3 DEF CallInv
  <2> QED BY <2>2, <2>3
<1> QED BY <1>7, <1>11, <1>12, <1>13, <1>14 DEF KvInv

LEMMA ProposeStep ==
  ASSUME KvInv, NEW c \in Client, Propose(c)
  PROVE  KvInv'
<1> DEFINE e == Entry(Serialize(calls[c].cmd), calls[c].cmd, node[calls[c].at].reign)
           Refused(code, leader) ==
             /\ UNCHANGED <<open, disk>>
             /\ Goto(c, [calls[c] EXCEPT !.pc = "answering", !.code = code, !.leader = leader])
           Taken ==
             /\ open' = open \cup {e} /\ Saves(calls[c].at)
             /\ Goto(c, [calls[c] EXCEPT !.pc = "replicating", !.id = e.id,
                                         !.reign = node[calls[c].at].reign, !.leader = calls[c].at])
<1>1. calls[c].pc = "proposing" /\ UNCHANGED <<log, newest, node, acked, forgot>>
  BY DEF Propose
<1>2. \/ Refused("NODE_STOPPING", node[calls[c].at].leader)
      \/ Refused("NOT_LEADER", node[calls[c].at].leader)
      \/ \E code \in {"INVALID_ARGUMENT", "INTERNAL"} : Refused(code, calls[c].at)
      \/ Taken
  BY DEF Propose
<1> HIDE DEF e
<1>3. {"NODE_STOPPING", "NOT_LEADER", "INVALID_ARGUMENT", "INTERNAL"} \subseteq Code
  BY DEF Code
<1>4. ASSUME NEW code \in Code, NEW leader, Refused(code, leader) PROVE KvInv'
  BY <1>1, <1>4, ProposeRefused
<1> HIDE DEF Refused
<1>5. CASE Taken
  BY <1>1, <1>5, ProposeTaken DEF e, Takes
<1> HIDE DEF Taken
<1> QED BY <1>2, <1>3, <1>4, <1>5

\* Propose answers OK: its entry is committed and applied here, and it is of the
\* reign in which this node took it.
LEMMA ProposeOk ==
  ASSUME KvInv, NEW c \in Client, calls[c].pc = "applying", OkOnceApplied(calls[c]),
         Goto(c, [calls[c] EXCEPT !.pc = "answering", !.code = "OK"]),
         acked' = [acked EXCEPT ![calls[c].at] =
                     IF @ > IndexOf(calls[c].id) THEN @ ELSE IndexOf(calls[c].id)],
         UNCHANGED <<log, open, newest, node, disk, forgot>>
  PROVE  KvInv'
<1> DEFINE p == calls[c].at
           j == IndexOf(calls[c].id)
           x == [calls[c] EXCEPT !.pc = "answering", !.code = "OK"]
<1>1. PICK U : Typed(U)
  BY DEF KvInv
<1>2. calls[c] \in CallRec(U) /\ CallInv(calls[c])
  BY <1>1, OpenCall DEF KvInv
<1>3. p \in Node /\ "OK" \in Code
  BY <1>2 DEF CallRec, Code
<1>4. /\ Len(log) \in Nat /\ newest \in Nat /\ DOMAIN log = 1 .. Len(log)
      /\ \A q \in Node : acked[q] \in Nat /\ node[q].applied \in Nat
  BY <1>1, ProposedType, NodeBounds DEF Typed
<1>5. j \in 1 .. Len(log) /\ log[j].id = calls[c].id
  BY <1>2, <1>4 DEF CallInv, IndexOf
<1>6. log[j].reign = calls[c].reign /\ \A n \in Node : Rules(n) /\ p # n => log[j].reign < newest
  BY <1>2, <1>5 DEF CallInv
<1>7. j <= node[p].applied
  BY <1>4, <1>5 DEF OkOnceApplied
<1>8. Goto(c, x)
  OBVIOUS
<1>9. x \in CallRec(U) /\ x.pc = "answering" /\ x.kind = calls[c].kind
  BY <1>2, <1>3 DEF CallRec
<1>10. calls[c].kind = "write"
  BY <1>2 DEF CallInv
<1> HIDE DEF j, x
<1>11. /\ acked' \in [Node -> Nat] /\ \A q \in Node : q # p => acked'[q] = acked[q]
       /\ acked'[p] \in {acked[p], j} /\ acked[p] <= acked'[p]
  BY <1>1, <1>3, <1>4, <1>5 DEF Typed, j
<1>12. /\ calls' \in [Client -> AnyCall(U)] /\ calls'[c] = x
       /\ \A d \in Client \ {c} : calls'[d] = calls[d]
  BY <1>1, <1>8, <1>9 DEF Goto, Typed, AnyCall
<1> HIDE DEF p
<1>13. Typed(U)' /\ Proposed' = Proposed
  BY <1>1, <1>11, <1>12 DEF Typed, Proposed
<1>14. EntriesInv' /\ \A q \in Node : Rules(q)' = Rules(q)
  BY <1>13 DEF KvInv, EntriesInv, Rules
<1>15. NodesInv'
  <2>1. \A q \in Node : acked'[q] <= Len(log)
    BY <1>1, <1>3, <1>4, <1>5, <1>11, NodeBounds
  <2>2. ASSUME NEW q \in Node, q \notin forgot PROVE acked'[q] <= node[q].applied
    <3>1. acked[q] <= node[q].applied
      BY <2>2 DEF KvInv, NodesInv
    <3> QED BY <1>7, <1>11, <3>1
  <2> QED BY <2>1, <2>2 DEF KvInv, NodesInv
<1>16. AckedInv'
  <2> SUFFICES ASSUME NEW n \in Node, NEW q \in Node, Rules(n)', acked'[q] # 0
               PROVE  \/ log[acked'[q]].reign < newest
                      \/ q = n /\ acked'[q] <= node[n].applied
    BY DEF AckedInv
  <2>1. Rules(n)
    BY <1>14
  <2>2. CASE acked'[q] = acked[q]
    BY <2>1, <2>2 DEF KvInv, AckedInv
  <2>3. CASE q = p /\ acked'[q] = j
    BY <1>6, <1>7, <2>1, <2>3
  <2> QED BY <1>11, <2>2, <2>3
<1>17. \A q \in Node : acked[q] <= acked'[q]
  BY <1>4, <1>11
<1>18. CallInv(calls[c])'
  BY <1>9, <1>10, <1>12 DEF CallInv
<1>19. ASSUME NEW d \in Client \ {c} PROVE CallInv(calls[d])'
  <2>1. CallInv(calls[d]) /\ calls'[d] = calls[d]
    BY <1>12 DEF KvInv
  <2>2. CASE calls[d].pc = "reading"
    <3>1. calls[d] \in CallRec(U)
      BY <1>1, <2>2, OpenCall
    <3>2. calls[d].at \in Node /\ calls[d].floor \in Nat
      BY <3>1 DEF CallRec
    <3>3. calls[d].floor <= acked[calls[d].at]
      BY <2>1, <2>2 DEF CallInv
    <3>4. calls[d].floor <= acked'[calls[d].at]
      <4> DEFINE q == calls[d].at
      <4>1. acked[q] \in Nat /\ acked'[q] \in Nat /\ acked[q] <= acked'[q]
        BY <1>4, <1>11, <1>17, <3>2
      <4> QED BY <3>2, <3>3, <4>1
    <3> QED BY <2>1, <2>2, <3>4 DEF CallInv
  <2>3. CASE calls[d].pc # "reading"
    BY <1>13, <1>14, <2>1, <2>3 DEF CallInv
  <2> QED BY <2>2, <2>3
<1> QED BY <1>13, <1>14, <1>15, <1>16, <1>18, <1>19 DEF KvInv

LEMMA ProposeEndsStep ==
  ASSUME KvInv, NEW c \in Client, ProposeEnds(c)
  PROVE  KvInv'
<1>1. calls[c].pc = "applying" /\ UNCHANGED <<log, open, newest, node, disk, forgot>>
  BY DEF ProposeEnds
<1> DEFINE x == [calls[c] EXCEPT !.pc = "answering", !.code = "INTERNAL"]
<1>2. CASE UNCHANGED acked /\ Goto(c, x)
  <2>1. PICK U : Typed(U)
    BY DEF KvInv
  <2>2. calls[c] \in CallRec(U)
    BY <1>1, <2>1, OpenCall
  <2>3. x \in CallRec(U) /\ x.pc = "answering" /\ x.kind = calls[c].kind
    BY <2>2 DEF CallRec, Code
  <2>4. calls[c].kind = "write"
    BY <1>1 DEF KvInv, CallInv
  <2> HIDE DEF x
  <2>5. CallInv(x) /\ x \in AnyCall(U)
    BY <2>3, <2>4 DEF CallInv, AnyCall
  <2> QED BY <1>1, <1>2, <2>1, <2>5, CallStep
<1>3. CASE ~(UNCHANGED acked /\ Goto(c, x))
  <2>1. /\ OkOnceApplied(calls[c])
        /\ Goto(c, [calls[c] EXCEPT !.pc = "answering", !.code = "OK"])
        /\ acked' = [acked EXCEPT ![calls[c].at] =
                       IF @ > IndexOf(calls[c].id) THEN @ ELSE IndexOf(calls[c].id)]
    BY <1>3 DEF ProposeEnds
  <2> QED BY <1>1, <2>1, ProposeOk
<1> QED BY <1>2, <1>3

LEMMA NextInv == KvInv /\ [Next]_vars => KvInv'
<1> SUFFICES ASSUME KvInv, [Next]_vars PROVE KvInv'
  OBVIOUS
<1>1. ASSUME NEW n \in Node, Elect(n) \/ StepDown(n) \/ ApplyNext(n) \/ Restart(n) PROVE KvInv'
  <2>1. CASE StepDown(n)
    BY <2>1, FollowStep DEF StepDown
  <2> QED BY <1>1, <2>1, ElectStep, ApplyNextStep, RestartStep
<1>2. ASSUME NEW n \in Node, NEW l \in Node, HearLeader(n, l) PROVE KvInv'
  BY <1>2, FollowStep DEF HearLeader
<1>3. ASSUME NEW e \in open, Commit(e) PROVE KvInv'
  BY <1>3, CommitStep
<1>4. ASSUME NEW c \in Writer, NEW n \in Node, NEW cmd \in Commands, Write(c, n, cmd) PROVE KvInv'
  BY <1>4, WriteStep DEF Client
<1>5. ASSUME NEW c \in Writer, Propose(c) \/ Replicated(c) \/ ProposeEnds(c) \/ WriteAnswers(c)
      PROVE  KvInv'
  BY <1>5, ProposeStep, ReplicatedStep, ProposeEndsStep, WriteAnswersStep DEF Client
<1>6. ASSUME NEW c \in Reader, NEW n \in Node, NEW k \in Key, Get(c, n, k) PROVE KvInv'
  BY <1>6, GetStep DEF Client
<1>7. ASSUME NEW c \in Reader, GetReads(c) PROVE KvInv'
  BY <1>7, GetReadsStep DEF Client
<1>8. CASE UNCHANGED vars
  <2>1. UNCHANGED <<log, open, newest, node, calls, disk, acked, forgot>>
    BY <1>8 DEF vars
  <2>2. PICK U : Typed(U)
    BY DEF KvInv
  <2>3. \A p \in Node : node[p].applied \in Nat /\ node[p].applied <= Len(log)
    BY <2>2, NodeBounds
  <2>4. /\ node' \in [Node -> NodeRec(U)] /\ calls' \in [Client -> AnyCall(U)]
        /\ disk' \in [Node -> Nat]
    BY <2>1, <2>2 DEF Typed
  <2> QED BY <2>1, <2>2, <2>3, <2>4, NodeStep
<1> QED BY <1>1, <1>2, <1>3, <1>4, <1>5, <1>6, <1>7, <1>8 DEF Next

----------------------------------------------------------------------------
(* Results *)

LEMMA KvServiceInvariant == Spec => []KvInv
BY InitInv, NextInv, PTL DEF Spec

\* A Get that DebugGetValue answers reflects every write that the same node
\* answered with OK before the Get began, unless the node restarted while its
\* disk was behind last_applied_, for any number of nodes, clients, reigns,
\* entries, restarts and saves that fail.
THEOREM GetSeesOwnAcks == Spec => []ReadsOwnAcks
<1>1. KvInv => ReadsOwnAcks
  BY DEF KvInv, CallInv, ReadsOwnAcks
<1> QED BY <1>1, KvServiceInvariant, PTL

\* Once the newest leader has applied an entry of its own reign, which the no-op
\* of BecomeLeader guarantees it, its state machine holds every write that any
\* node acknowledged.
THEOREM SettledLeaderCurrent == Spec => []SettledLeaderIsCurrent
<1>1. ASSUME KvInv PROVE SettledLeaderIsCurrent
  <2> SUFFICES ASSUME NEW n \in Node, Leads(n), node[n].reign = newest,
                      NEW i \in 1 .. node[n].applied, log[i].reign = newest, NEW p \in Node
               PROVE  acked[p] <= node[n].applied
    BY DEF SettledLeaderIsCurrent
  <2>1. PICK U : Typed(U)
    BY <1>1 DEF KvInv
  <2>2. /\ Len(log) \in Nat /\ newest \in Nat
        /\ \A q \in Node : /\ acked[q] \in Nat /\ node[q].applied \in Nat
                            /\ acked[q] <= Len(log) /\ node[q].applied <= Len(log)
    BY <1>1, <2>1, ProposedType, NodeBounds DEF Typed
  <2>3. CASE acked[p] > node[n].applied
    <3>1. i \in 1 .. Len(log) /\ acked[p] \in 1 .. Len(log) /\ i <= acked[p] /\ acked[p] # 0
      BY <2>2, <2>3
    <3>2. log[acked[p]].reign < newest
      <4>1. log[acked[p]].reign < newest \/ (p = n /\ acked[p] <= node[n].applied)
        BY <1>1, <3>1 DEF KvInv, AckedInv, Rules, Leads
      <4> QED BY <2>2, <2>3, <4>1
    <3>3. newest <= log[acked[p]].reign
      BY <1>1, <3>1, EntryBounds
    <3>4. log[acked[p]].reign \in Nat
      BY <2>1, <3>1, EntryTypes
    <3> QED BY <2>2, <3>2, <3>3, <3>4
  <2> QED BY <2>2, <2>3
<1> QED BY <1>1, KvServiceInvariant, PTL
=============================================================================
