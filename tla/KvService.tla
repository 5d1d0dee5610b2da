------------------------------ MODULE KvService ------------------------------
(***************************************************************************)
(* The KV service of every node and its clients                            *)
(* (src/modules/raft/service/kv_service_impl.cpp), over what RaftCluster   *)
(* establishes of the log below it: one log of committed entries, to which *)
(* only the newest leader adds; an entry of an earlier leader is committed *)
(* before any entry of the newest or never.                                *)
(*                                                                         *)
(* Every critical section of a call is a step: Propose and the             *)
(* GetStatusSnapshot after it, the role check of Get and its read.         *)
(***************************************************************************)
EXTENDS Command, FiniteSets

CONSTANTS
  Node, Nil,
  Writer, Reader,   \* clients that write, clients that read
  Key, Val,     \* the texts clients send
  MaxReigns,    \* bound on elections
  MaxEntries,   \* bound on entries proposed
  MaxRestarts,  \* bound on restarts
  MaxUnsaved    \* bound on saves of last_applied_ that fail

VARIABLES
  log,       \* committed entries: text, and the command and reign they come from
  open,      \* entries proposed and not committed
  newest,    \* the number of the last election
  node,      \* node[n]: reign it leads (0: none), leader_id_, last_applied_, kv_, running
  calls,     \* calls[c]: the call of client c
  disk,      \* disk[n]: the last_applied_ in n's newest save
  acked,     \* history: acked[n] is the last index for which n answered OK
  forgot,    \* history: nodes that restarted when disk was behind last_applied_
  restarts, unsaved

bounds == <<restarts, unsaved>>
vars == <<log, open, newest, node, calls, disk, acked, forgot, bounds>>

NoOp == [type |-> "NOP", key |-> NoText, value |-> NoText]

\* Entries are numbered in the order they are proposed.
Proposed == Len(log) + Cardinality(open)
Entry(text, cmd, reign) == [text |-> text, cmd |-> cmd, reign |-> reign, id |-> Proposed + 1]

Client == Writer \cup Reader

Idle == [pc |-> "idle"]
Up(n) == node[n].up
Leads(n) == node[n].reign # 0

Init ==
  /\ log = <<>> /\ open = {} /\ newest = 0 /\ restarts = 0 /\ unsaved = 0
  /\ node = [n \in Node |-> [reign |-> 0, leader |-> Nil, applied |-> 0, kv |-> <<>>, up |-> TRUE]]
  /\ calls = [c \in Client |-> Idle] /\ forgot = {}
  /\ acked = [n \in Node |-> 0] /\ disk = [n \in Node |-> 0]

----------------------------------------------------------------------------
(* The Raft nodes *)

\* PersistStateLocked: every save writes last_applied_ and a commit index that
\* is no lower.
Saves(n) == disk' = [disk EXCEPT ![n] = node[n].applied]

\* A node wins an election and proposes its no-op, which it saves.
Elect(n) ==
  /\ Up(n) /\ ~Leads(n) /\ newest < MaxReigns /\ newest' = newest + 1
  /\ node' = [node EXCEPT ![n].reign = newest + 1, ![n].leader = n]
  /\ open' = open \cup {Entry(NoOpText, NoOp, newest + 1)} /\ Saves(n)
  /\ UNCHANGED <<log, calls, acked, forgot, bounds>>

\* A message of the newest leader arrives.  A new term or new entries are saved.
HearLeader(n, l) ==
  /\ Up(n) /\ n # l /\ Leads(l) /\ node[l].reign = newest
  /\ node' = [node EXCEPT ![n].reign = 0, ![n].leader = l]
  /\ Saves(n) \/ UNCHANGED disk
  /\ UNCHANGED <<log, open, newest, calls, acked, forgot, bounds>>

\* A higher term arrives, without its leader.
StepDown(n) ==
  /\ Up(n) /\ node' = [node EXCEPT ![n].reign = 0, ![n].leader = Nil]
  /\ Saves(n) \/ UNCHANGED disk
  /\ UNCHANGED <<log, open, newest, calls, acked, forgot, bounds>>

\* Entries are committed in log order: a leader's in the order it took them,
\* and none of an earlier leader after one of a later.
Commit(e) ==
  /\ e \in open
  /\ \A other \in open : other.reign = e.reign => other.id >= e.id
  /\ \A i \in DOMAIN log : log[i].reign <= e.reign
  /\ log' = Append(log, e) /\ open' = open \ {e}
  /\ UNCHANGED <<newest, node, calls, disk, acked, forgot, bounds>>

\* One turn of ApplyCommittedEntries; the loop stops at a text that fails, and
\* after a save that fails, which leaves last_applied_ as it is in memory.
ApplyNext(n) ==
  LET s == node[n] IN
  /\ Up(n) /\ s.applied < Len(log) /\ CanApply(log[s.applied + 1].text)
  /\ node' = [node EXCEPT ![n].applied = @ + 1,
                          ![n].kv = Applied(@, log[s.applied + 1].text)]
  /\ \/ disk' = [disk EXCEPT ![n] = s.applied + 1] /\ UNCHANGED unsaved
     \/ unsaved < MaxUnsaved /\ unsaved' = unsaved + 1 /\ UNCHANGED disk
  /\ UNCHANGED <<log, open, newest, calls, acked, forgot, restarts>>

\* What the log up to i makes of an empty map.
Replayed(i) ==
  LET f[k \in 0 .. i] == IF k = 0 THEN <<>> ELSE Applied(f[k - 1], log[k].text) IN f[i]

\* Fault: the commit index is not on disk, so nothing is replayed.
RestartEmpty(n) ==
  /\ restarts < MaxRestarts /\ restarts' = restarts + 1 /\ Up(n)
  /\ node' = [node EXCEPT ![n] =
                [reign |-> 0, leader |-> Nil, applied |-> 0, kv |-> <<>>, up |-> TRUE]]
  /\ calls' = [c \in Client |-> IF calls[c].pc # "idle" /\ calls[c].at = n THEN Idle ELSE calls[c]]
  /\ UNCHANGED <<log, open, newest, disk, acked, forgot, unsaved>>

\* A crash and a new process.  The constructor replays up to the commit index i
\* on disk, saving as it goes, and throws when an entry fails.
Restart(n) ==
  /\ restarts < MaxRestarts /\ restarts' = restarts + 1 /\ Up(n)
  /\ \E i \in disk[n] .. Len(log) :
       LET ok == \A k \in 1 .. i : CanApply(log[k].text) IN
       /\ node' = [node EXCEPT ![n] =
                     IF ok THEN [reign |-> 0, leader |-> Nil, applied |-> i, kv |-> Replayed(i),
                                 up |-> TRUE]
                     ELSE [@ EXCEPT !.reign = 0, !.leader = Nil, !.up = FALSE]]
       /\ disk' = [disk EXCEPT ![n] = IF ok THEN i ELSE @]
  /\ forgot' = IF disk[n] < node[n].applied THEN forgot \cup {n} ELSE forgot
  /\ calls' = [c \in Client |-> IF calls[c].pc # "idle" /\ calls[c].at = n THEN Idle ELSE calls[c]]
  /\ UNCHANGED <<log, open, newest, acked, unsaved>>

----------------------------------------------------------------------------
(* Put and Delete *)

Goto(c, call) == calls' = [calls EXCEPT ![c] = call]

NewCall(kind, cmd, n) ==
  [pc |-> "proposing", kind |-> kind, cmd |-> cmd, at |-> n, id |-> 0, reign |-> 0, code |-> "",
   leader |-> Nil, floor |-> acked[n]]

\* A finished call: its code, the leader_id and leader_address in the answer,
\* and, for a read, what it had to see and what it saw.
Answer(call, code, leader, address, seen) ==
  [pc |-> "done", kind |-> call.kind, at |-> call.at, code |-> code, leader |-> leader,
   address |-> address, floor |-> call.floor, seen |-> seen]

CanCall(c, n) == calls[c].pc \in {"idle", "done"} /\ Up(n)

\* Put and Delete validate their texts first.
Write(c, n, cmd) ==
  /\ CanCall(c, n)
  /\ LET call == NewCall("write", cmd, n)
         s == node[n]
     IN Goto(c, IF ValidateCommand(cmd) THEN call
                ELSE Answer(call, "INVALID_ARGUMENT", s.leader, s.leader, 0))
  /\ UNCHANGED <<log, open, newest, node, disk, acked, forgot, bounds>>

\* The critical section of Propose: a node that stops or does not lead refuses,
\* and a leader does when the command is past max_command_bytes
\* (INVALID_ARGUMENT) or AppendLocalLog fails (INTERNAL).
Propose(c) ==
  LET call == calls[c]
      s == node[call.at]
      entry == Entry(Serialize(call.cmd), call.cmd, s.reign)
      Refuses(code, leader) ==
        /\ Goto(c, [call EXCEPT !.pc = "answering", !.code = code, !.leader = leader])
        /\ UNCHANGED <<open, disk>>
  IN /\ call.pc = "proposing"
     /\ \/ Refuses("NODE_STOPPING", s.leader)
        \/ ~Leads(call.at) /\ Refuses("NOT_LEADER", s.leader)
        \/ Leads(call.at) /\ \E code \in {"INVALID_ARGUMENT", "INTERNAL"} : Refuses(code, call.at)
        \/ /\ Leads(call.at) /\ Proposed < MaxEntries
           /\ open' = open \cup {entry} /\ Saves(call.at)
           /\ Goto(c, [call EXCEPT !.pc = "replicating", !.id = entry.id, !.reign = s.reign,
                                   !.leader = call.at])
     /\ UNCHANGED <<log, newest, node, acked, forgot, bounds>>

IndexOf(id) == CHOOSE i \in DOMAIN log : log[i].id = id
IsCommitted(id) == \E i \in DOMAIN log : log[i].id = id

\* ReplicateLogEntryToMajority ends: replicated, deposed or out of time.  The
\* term is read again in every round, so a node that leads once more goes on.
\* (That it may then take another entry for its own is AckedImpliesChosen of
\* RaftCluster; here the entry is known by its number.)
Replicated(c) ==
  LET call == calls[c]
      s == node[call.at]
  IN /\ call.pc = "replicating"
     /\ \/ /\ Leads(call.at) /\ IsCommitted(call.id)
           /\ Goto(c, [call EXCEPT !.pc = "applying"])
        \/ /\ s.reign # call.reign
           /\ Goto(c, [call EXCEPT !.pc = "answering", !.code = "NOT_LEADER", !.leader = s.leader])
        \/ Goto(c, [call EXCEPT !.pc = "answering", !.code = "TIMEOUT", !.leader = s.leader])
     /\ UNCHANGED <<log, open, newest, node, disk, acked, forgot, bounds>>

\* Fault: Propose does not look at last_applied_.
OkOnceCommitted(call) == TRUE

\* Propose answers kOk when its entry is applied here.
OkOnceApplied(call) == node[call.at].applied >= IndexOf(call.id)

\* ApplyCommittedEntries may end early: at a text that fails, at a save that
\* fails, or because the node was deposed before it moved its commit index.
ProposeEnds(c) ==
  LET call == calls[c] IN
  /\ call.pc = "applying"
  /\ \/ /\ OkOnceApplied(call)
        /\ Goto(c, [call EXCEPT !.pc = "answering", !.code = "OK"])
        /\ acked' = [acked EXCEPT ![call.at] = IF @ > IndexOf(call.id) THEN @ ELSE IndexOf(call.id)]
     \/ /\ UNCHANGED acked
        /\ Goto(c, [call EXCEPT !.pc = "answering", !.code = "INTERNAL"])
  /\ UNCHANGED <<log, open, newest, node, disk, forgot, bounds>>

\* GetStatusSnapshot after Propose gives the leader's address.
WriteAnswers(c) ==
  /\ calls[c].pc = "answering"
  /\ LET call == calls[c] IN
     Goto(c, Answer(call, call.code, call.leader, node[call.at].leader, 0))
  /\ UNCHANGED <<log, open, newest, node, disk, acked, forgot, bounds>>

----------------------------------------------------------------------------
(* Get *)

\* Validation and the role check, on one GetStatusSnapshot.
Get(c, n, key) ==
  /\ CanCall(c, n)
  /\ LET call == NewCall("read", Delete(key), n)
         s == node[n]
     IN Goto(c, CASE ~ValidateKey(key) -> Answer(call, "INVALID_ARGUMENT", s.leader, s.leader, 0)
                  [] ValidateKey(key) /\ ~Leads(n) ->
                       Answer(call, "NOT_LEADER", s.leader, s.leader, 0)
                  [] OTHER -> [call EXCEPT !.pc = "reading", !.leader = s.leader])
  /\ UNCHANGED <<log, open, newest, node, disk, acked, forgot, bounds>>

\* DebugGetValue, with no look at the role again.
GetReads(c) ==
  LET call == calls[c]
      s == node[call.at]
      code == IF call.cmd.key \in DOMAIN s.kv THEN "OK" ELSE "KEY_NOT_FOUND"
  IN /\ call.pc = "reading"
     /\ Goto(c, Answer(call, code, call.leader, call.leader, s.applied))
     /\ UNCHANGED <<log, open, newest, node, disk, acked, forgot, bounds>>

Commands == {Set(k, v) : k \in Key, v \in Val} \cup {Delete(k) : k \in Key}

Next ==
  \/ \E n \in Node : Elect(n) \/ StepDown(n) \/ ApplyNext(n) \/ Restart(n)
  \/ \E n, l \in Node : HearLeader(n, l)
  \/ \E e \in open : Commit(e)
  \/ \E c \in Writer, n \in Node : \E cmd \in Commands : Write(c, n, cmd)
  \/ \E c \in Writer : Propose(c) \/ Replicated(c) \/ ProposeEnds(c) \/ WriteAnswers(c)
  \/ \E c \in Reader, n \in Node : \E k \in Key : Get(c, n, k)
  \/ \E c \in Reader : GetReads(c)

Spec == Init /\ [][Next]_vars

----------------------------------------------------------------------------
(* Properties *)

\* What the commands themselves make of an empty map, up to index i.
Expected(i) ==
  LET f[k \in 0 .. i] ==
        IF k = 0 THEN <<>>
        ELSE IF log[k].cmd = NoOp THEN f[k - 1] ELSE Executed(f[k - 1], log[k].cmd)
  IN f[i]

\* The map of every node is what the clients' commands up to last_applied_
\* make of it: nothing is lost or altered on the way through Serialize, the
\* log and Deserialize, nor by the replay in the constructor.
StateIsExpected == \A n \in Node : node[n].kv = Expected(node[n].applied)

\* A Get reflects every write that the same node answered with OK before the
\* Get began, even if the node lost its leadership or restarted since, unless a
\* restart came while the last save of last_applied_ had failed (it is logged,
\* "nothing to apply" is a success to the next caller, and Propose answers OK):
\* then the node replays less than it acknowledged.
ReadsOwnAcks ==
  \A c \in Client :
    calls[c].pc = "done" /\ calls[c].kind = "read" /\ calls[c].code \in {"OK", "KEY_NOT_FOUND"}
      => calls[c].seen >= calls[c].floor \/ calls[c].at \in forgot

\* The newest leader, once it has applied the no-op it proposed, reads a state
\* that holds every write any node answered with OK, those included that a
\* node, itself or another, forgot when it restarted.
SettledLeaderIsCurrent ==
  \A n \in Node :
    Leads(n) /\ node[n].reign = newest /\ (\E i \in 1 .. node[n].applied : log[i].reign = newest)
      => \A p \in Node : acked[p] <= node[n].applied
============================================================================
