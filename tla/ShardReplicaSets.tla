------------ MODULE ShardReplicaSets ------------
(***************************************************************************)
(* The replica sets of the shards, as far as two-phase commit depends on   *)
(* them: the oplog of the primary of each term, the majority commit point, *)
(* and the failovers that lose what is not majority committed.  A deposed  *)
(* primary goes on until it notices.  The elections themselves are the     *)
(* subject of module Election, which shows one primary per term.           *)
(***************************************************************************)
EXTENDS Integers, Sequences, FiniteSets

CONSTANTS
  Shard,            \* the participants of the transaction
  CoordinatorShard, \* the participant that coordinates the commit
  MaxTerm           \* bound: the last term of each shard, the first being 1

ASSUME ShardAssumption ==
  /\ IsFiniteSet(Shard)
  /\ CoordinatorShard \in Shard
  /\ MaxTerm \in [Shard -> Nat \ {0}]

Term(s) == 1 .. MaxTerm[s]

VARIABLES
  term,        \* the latest term of each shard with a primary
  primaries,   \* the terms whose primary still takes itself for the primary
  log,         \* the oplog of the primary of each term
  commitIndex  \* the majority commit point

shardVars == <<term, primaries, log, commitIndex>>

(* The oplog entries about the transaction and about its coordinator        *)
(* document, and the no-op a new primary writes.                            *)
DocumentOps == {"participants", "decideCommit", "decideAbort", "delete"}
ParticipantOps == {"prepare", "commit", "abort"}

OplogEntry ==
  [term : Nat, op : DocumentOps \cup ParticipantOps \cup {"newPrimary"}, ts : Nat]

InitShards ==
  /\ term = [s \in Shard |-> 1]
  /\ primaries = [s \in Shard |-> {1}]
  /\ log = [s \in Shard |-> [t \in Term(s) |-> <<>>]]
  /\ commitIndex = [s \in Shard |-> 0]

LastIndex(s, t) == Len(log[s][t])

Indices(s, t, ops) == {i \in 1 .. LastIndex(s, t) : log[s][t][i].op \in ops}

(* The oplog after the primary of term t has written one entry.             *)
Appended(s, t, op, ts) ==
  [log EXCEPT ![s][t] = Append(@, [term |-> t, op |-> op, ts |-> ts])]

(* Is the i-th entry of the primary of term t majority committed?  Entries  *)
(* of the same index and term are the same entry of the same history.       *)
Durable(s, t, i) ==
  /\ i <= commitIndex[s]
  /\ i > 0 => log[s][t][i] = log[s][term[s]][i]

(* Would a write of the primary of term t, with writeConcern majority,      *)
(* succeed after all that was written before?  Used for the no-op writes,   *)
(* which leave no other trace.                                              *)
NoopDurable(s, t) == t = term[s] /\ commitIndex[s] = LastIndex(s, t)

(* What is majority committed on the shard.                                 *)
CommittedLog(s) == SubSeq(log[s][term[s]], 1, commitIndex[s])

\* mutant: the commit point is not bounded by the primary's oplog
Replicate_Unbounded(s) ==
  /\ commitIndex[s] <= LastIndex(s, term[s])
  /\ commitIndex' = [commitIndex EXCEPT ![s] = @ + 1]
  /\ UNCHANGED <<term, primaries, log>>

(* The commit point moves only to an entry of the primary's own term, and   *)
(* takes what is before it along.                                           *)
Replicate(s) ==
  LET t == term[s]
      own == {i \in commitIndex[s] + 1 .. LastIndex(s, t) : log[s][t][i].term = t}
  IN /\ own # {}
     /\ commitIndex' = [commitIndex EXCEPT ![s] = CHOOSE i \in own : \A j \in own : i <= j]
     /\ UNCHANGED <<term, primaries, log>>

(* The histories the next primary may start from: one that holds all that   *)
(* is majority committed, be it that of the primary it deposes or an older  *)
(* one, with what follows lost from some point on.                          *)
ElectableLogs(s) ==
  {h \in UNION {{SubSeq(log[s][u], 1, k) : k \in commitIndex[s] .. LastIndex(s, u)}
                 : u \in 1 .. term[s]} :
     SubSeq(h, 1, commitIndex[s]) = CommittedLog(s)}

(* The election of a new primary, which writes a no-op in its term.         *)
NewPrimary(s, history) ==
  LET t == term[s] + 1
  IN /\ t \in Term(s)
     /\ term' = [term EXCEPT ![s] = t]
     /\ primaries' = [primaries EXCEPT ![s] = @ \cup {t}]
     /\ log' = [log EXCEPT ![s][t] =
                  Append(history, [term |-> t, op |-> "newPrimary", ts |-> 0])]
     /\ UNCHANGED commitIndex

(* A deposed primary notices the newer term and steps down.                 *)
StopPrimary(s, t) ==
  /\ t \in primaries[s] /\ t < term[s]
  /\ primaries' = [primaries EXCEPT ![s] = @ \ {t}]
  /\ UNCHANGED <<term, log, commitIndex>>
====================
