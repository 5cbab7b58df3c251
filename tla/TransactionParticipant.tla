------------ MODULE TransactionParticipant ------------
(***************************************************************************)
(* The transaction on its participants: TransactionParticipant             *)
(* (src/mongo/db/transaction_participant.cpp) behind the commands          *)
(* prepareTransaction, commitTransaction and abortTransaction that the     *)
(* coordinator sends with writeConcern majority, and the service entry     *)
(* point's part in the reply.  A command changes the participant in one    *)
(* step; its reply is a later step when it waits for the write concern.    *)
(* Module TwoPhaseCommit says which reply each of these cases gets.        *)
(***************************************************************************)
EXTENDS ShardReplicaSets

CONSTANTS
  PrepareTimestamp, \* the timestamp of the prepare oplog entry of each shard
  ClientApiVersion, \* did the client give API parameters?
  SessionMovesOn    \* shards where the client's session goes on without an answer

ASSUME ParticipantAssumption ==
  /\ PrepareTimestamp \in [Shard -> Nat]
  /\ ClientApiVersion \in BOOLEAN
  /\ SessionMovesOn \subseteq Shard

VARIABLE
  txnState  \* the transaction's state on the primary of each term; "none" when
            \* that primary never had it or lost it, "newer" when the session
            \* has gone on to a newer transaction

TransactionState == {"none", "inProgress", "prepared", "committed", "aborted", "newer"}

InitParticipants ==
  txnState = [s \in Shard |-> [t \in Term(s) |-> IF t = 1 THEN "inProgress" ELSE "none"]]

TransactionIsOpen(s, t) == txnState[s][t] \in {"inProgress", "prepared"}

Becomes(s, t, state) == txnState' = [txnState EXCEPT ![s][t] = state]

(* What the oplog entries ops say of the transaction, which is all that a   *)
(* new primary knows of it.                                                 *)
RefreshedState(ops) ==
  CASE "commit" \in ops -> "committed"
    [] "abort" \in ops -> "aborted"
    [] "prepare" \in ops /\ ops \cap {"commit", "abort"} = {} -> "prepared"
    [] OTHER -> "none"

(* The entry whose majority commit the reply waits for: the one the command *)
(* wrote, or the last one if the command finds its work done by an earlier  *)
(* term.                                                                    *)
AwaitedIndex(s, t, op) ==
  LET own == {i \in Indices(s, t, {op}) : log[s][t][i].term = t}
  IN IF own = {} THEN LastIndex(s, t) ELSE CHOOSE i \in own : TRUE

(* The coordinator's API parameters are those of the client, or none when   *)
(* it was recovered from its document; those of the participant are those   *)
(* of the client, or none when the transaction comes from the oplog.        *)
ApiParametersMatch(epoch, t) == ClientApiVersion => (epoch = 1 <=> t = 1)

--------------------
(* prepareTransaction writes the prepare entry; the reply waits for it.     *)
PrepareTransaction(s, t) ==
  /\ txnState[s][t] = "inProgress"
  /\ Becomes(s, t, "prepared")
  /\ log' = Appended(s, t, "prepare", PrepareTimestamp[s])

(* The preparation fails (a conflict, an interrupt) and the transaction     *)
(* aborts without a trace in the oplog.                                     *)
PrepareFails(s, t) ==
  /\ txnState[s][t] = "inProgress"
  /\ Becomes(s, t, "aborted")
  /\ UNCHANGED log

\* mutant: the vote does not wait for the prepare entry
PrepareDurable_NoWait(s, t) == txnState[s][t] = "prepared"

PrepareDurable(s, t) ==
  /\ txnState[s][t] = "prepared"
  /\ Durable(s, t, AwaitedIndex(s, t, "prepare"))

(* commitTransaction with a commit timestamp.                               *)
CommitPreparedTransaction(s, t, ts) ==
  /\ txnState[s][t] = "prepared"
  /\ ts >= PrepareTimestamp[s]
  /\ \E i \in Indices(s, t, {"prepare"}) : Durable(s, t, i)
  /\ Becomes(s, t, "committed")
  /\ log' = Appended(s, t, "commit", ts)

CommitDurable(s, t) ==
  /\ txnState[s][t] = "committed"
  /\ Durable(s, t, AwaitedIndex(s, t, "commit"))

(* abortTransaction: only the abort of a prepared transaction is written    *)
(* and waited for.                                                          *)
AbortPreparedTransaction(s, t) ==
  /\ txnState[s][t] = "prepared"
  /\ Becomes(s, t, "aborted")
  /\ log' = Appended(s, t, "abort", 0)

AbortUnprepared(s, t) ==
  /\ txnState[s][t] = "inProgress"
  /\ Becomes(s, t, "aborted")
  /\ UNCHANGED log

AbortDurable(s, t) ==
  /\ txnState[s][t] = "aborted"
  /\ \E i \in Indices(s, t, {"abort"}) : log[s][t][i].term = t /\ Durable(s, t, i)

\* mutant: NoSuchTransaction without the no-op write
NoSuchTransaction_NoNoop(s, t, op, w) ==
  /\ ~TransactionIsOpen(s, t) /\ txnState[s][t] # "newer"
  /\ op = "commit" => txnState[s][t] # "committed"

(* NoSuchTransaction is answered after a no-op write with the command's     *)
(* writeConcern w, so that it is as durable as a success.                   *)
NoSuchTransaction(s, t, op, w) ==
  /\ ~TransactionIsOpen(s, t) /\ txnState[s][t] # "newer"
  /\ op = "commit" => txnState[s][t] # "committed"
  /\ w = "majority" => NoopDurable(s, t)

TransactionTooOld(s, t) == txnState[s][t] = "newer"

APIMismatch(s, t, epoch) == TransactionIsOpen(s, t) /\ ~ApiParametersMatch(epoch, t)

--------------------
(* The thread that kills expired transactions; and an abort by the router.  *)
ExpireTransaction(s, t) ==
  /\ t \in primaries[s] /\ txnState[s][t] = "inProgress"
  /\ Becomes(s, t, "aborted")
  /\ UNCHANGED shardVars

(* A newer transaction of the session: it aborts this one unless that is    *)
(* prepared, and then the newer transaction has to wait.                    *)
NewerTransaction(s, t) ==
  /\ s \in SessionMovesOn /\ t \in primaries[s]
  /\ txnState[s][t] \notin {"prepared", "newer"}
  /\ Becomes(s, t, "newer")
  /\ UNCHANGED shardVars
====================
