------------ MODULE TwoPhaseCommit ------------
(***************************************************************************)
(* Two-phase commit of a sharded transaction: the coordinators of the      *)
(* coordinator shard's primaries, the participants, and the failovers of   *)
(* their replica sets.                                                     *)
(***************************************************************************)
EXTENDS TransactionCoordinator, TransactionParticipant

vars == <<shardVars, txnState, coordinatorVars>>

Init == InitShards /\ InitParticipants /\ InitCoordinator

(* The primary of term t of shard s executes the command.  The coordinator  *)
(* runs the command to its own shard on its own node and joins it.          *)
Executes(s, t, r) ==
  /\ t \in primaries[s]
  /\ s = Self => /\ t = r.epoch
                 /\ coordinator[t].step =
                      IF r.op = "prepare" THEN "kWaitingForVotes" ELSE "kWaitingForDecisionAcks"

(* Does the coordinator that sent the command still wait for the response?  *)
AwaitsVote(s, r) ==
  /\ At(r.epoch, "kWaitingForVotes")
  /\ s \notin coordinator[r.epoch].commitVotes \cup coordinator[r.epoch].abortVotes

AwaitsAck(s, r) ==
  /\ At(r.epoch, "kWaitingForDecisionAcks")
  /\ s \notin coordinator[r.epoch].acks

Unanswered == UNCHANGED coordinator

(* A response is delivered when it is sent, or lost.  The coordinator only  *)
(* notes it down, so a late one is a coordinator that goes on late.         *)
VotesCommit(s, r) == AwaitsVote(s, r) /\ RegisterCommitVote(r.epoch, s, PrepareTimestamp[s])
VotesAbort(s, r)  == AwaitsVote(s, r) /\ RegisterAbortVote(r.epoch, s)
Acks(s, r)        == AwaitsAck(s, r) /\ RegisterAck(r.epoch, s)

(* The case where the session is not checked out or not continued, for any  *)
(* command.                                                                 *)
Rejected(s, t, r) ==
  /\ \/ APIMismatch(s, t, r.epoch)
     \/ TransactionTooOld(s, t)
     \/ NoSuchTransaction(s, t, r.op, "majority")
  /\ UNCHANGED <<shardVars, txnState, requests, answers>>

Accepted(s, t, r) == ~APIMismatch(s, t, r.epoch)

PrepareCommand(s, t, r) ==
  /\ r.op = "prepare" /\ Executes(s, t, r)
  /\ \/ Accepted(s, t, r) /\ PrepareTransaction(s, t) /\ Unanswered
     \/ Accepted(s, t, r) /\ PrepareFails(s, t) /\ (VotesAbort(s, r) \/ Unanswered)
     \/ Accepted(s, t, r) /\ PrepareDurable(s, t) /\ VotesCommit(s, r) /\ UNCHANGED <<log, txnState>>
     \/ Rejected(s, t, r) /\ VotesAbort(s, r)
  /\ UNCHANGED <<term, primaries, commitIndex, requests, answers>>

CommitCommand(s, t, r) ==
  /\ r.op = "commit" /\ Executes(s, t, r)
  /\ \/ Accepted(s, t, r) /\ CommitPreparedTransaction(s, t, r.ts) /\ Unanswered
     \/ CommitDurable(s, t) /\ Acks(s, r) /\ UNCHANGED <<log, txnState>>
     \/ Rejected(s, t, r) /\ Acks(s, r)
  /\ UNCHANGED <<term, primaries, commitIndex, requests, answers>>

AbortCommand(s, t, r) ==
  /\ r.op = "abort" /\ Executes(s, t, r)
  /\ \/ Accepted(s, t, r) /\ AbortPreparedTransaction(s, t) /\ Unanswered
     \/ Accepted(s, t, r) /\ AbortUnprepared(s, t) /\ (Acks(s, r) \/ Unanswered)
     \/ AbortDurable(s, t) /\ Acks(s, r) /\ UNCHANGED <<log, txnState>>
     \/ Rejected(s, t, r) /\ Acks(s, r)
  /\ UNCHANGED <<term, primaries, commitIndex, requests, answers>>

Command(s, t) ==
  \E r \in requests : PrepareCommand(s, t, r) \/ CommitCommand(s, t, r) \/ AbortCommand(s, t, r)

--------------------
(* coordinateCommit finds no coordinator and recovers the outcome from the  *)
(* local participant, which it aborts if it is still in progress.  A        *)
(* prepared participant is waited for, a newer transaction is an error that *)
(* tells nothing.  The answer waits for the client's writeConcern w, whose  *)
(* last op is at or after the entry of the commit.                          *)
AbortLocalParticipant(t) ==
  /\ At(t, "none") /\ txnState[Self][t] = "inProgress"
  /\ Becomes(Self, t, "aborted")
  /\ UNCHANGED <<shardVars, coordinatorVars>>

RecoverFromLocalParticipant(t, w) ==
  /\ At(t, "none")
  /\ \/ /\ txnState[Self][t] = "committed"
        /\ w = "majority" => \E i \in Indices(Self, t, {"commit"}) : Durable(Self, t, i)
        /\ answers' = answers \cup {[outcome |-> "commit", w |-> w]}
     \/ /\ NoSuchTransaction(Self, t, "commit", w)
        /\ answers' = answers \cup {[outcome |-> "abort", w |-> w]}
  /\ UNCHANGED <<shardVars, txnState, coordinator, requests>>

(* A failover: the new primary's transaction comes from its oplog, and its  *)
(* coordinator from onStepUp.                                               *)
Failover(s) ==
  \E history \in ElectableLogs(s) :
    /\ NewPrimary(s, history)
    /\ Becomes(s, term[s] + 1, RefreshedState({history[i].op : i \in DOMAIN history}))
    /\ coordinator' = IF s = Self
         THEN [coordinator EXCEPT ![term[s] + 1].step = "recovering"]
         ELSE coordinator
    /\ UNCHANGED <<requests, answers>>

(* onStepDown interrupts the coordinator, and its clients with it.  The     *)
(* transaction on a secondary is of no concern here.                        *)
StepDown(s, t) ==
  /\ StopPrimary(s, t)
  /\ coordinator' = IF s = Self THEN [coordinator EXCEPT ![t] = NoCoordinator] ELSE coordinator
  /\ Becomes(s, t, "none")
  /\ UNCHANGED <<requests, answers>>

CoordinatorStep(t) ==
  /\ \/ PersistParticipantsList(t) \/ AbandonParticipantsList(t) \/ SendPrepare(t)
     \/ DecideVotes(t) \/ PersistDecision(t) \/ SendDecision(t)
     \/ DeleteCoordinatorDoc(t) \/ DeleteCoordinatorDocFails(t) \/ OnStepUp(t)
  /\ UNCHANGED txnState

Client(t) ==
  \/ (RunCommit(t) \/ CancelIfCommitNotYetStarted(t)) /\ UNCHANGED txnState
  \/ AbortLocalParticipant(t)
  \/ \E w \in ClientWriteConcerns :
       \/ AnswerDecision(t, w) /\ UNCHANGED txnState
       \/ RecoverFromLocalParticipant(t, w)

Deadline(t) == ReachDeadline(t) /\ UNCHANGED txnState

Expire(s, t) == ExpireTransaction(s, t) /\ UNCHANGED coordinatorVars

Replication(s) == Replicate(s) /\ UNCHANGED <<txnState, coordinatorVars>>

(* The newer transaction may cancel the coordinator in a later step.        *)
MoveOn(s, t) == NewerTransaction(s, t) /\ UNCHANGED coordinatorVars

(* What goes on without the clients: replication, the coordinator's chain   *)
(* of futures, its deadline task, the killer of expired transactions, the   *)
(* commands, which are retried until one reaches the current primary and a  *)
(* response comes back, and the step down of a deposed primary.  Fairness   *)
(* is only that these do not all stop.                                      *)
System ==
  \/ \E t \in Term(Self) : CoordinatorStep(t) \/ Deadline(t)
  \/ \E s \in Shard : Replication(s)
  \/ \E s \in Shard : \E t \in Term(s) : Command(s, t) \/ Expire(s, t) \/ StepDown(s, t)

Next ==
  \/ System
  \/ \E t \in Term(Self) : Client(t)
  \/ \E s \in Shard : Failover(s) \/ \E t \in Term(s) : MoveOn(s, t)

Spec == Init /\ [][Next]_vars

FairSpec == Spec /\ WF_vars(System)

--------------------
(* Type correctness.                                                        *)
TypeOK ==
  /\ term \in [Shard -> Nat] /\ \A s \in Shard : term[s] \in Term(s)
  /\ \A s \in Shard : primaries[s] \subseteq 1 .. term[s]
  /\ \A s \in Shard : log[s] \in [Term(s) -> Seq(OplogEntry)]
  /\ \A s \in Shard : commitIndex[s] \in 0 .. LastIndex(s, term[s])
  /\ \A s \in Shard : txnState[s] \in [Term(s) -> TransactionState]
  /\ coordinator \in [Term(Self) -> Coordinator]
  /\ requests \subseteq Request
  /\ answers \subseteq Answer

DurableOps(s) == {log[s][term[s]][i].op : i \in 1 .. commitIndex[s]}

DurableDecision ==
  CASE "decideCommit" \in DurableOps(Self) -> "commit"
    [] "decideAbort" \in DurableOps(Self) /\ "decideCommit" \notin DurableOps(Self) -> "abort"
    [] OTHER -> "none"

DurableOutcome ==
  [s \in Shard |-> LET state == RefreshedState(DurableOps(s))
                   IN IF state = "none" THEN "unprepared" ELSE state]

(* What is majority committed follows the abstract specification: one       *)
(* decision for all shards, commit only with every shard prepared, and      *)
(* neither a decision nor an outcome that changes later.                    *)
AC == INSTANCE AtomicCommit WITH outcome <- DurableOutcome, decision <- DurableDecision

AtomicCommitSpec == AC!Spec

(* What the clients are told, whichever coordinator, of whatever term, or   *)
(* local participant tells it.  With any writeConcern, "committed" means    *)
(* that every shard is durably prepared; a failover may still turn the      *)
(* outcome round when the client gave only w:1, and "aborted" then says     *)
(* nothing that lasts.  With majority, "committed" means that the decision  *)
(* is durable, and "aborted" that the transaction never commits any more.   *)
AnswersTrue ==
  \A a \in answers :
    /\ a.outcome = "commit" => \A s \in Shard : DurableOutcome[s] # "unprepared"
    /\ a.outcome = "commit" /\ a.w = "majority" => DurableDecision = "commit"
    /\ a.outcome = "abort" /\ a.w = "majority" =>
         /\ DurableDecision # "commit"
         /\ \A s \in Shard : \A t \in Term(s) : Indices(s, t, {"commit"}) = {}

(* No oplog, not even that of a deposed primary which will be rolled back,  *)
(* has the commit or the abort of a prepared transaction before the         *)
(* decision is durable: its readers never see a transaction that a failover *)
(* of the coordinator can still turn round.                                 *)
FinishedOnlyWhenDecided ==
  \A s \in Shard : \A t \in Term(s) :
    /\ Indices(s, t, {"commit"}) # {} => DurableDecision = "commit"
    /\ Indices(s, t, {"abort"}) # {} => DurableDecision = "abort"

(* The transaction commits at one timestamp on all shards, not before any   *)
(* of them prepared: the coordinator's failovers do not choose another.     *)
OneCommitTimestamp ==
  \A s1, s2 \in Shard : \A t1 \in Term(s1), t2 \in Term(s2) :
    \A i \in Indices(s1, t1, {"commit"}) :
      /\ log[s1][t1][i].ts >= PrepareTimestamp[s2]
      /\ \A j \in Indices(s2, t2, {"commit"}) : log[s1][t1][i].ts = log[s2][t2][j].ts

(* The coordinator document is deleted only when no participant is left     *)
(* prepared, now or later: no other coordinator would ever tell it the      *)
(* outcome, and a prepared transaction keeps its locks until it is told.    *)
NonePreparedWhenForgotten ==
  (\E t \in Term(Self) : Indices(Self, t, {"delete"}) # {}) =>
    \A s \in Shard : DurableOutcome[s] # "prepared" /\ txnState[s][term[s]] # "prepared"

(* A prepared transaction does not stay prepared for ever: whatever fails,  *)
(* some coordinator reaches the shard with the outcome.                     *)
PreparedResolved ==
  \A s \in Shard : (txnState[s][term[s]] = "prepared") ~> (txnState[s][term[s]] # "prepared")

(* A durable decision to commit is carried out on every shard, and the      *)
(* transaction is forgotten in the end, or the coordinator of the current   *)
(* primary has completed and failed to delete the document.                 *)
CommitCarriedOut ==
  (DurableDecision = "commit") ~>
    /\ \A s \in Shard : DurableOutcome[s] = "committed"
    /\ \/ Document(term[Self]).op = "none"
       \/ coordinator[term[Self]].promised /\ coordinator[term[Self]].step = "none"

(* No coordinator goes on for ever, even if the client never asks it to     *)
(* commit or if it is deposed.                                              *)
CoordinatorEnds == \A t \in Term(Self) : <>[](coordinator[t].step = "none")
====================
