------------ MODULE TransactionCoordinator ------------
(***************************************************************************)
(* TransactionCoordinator (src/mongo/db/s/transaction_coordinator.cpp) for *)
(* one transaction, with the catalog and the service that create, recover  *)
(* and interrupt it.  Each primary of the coordinator shard has its own:   *)
(* the term says which, and is the epoch of what it sends.  A command to   *)
(* the participants is sent once here and may be executed any number of    *)
(* times, at any time later and by any primary: that covers the retries,   *)
(* the loss, the delay and the misdirection of the code's commands.        *)
(***************************************************************************)
EXTENDS ShardReplicaSets

CONSTANT
  ClientWriteConcerns \* the write concerns that clients give with coordinateCommit

WriteConcern == {"1", "majority"}

ASSUME CoordinatorAssumption == ClientWriteConcerns \subseteq WriteConcern

VARIABLES
  coordinator,  \* the coordinator on the primary of each term
  requests,     \* the commands sent to all participants
  answers       \* the outcomes told to clients, each with the client's writeConcern

coordinatorVars == <<coordinator, requests, answers>>

Self == CoordinatorShard

(* step is "none" when the catalog holds no coordinator, "recovering" while *)
(* the catalog waits for onStepUp.  stopped: _sendPrepareScheduler is shut  *)
(* down.  opTime is the index of the entry whose majority commit is waited  *)
(* for, 0 when it is not written yet.  promised: _decisionPromise is set.   *)
Step ==
  {"none", "recovering", "kInactive", "kWritingParticipantList", "kWaitingForVotes",
   "kWritingDecision", "kWaitingForDecisionAcks"}

Coordinator ==
  [step : Step, decision : {"none", "commit", "abort"}, ts : Nat,
   commitVotes : SUBSET Shard, abortVotes : SUBSET Shard, acks : SUBSET Shard,
   stopped : BOOLEAN, opTime : Nat, promised : BOOLEAN]

NoCoordinator ==
  [step |-> "none", decision |-> "none", ts |-> 0,
   commitVotes |-> {}, abortVotes |-> {}, acks |-> {},
   stopped |-> FALSE, opTime |-> 0, promised |-> FALSE]

Answer == [outcome : {"commit", "abort"}, w : WriteConcern]

Request == [op : {"prepare", "commit", "abort"}, epoch : Term(Self), ts : Nat]

(* createCoordinator ran with the transaction's first statement.            *)
InitCoordinator ==
  /\ coordinator =
       [t \in Term(Self) |-> IF t = 1 THEN [NoCoordinator EXCEPT !.step = "kInactive"]
                                      ELSE NoCoordinator]
  /\ requests = {}
  /\ answers = {}

At(t, step) == t \in primaries[Self] /\ coordinator[t].step = step

DecisionOp(decision) == IF decision = "commit" THEN "decideCommit" ELSE "decideAbort"

(* The coordinator document on the primary of term t.                       *)
Document(t) ==
  LET written == Indices(Self, t, DocumentOps)
      last == log[Self][t][CHOOSE i \in written : \A j \in written : j <= i]
  IN CASE written = {} \/ (written # {} /\ last.op = "delete") -> [op |-> "none", ts |-> 0]
       [] OTHER -> [op |-> last.op, ts |-> last.ts]

Send(op, t, ts) == requests' = requests \cup {[op |-> op, epoch |-> t, ts |-> ts]}

--------------------
(* coordinateCommit with the participant list: runCommit.                   *)
RunCommit(t) ==
  /\ At(t, "kInactive")
  /\ coordinator' = [coordinator EXCEPT ![t].step = "kWritingParticipantList"]
  /\ UNCHANGED <<shardVars, requests, answers>>

(* coordinateCommit without the list, a newer transaction on the session, a *)
(* commit or abort that needs no coordinator: cancelIfCommitNotYetStarted.  *)
CancelIfCommitNotYetStarted(t) ==
  /\ At(t, "kInactive")
  /\ coordinator' = [coordinator EXCEPT ![t] = NoCoordinator]
  /\ UNCHANGED <<shardVars, requests, answers>>

\* mutant: the deadline does not cancel a coordinator that has not begun
ReachDeadline_NoCancel(t) ==
  /\ t \in primaries[Self] /\ ~coordinator[t].stopped
  /\ coordinator[t].step \in {"kWritingParticipantList", "kWaitingForVotes"}
  /\ coordinator' = [coordinator EXCEPT ![t].stopped = TRUE]
  /\ UNCHANGED <<shardVars, requests, answers>>

(* The deadline: the prepare phase ends, whatever it is doing.  After that  *)
(* phase nothing runs on _sendPrepareScheduler any more.                    *)
ReachDeadline(t) ==
  /\ t \in primaries[Self] /\ ~coordinator[t].stopped
  /\ coordinator[t].step \in {"kInactive", "kWritingParticipantList", "kWaitingForVotes"}
  /\ coordinator' = [coordinator EXCEPT ![t] =
       IF @.step = "kInactive" THEN NoCoordinator ELSE [@ EXCEPT !.stopped = TRUE]]
  /\ UNCHANGED <<shardVars, requests, answers>>

(* persistParticipantsList: an upsert that changes nothing when the         *)
(* document is already there.                                               *)
PersistParticipantsList(t) ==
  LET c == coordinator[t] IN
  /\ At(t, "kWritingParticipantList") /\ c.opTime = 0 /\ ~c.stopped
  /\ Document(t).op \in {"none", "participants"}
  /\ log' = IF Document(t).op = "none" THEN Appended(Self, t, "participants", 0) ELSE log
  /\ coordinator' = [coordinator EXCEPT ![t].opTime = Len(log'[Self][t])]
  /\ UNCHANGED <<term, primaries, commitIndex, requests, answers>>

(* The deadline interrupts the write of the list, before or after it took   *)
(* effect, and onError turns that into the decision to abort.               *)
AbandonParticipantsList(t) ==
  LET c == coordinator[t] IN
  /\ At(t, "kWritingParticipantList") /\ c.opTime = 0 /\ c.stopped
  /\ log' \in {log} \cup
       (IF Document(t).op = "none" THEN {Appended(Self, t, "participants", 0)} ELSE {})
  /\ coordinator' = [coordinator EXCEPT ![t] =
       [NoCoordinator EXCEPT !.step = "kWritingDecision", !.decision = "abort"]]
  /\ UNCHANGED <<term, primaries, commitIndex, requests, answers>>

(* The list is majority committed: sendPrepare.                             *)
SendPrepare(t) ==
  LET c == coordinator[t] IN
  /\ At(t, "kWritingParticipantList") /\ c.opTime > 0 /\ Durable(Self, t, c.opTime)
  /\ coordinator' = [coordinator EXCEPT ![t].step = "kWaitingForVotes", ![t].opTime = 0]
  /\ IF c.stopped THEN UNCHANGED requests ELSE Send("prepare", t, 0)
  /\ UNCHANGED <<shardVars, answers>>

\* mutant: the last vote's timestamp instead of the maximum
RegisterCommitVote_Last(t, s, ts) ==
  coordinator' = [coordinator EXCEPT ![t].commitVotes = @ \cup {s}, ![t].ts = ts]

(* sendPrepareToShard gets a conclusive response, and registerVote.         *)
RegisterCommitVote(t, s, ts) ==
  coordinator' = [coordinator EXCEPT
    ![t].commitVotes = @ \cup {s}, ![t].ts = IF ts > @ THEN ts ELSE @]

RegisterAbortVote(t, s) ==
  coordinator' = [coordinator EXCEPT ![t].abortVotes = @ \cup {s}, ![t].stopped = TRUE]

(* collect is done when every shard has voted or will not be asked again.   *)
DecideVotes(t) ==
  LET c == coordinator[t]
      commit == c.commitVotes = Shard
  IN /\ At(t, "kWaitingForVotes")
     /\ commit \/ c.stopped
     /\ coordinator' = [coordinator EXCEPT ![t] =
          [NoCoordinator EXCEPT !.step = "kWritingDecision",
             !.decision = IF commit THEN "commit" ELSE "abort",
             !.ts = IF commit THEN c.ts ELSE 0]]
     /\ UNCHANGED <<shardVars, requests, answers>>

\* mutant: the decision can only be written once
PersistDecision_Once(t) ==
  LET c == coordinator[t] IN
  /\ At(t, "kWritingDecision") /\ c.opTime = 0
  /\ Document(t).op \in {"none", "participants"}
  /\ log' = Appended(Self, t, DecisionOp(c.decision), c.ts)
  /\ coordinator' = [coordinator EXCEPT
       ![t].opTime = Len(log'[Self][t]), ![t].promised = TRUE]
  /\ UNCHANGED <<term, primaries, commitIndex, requests, answers>>

(* persistDecision; the decision is promised to the clients that wait.      *)
PersistDecision(t) ==
  LET c == coordinator[t]
      decided == [op |-> DecisionOp(c.decision), ts |-> c.ts]
  IN /\ At(t, "kWritingDecision") /\ c.opTime = 0
     /\ Document(t).op \in {"none", "participants"} \/ Document(t) = decided
     /\ log' = IF Document(t) = decided THEN log
                                        ELSE Appended(Self, t, decided.op, decided.ts)
     /\ coordinator' = [coordinator EXCEPT
          ![t].opTime = Len(log'[Self][t]), ![t].promised = TRUE]
     /\ UNCHANGED <<term, primaries, commitIndex, requests, answers>>

\* mutant: the decision is sent as soon as it is written
SendDecision_NoWait(t) ==
  LET c == coordinator[t] IN
  /\ At(t, "kWritingDecision") /\ c.opTime > 0
  /\ coordinator' = [coordinator EXCEPT ![t].step = "kWaitingForDecisionAcks", ![t].opTime = 0]
  /\ Send(c.decision, t, c.ts)
  /\ UNCHANGED <<shardVars, answers>>

(* The decision is majority committed: sendCommit or sendAbort.             *)
SendDecision(t) ==
  LET c == coordinator[t] IN
  /\ At(t, "kWritingDecision") /\ c.opTime > 0 /\ Durable(Self, t, c.opTime)
  /\ coordinator' = [coordinator EXCEPT ![t].step = "kWaitingForDecisionAcks", ![t].opTime = 0]
  /\ Send(c.decision, t, c.ts)
  /\ UNCHANGED <<shardVars, answers>>

(* sendDecisionToShard gets an OK or an error of the category VoteAbort.    *)
RegisterAck(t, s) == coordinator' = [coordinator EXCEPT ![t].acks = @ \cup {s}]

(* Every participant has acknowledged: the document goes, and with the      *)
(* completion the coordinator leaves the catalog.                           *)
DeleteCoordinatorDoc(t) ==
  LET c == coordinator[t] IN
  /\ At(t, "kWaitingForDecisionAcks") /\ c.acks = Shard
  /\ Document(t).op \in {"decideCommit", "decideAbort"}
  /\ log' = Appended(Self, t, "delete", 0)
  /\ coordinator' = [coordinator EXCEPT ![t] =
       [NoCoordinator EXCEPT !.decision = c.decision, !.promised = TRUE]]
  /\ UNCHANGED <<term, primaries, commitIndex, requests, answers>>

(* Only an interrupted deletion is tried again: any other error completes   *)
(* the coordinator with the document left behind.                           *)
DeleteCoordinatorDocFails(t) ==
  LET c == coordinator[t] IN
  /\ At(t, "kWaitingForDecisionAcks") /\ c.acks = Shard
  /\ coordinator' = [coordinator EXCEPT ![t] =
       [NoCoordinator EXCEPT !.decision = c.decision, !.promised = TRUE]]
  /\ UNCHANGED <<shardVars, requests, answers>>

--------------------
\* mutant: only documents with a decision are recovered
ContinueCommit_DecidedOnly(doc) ==
  IF doc.op \in {"none", "participants"} THEN NoCoordinator
  ELSE [NoCoordinator EXCEPT !.step = "kWritingDecision", !.ts = doc.ts,
          !.decision = IF doc.op = "decideCommit" THEN "commit" ELSE "abort"]

(* onStepUp waits until all it finds is majority committed, and continues   *)
(* from the document.                                                       *)
ContinueCommit(doc) ==
  CASE doc.op = "none" -> NoCoordinator
    [] doc.op = "participants" ->
         [NoCoordinator EXCEPT !.step = "kWritingParticipantList"]
    [] OTHER ->
         [NoCoordinator EXCEPT !.step = "kWritingDecision", !.ts = doc.ts,
            !.decision = IF doc.op = "decideCommit" THEN "commit" ELSE "abort"]

OnStepUp(t) ==
  /\ At(t, "recovering") /\ NoopDurable(Self, t)
  /\ coordinator' = [coordinator EXCEPT ![t] = ContinueCommit(Document(t))]
  /\ UNCHANGED <<shardVars, requests, answers>>

\* mutant: the client's last op is not moved to the system's, and the
\* writeConcern waits for an entry before the decision
AnswerDecision_NoWait(t, w) ==
  LET c == coordinator[t] IN
  /\ t \in primaries[Self] /\ c.promised
  /\ answers' = answers \cup {[outcome |-> c.decision, w |-> w]}
  /\ UNCHANGED <<shardVars, coordinator, requests>>

(* coordinateCommit answers with the promised decision, after waiting for   *)
(* the writeConcern w that the client gave: with w:1 the decision is on     *)
(* this primary only.  The client's last op is the system's at the end of   *)
(* the command, so the wait covers the decision's entry; what follows that  *)
(* entry (a deletion, a no-op) is not waited for here, the code may.        *)
AnswerDecision(t, w) ==
  LET c == coordinator[t] IN
  /\ t \in primaries[Self] /\ c.promised
  /\ w = "majority" => \E i \in Indices(Self, t, {DecisionOp(c.decision)}) : Durable(Self, t, i)
  /\ answers' = answers \cup {[outcome |-> c.decision, w |-> w]}
  /\ UNCHANGED <<shardVars, coordinator, requests>>
====================
