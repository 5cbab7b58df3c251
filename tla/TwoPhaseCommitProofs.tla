------------ MODULE TwoPhaseCommitProofs ------------
(***************************************************************************)
(* Proofs of the safety of two-phase commit, for any set of shards, any    *)
(* number of failovers of each and any prepare timestamps.                 *)
(***************************************************************************)
EXTENDS TwoPhaseCommit, ShardReplicaSetsProofs

(* The rest of the types, with the domains.                                 *)
TransactionTypeOK ==
  /\ DOMAIN txnState = Shard
  /\ \A s \in Shard : txnState[s] \in [Term(s) -> TransactionState]
  /\ coordinator \in [Term(Self) -> Coordinator]
  /\ requests \subseteq Request
  /\ answers \subseteq Answer

(* The oplog of the primary of term t has such an entry.                    *)
Has(s, t, op) == \E i \in 1 .. LastIndex(s, t) : log[s][t][i].op = op

(* The decision, at this timestamp, is in that oplog up to an index.        *)
Decided(t, op, ts, last) ==
  \E i \in 1 .. last : log[Self][t][i].op = op /\ log[Self][t][i].ts = ts

DurablyPrepared(s) == "prepare" \in DurableOps(s)

DurablyCommits(ts) == Decided(term[Self], "decideCommit", ts, commitIndex[Self])

DurablyAborts == "decideAbort" \in DurableOps(Self)

CanCommitAt(ts) == \A s \in Shard : DurablyPrepared(s) /\ ts >= PrepareTimestamp[s]

(* Every entry has its reason: only the first primary prepares, a           *)
(* transaction ends only after the decision is durable, and a decision to   *)
(* commit has all votes.                                                    *)
EntryJustified(e) ==
  /\ e.op = "prepare" => e.term = 1
  /\ e.op = "commit" => DurablyCommits(e.ts)
  /\ e.op = "abort" => DurablyAborts
  /\ e.op = "decideCommit" => CanCommitAt(e.ts)

EntriesJustified ==
  \A s \in Shard : \A t \in Term(s) : \A i \in 1 .. LastIndex(s, t) : EntryJustified(log[s][t][i])

(* The coordinator document goes through at most one participant list, one  *)
(* decision and one deletion, in this order.                                *)
Decisions == {"decideCommit", "decideAbort"}

OrderedOps(a, b) ==
  /\ a = "participants" => b # "participants"
  /\ a \in Decisions => b \notin Decisions \cup {"participants"}
  /\ a = "delete" => b \notin DocumentOps

DocumentOrder ==
  \A t \in Term(Self) : \A i, j \in 1 .. LastIndex(Self, t) :
    i < j => OrderedOps(log[Self][t][i].op, log[Self][t][j].op)

(* What the state of the transaction says of the oplog.                     *)
StateLogged(s, t, state) ==
  /\ state = "inProgress" => t = 1 /\ ~Has(s, t, "prepare")
  /\ state = "prepared" => Has(s, t, "prepare")
  /\ state = "committed" => Has(s, t, "commit")
  /\ state = "aborted" => Has(s, t, "abort") \/ (t = 1 /\ ~Has(s, t, "prepare"))
  /\ state = "none" /\ t \in primaries[s] => t > 1 /\ ~Has(s, t, "prepare")

StatesLogged == \A s \in Shard : \A t \in Term(s) : StateLogged(s, t, txnState[s][t])

(* What a coordinator knows is so.                                          *)
Running ==
  {"kInactive", "kWritingParticipantList", "kWaitingForVotes", "kWritingDecision",
   "kWaitingForDecisionAcks"}

CoordinatorSound(t, c) ==
  /\ t > term[Self] => c = NoCoordinator
  /\ c.step \in Running => ~Has(Self, t, "delete")
  /\ c.promised \/ c.step = "kWaitingForDecisionAcks" =>
       c.decision # "none" /\ Has(Self, t, DecisionOp(c.decision))
  /\ \A s \in c.commitVotes : DurablyPrepared(s) /\ c.ts >= PrepareTimestamp[s]
  /\ c.step = "kWritingDecision" =>
       /\ c.decision # "none"
       /\ c.decision = "commit" => CanCommitAt(c.ts)
       /\ c.opTime > 0 => /\ c.opTime <= LastIndex(Self, t)
                          /\ Decided(t, DecisionOp(c.decision), c.ts, c.opTime)

CoordinatorsSound == \A t \in Term(Self) : CoordinatorSound(t, coordinator[t])

(* Only durable decisions are sent.                                         *)
RequestSound(r) ==
  /\ r.op = "commit" => DurablyCommits(r.ts)
  /\ r.op = "abort" => DurablyAborts

RequestsSound == \A r \in requests : RequestSound(r)

(* The shard has not prepared and cannot any more: the first primary is     *)
(* past it, or a later one has replaced its oplog.                          *)
NeverPrepares(s) ==
  /\ ~DurablyPrepared(s)
  /\ \/ txnState[s][1] # "inProgress" /\ ~Has(s, 1, "prepare")
     \/ \E i \in 1 .. commitIndex[s] : log[s][term[s]][i].term > 1

(* What an answer is worth depends on the client's writeConcern: w:1 says   *)
(* no more than that a commit has all votes.                                *)
AnswerSound(a) ==
  /\ a.outcome = "commit" => \A s \in Shard : DurablyPrepared(s)
  /\ a.outcome = "commit" /\ a.w = "majority" => \E ts \in Nat : DurablyCommits(ts)
  /\ a.outcome = "abort" /\ a.w = "majority" => DurablyAborts \/ NeverPrepares(Self)

AnswersSound == \A a \in answers : AnswerSound(a)

(* The inductive invariant.                                                 *)
CommitInv ==
  /\ LogInv /\ TransactionTypeOK
  /\ EntriesJustified /\ DocumentOrder /\ StatesLogged
  /\ CoordinatorsSound /\ RequestsSound /\ AnswersSound

--------------------
(* The coordinator runs on one of the participants.                         *)
LEMMA SelfIsShard == Self \in Shard /\ 1 \in Term(Self) /\ MaxTerm[Self] \in Nat
BY ShardAssumption DEF Self, Term

(* What is in an oplog stays there.                                         *)
LEMMA HasStays ==
  ASSUME LogInv, ShardStep, NEW s \in Shard, NEW t \in Term(s), NEW op, Has(s, t, op)
  PROVE  Has(s, t, op)'
<1>1. PICK i \in 1 .. LastIndex(s, t) : log[s][t][i].op = op
  BY DEF Has
<1>2. /\ LastIndex(s, t) \in Nat /\ LastIndex(s, t) <= LastIndex(s, t)'
      /\ log'[s][t][i] = log[s][t][i]
  BY <1>1, StepGrows, ShardBasics DEF LogsGrow
<1>3. LastIndex(s, t)' \in Nat
  BY StepTypes DEF ShardsTypeOK, LastIndex
<1>4. i \in 1 .. LastIndex(s, t)'
  BY <1>2, <1>3
<1> QED BY <1>1, <1>2, <1>4 DEF Has

(* An entry that is durable stays durable.                                  *)
LEMMA DurableOpStays ==
  ASSUME LogInv, ShardStep, NEW s \in Shard, NEW op, op \in DurableOps(s)
  PROVE  (op \in DurableOps(s))'
<1>1. PICK i \in 1 .. commitIndex[s] : log[s][term[s]][i].op = op
  BY DEF DurableOps
<1>2. /\ commitIndex[s] <= commitIndex'[s] /\ commitIndex'[s] \in Nat /\ commitIndex[s] \in Nat
      /\ log'[s][term'[s]][i] = log[s][term[s]][i]
  BY <1>1, DurableStays, ShardBasics DEF DurableGrows
<1>3. i \in 1 .. commitIndex'[s]
  BY <1>2
<1> QED BY <1>1, <1>2, <1>3 DEF DurableOps

(* A durable decision to commit stays, with its timestamp.                  *)
LEMMA DurablyCommitsStays ==
  ASSUME LogInv, ShardStep, NEW ts, DurablyCommits(ts)
  PROVE  DurablyCommits(ts)'
<1>0. Self \in Shard
  BY SelfIsShard
<1>1. PICK i \in 1 .. commitIndex[Self] :
        log[Self][term[Self]][i].op = "decideCommit" /\ log[Self][term[Self]][i].ts = ts
  BY DEF DurablyCommits, Decided
<1>2. /\ commitIndex[Self] <= commitIndex'[Self] /\ commitIndex'[Self] \in Nat
      /\ commitIndex[Self] \in Nat
      /\ log'[Self][term'[Self]][i] = log[Self][term[Self]][i]
  BY <1>0, <1>1, DurableStays, ShardBasics DEF DurableGrows
<1>3. i \in 1 .. commitIndex'[Self]
  BY <1>2
<1> QED BY <1>1, <1>2, <1>3 DEF DurablyCommits, Decided, Self

(* Once every shard is durably prepared this does not change.               *)
LEMMA CanCommitStays ==
  ASSUME LogInv, ShardStep, NEW ts, CanCommitAt(ts)
  PROVE  CanCommitAt(ts)'
BY DurableOpStays DEF CanCommitAt, DurablyPrepared

(* A durable decision to abort stays.                                       *)
LEMMA DurablyAbortsStays ==
  ASSUME LogInv, ShardStep, DurablyAborts
  PROVE  DurablyAborts'
BY DurableOpStays, SelfIsShard DEF DurablyAborts, Self

(* An entry that had its reason keeps it.                                   *)
LEMMA EntryStays ==
  ASSUME LogInv, ShardStep, NEW e, EntryJustified(e)
  PROVE  EntryJustified(e)'
BY DurablyCommitsStays, CanCommitStays, DurablyAbortsStays DEF EntryJustified

(* A decision in the oplog of a primary stays at its index.                 *)
LEMMA DecidedStays ==
  ASSUME LogInv, ShardStep, NEW t \in Term(Self), NEW op, NEW ts, NEW last \in Nat,
         last <= LastIndex(Self, t), Decided(t, op, ts, last)
  PROVE  Decided(t, op, ts, last)' /\ last <= LastIndex(Self, t)'
<1>0. Self \in Shard
  BY SelfIsShard
<1>1. PICK i \in 1 .. last : log[Self][t][i].op = op /\ log[Self][t][i].ts = ts
  BY DEF Decided
<1>2. LastIndex(Self, t) \in Nat /\ LastIndex(Self, t) <= LastIndex(Self, t)'
  BY <1>0, StepGrows, ShardBasics DEF LogsGrow, Self
<1>3. LastIndex(Self, t)' \in Nat
  BY <1>0, StepTypes DEF ShardsTypeOK, LastIndex, Self
<1>4. log'[Self][t][i] = log[Self][t][i]
  BY <1>0, <1>2, StepGrows DEF LogsGrow, Self
<1>5. last <= LastIndex(Self, t)'
  BY <1>2, <1>3
<1> QED BY <1>1, <1>4, <1>5 DEF Decided, Self

--------------------
(* May the primary of t write this entry?                                   *)
MayWriteDocument(t, op) ==
  /\ ~Has(Self, t, "delete")
  /\ op = "participants" => ~Has(Self, t, "participants")
  /\ op \in Decisions \cup {"participants"} =>
       ~Has(Self, t, "decideCommit") /\ ~Has(Self, t, "decideAbort")

MayWrite(s, t, op, ts) ==
  /\ EntryJustified([term |-> t, op |-> op, ts |-> ts])
  /\ s = Self /\ op \in DocumentOps => MayWriteDocument(t, op)

(* A step that writes only such entries.                                    *)
JustifiedStep ==
  \/ UNCHANGED shardVars
  \/ \E s \in Shard : \E t \in primaries[s] : \E op \in OplogOps : \E ts \in Nat :
       Writes(s, t, op, ts) /\ MayWrite(s, t, op, ts)
  \/ \E s \in Shard : Replicate(s)
  \/ \E s \in Shard : Elects(s)
  \/ \E s \in Shard : \E t \in Term(s) : StopPrimary(s, t)

(* A justified step is a step of a replica set.                             *)
LEMMA JustifiedIsStep == JustifiedStep => ShardStep
BY DEF JustifiedStep, ShardStep

(* When a step writes only an entry with a reason, all entries have theirs, *)
(* those of a new primary included.                                         *)
LEMMA EntriesStay ==
  ASSUME LogInv, EntriesJustified, JustifiedStep
  PROVE  EntriesJustified'
<1>0. ShardStep
  BY JustifiedIsStep
<1> SUFFICES ASSUME NEW s \in Shard, NEW t \in Term(s), NEW i \in 1 .. LastIndex(s, t)'
             PROVE  EntryJustified(log[s][t][i])'
  BY DEF EntriesJustified
<1>1. \A e : EntryJustified(e) => EntryJustified(e)'
  BY <1>0, EntryStays
<1>2. CASE \E u \in Term(s) : \E j \in 1 .. LastIndex(s, u) : log'[s][t][i] = log[s][u][j]
  <2>0. PICK u \in Term(s) : \E j \in 1 .. LastIndex(s, u) : log'[s][t][i] = log[s][u][j]
    BY <1>2
  <2>1. PICK j \in 1 .. LastIndex(s, u) : log'[s][t][i] = log[s][u][j]
    BY <2>0
  <2>2. PICK e : e = log[s][u][j]
    OBVIOUS
  <2>3. EntryJustified(e)
    BY <2>2 DEF EntriesJustified
  <2>4. EntryJustified(e)'
    BY <1>1, <2>3
  <2>5. e = log'[s][t][i]
    BY <2>1, <2>2
  <2> QED BY <2>4, <2>5 DEF EntryJustified
<1>3. CASE OldEntry(s, t, i)
  <2>1. PICK u \in Term(s) : i <= LastIndex(s, u) /\ \A j \in 1 .. i : log'[s][t][j] = log[s][u][j]
    BY <1>3 DEF OldEntry
  <2>2. i \in 1 .. i /\ i \in 1 .. LastIndex(s, u)
    BY <2>1, ShardBasics
  <2> QED BY <1>2, <2>1, <2>2
<1>4. ASSUME NEW e, EntryJustified(e), e = log'[s][t][i]
      PROVE  EntryJustified(log[s][t][i])'
  <2>1. EntryJustified(e)'
    BY <1>1, <1>4
  <2> QED BY <1>4, <2>1 DEF EntryJustified
<1>5. CASE log' = log
  <2>1. i \in 1 .. LastIndex(s, t)
    BY <1>5 DEF LastIndex
  <2> QED BY <1>2, <1>5, <2>1
<1>6. ASSUME NEW r \in Shard, NEW v \in primaries[r], NEW op \in OplogOps, NEW ts \in Nat,
             Writes(r, v, op, ts), MayWrite(r, v, op, ts)
      PROVE  EntryJustified(log[s][t][i])'
  <2>1. CASE i <= LastIndex(s, t) /\ log'[s][t][i] = log[s][t][i]
    BY <1>2, <2>1, ShardBasics
  <2>2. CASE s = r /\ t = v /\ log'[s][t][i] = [term |-> t, op |-> op, ts |-> ts]
    BY <1>4, <1>6, <2>2 DEF MayWrite
  <2> QED BY <1>6, <2>1, <2>2, WriteOrigin
<1>7. ASSUME NEW r \in Shard, Elects(r)
      PROVE  EntryJustified(log[s][t][i])'
  <2>1. CASE log'[s][t][i] = [term |-> t, op |-> "newPrimary", ts |-> 0]
    BY <2>1 DEF EntryJustified
  <2> QED BY <1>3, <1>7, <2>1, ElectsOrigin
<1> QED BY <1>5, <1>6, <1>7 DEF JustifiedStep, shardVars, Replicate, StopPrimary

(* The entries about the coordinator document stay in order: a new primary  *)
(* starts from a history that had them in order.                            *)
LEMMA DocumentOrderStays ==
  ASSUME LogInv, DocumentOrder, JustifiedStep
  PROVE  DocumentOrder'
<1>0. ShardStep /\ Self \in Shard
  BY JustifiedIsStep, SelfIsShard
<1> SUFFICES ASSUME NEW t \in Term(Self), NEW i \in 1 .. LastIndex(Self, t)',
                    NEW j \in 1 .. LastIndex(Self, t)', i < j
             PROVE  OrderedOps(log'[Self][t][i].op, log'[Self][t][j].op)
  BY DEF DocumentOrder, Self
<1>1. CASE OldEntry(Self, t, j)
  <2>1. PICK u \in Term(Self) :
          /\ j <= LastIndex(Self, u)
          /\ \A k \in 1 .. j : log'[Self][t][k] = log[Self][u][k]
    BY <1>1 DEF OldEntry
  <2>2. i \in 1 .. j /\ j \in 1 .. j /\ i \in 1 .. LastIndex(Self, u) /\ j \in 1 .. LastIndex(Self, u)
    BY <1>0, <2>1, ShardBasics
  <2>3. OrderedOps(log[Self][u][i].op, log[Self][u][j].op)
    BY <2>2 DEF DocumentOrder
  <2> QED BY <2>1, <2>2, <2>3
<1>2. CASE log' = log
  <2>1. i \in 1 .. LastIndex(Self, t) /\ j \in 1 .. LastIndex(Self, t)
    BY <1>2 DEF LastIndex, Self
  <2> QED BY <1>2, <2>1 DEF DocumentOrder
<1>3. ASSUME NEW r \in Shard, NEW v \in primaries[r], NEW op \in OplogOps, NEW ts \in Nat,
             Writes(r, v, op, ts), MayWrite(r, v, op, ts)
      PROVE  OrderedOps(log'[Self][t][i].op, log'[Self][t][j].op)
  <2>1. LastIndex(Self, t) \in Nat
    BY <1>0, ShardBasics
  <2>2. CASE j <= LastIndex(Self, t)
    <3>1. \A k \in 1 .. j : log'[Self][t][k] = log[Self][t][k]
      BY <1>0, <2>1, <2>2, StepGrows DEF LogsGrow
    <3>2. i \in 1 .. j /\ j \in 1 .. j /\ i \in 1 .. LastIndex(Self, t) /\ j \in 1 .. LastIndex(Self, t)
      BY <2>1, <2>2
    <3> QED BY <3>1, <3>2 DEF DocumentOrder
  <2>3. CASE ~(j <= LastIndex(Self, t))
    <3>1. /\ Self = r /\ t = v /\ j = LastIndex(Self, t) + 1
          /\ log'[Self][t][j] = [term |-> t, op |-> op, ts |-> ts]
      BY <1>0, <1>3, <2>3, WriteOrigin
    <3>2. i \in 1 .. LastIndex(Self, t)
      BY <2>1, <3>1
    <3>3. log'[Self][t][i] = log[Self][t][i]
      BY <1>0, <3>2, StepGrows DEF LogsGrow
    <3>4. Has(Self, t, log'[Self][t][i].op)
      BY <3>2, <3>3 DEF Has
    <3>5. op \in DocumentOps => MayWriteDocument(t, op)
      BY <1>3, <3>1 DEF MayWrite
    <3>6. log'[Self][t][j].op = op
      BY <3>1
    <3> QED BY <3>4, <3>5, <3>6 DEF OrderedOps, MayWriteDocument, Decisions, DocumentOps
  <2> QED BY <2>2, <2>3
<1>4. ASSUME NEW r \in Shard, Elects(r)
      PROVE  OrderedOps(log'[Self][t][i].op, log'[Self][t][j].op)
  <2>1. CASE log'[Self][t][j] = [term |-> t, op |-> "newPrimary", ts |-> 0]
    <3>1. log'[Self][t][j].op = "newPrimary"
      BY <2>1
    <3> QED BY <3>1 DEF OrderedOps, Decisions, DocumentOps
  <2> QED BY <1>0, <1>1, <1>4, <2>1, ElectsOrigin
<1> QED BY <1>2, <1>3, <1>4 DEF JustifiedStep, shardVars, Replicate, StopPrimary

--------------------
(* A write adds to one oplog what it writes, and nothing else.              *)
LEMMA WriteAdds ==
  ASSUME LogInv, NEW r \in Shard, NEW v \in primaries[r], NEW op \in OplogOps, NEW ts \in Nat,
         Writes(r, v, op, ts), NEW s \in Shard, NEW t \in Term(s), NEW new, Has(s, t, new)'
  PROVE  Has(s, t, new) \/ (s = r /\ t = v /\ new = op)
<1>1. PICK i \in 1 .. LastIndex(s, t)' : log'[s][t][i].op = new
  BY DEF Has
<1>2. CASE i <= LastIndex(s, t) /\ log'[s][t][i] = log[s][t][i]
  <2>1. i \in 1 .. LastIndex(s, t)
    BY <1>2, ShardBasics
  <2> QED BY <1>1, <1>2, <2>1 DEF Has
<1>3. CASE s = r /\ t = v /\ log'[s][t][i] = [term |-> t, op |-> op, ts |-> ts]
  BY <1>1, <1>3
<1> QED BY <1>2, <1>3, WriteOrigin

(* Without a write no oplog has anything new.                               *)
LEMMA NothingAdded ==
  ASSUME log' = log, NEW s \in Shard, NEW t \in Term(s), NEW new
  PROVE  Has(s, t, new)' <=> Has(s, t, new)
BY DEF Has, LastIndex

(* An election changes no oplog but that of the new primary.                *)
LEMMA ElectionAdds ==
  ASSUME LogInv, NEW r \in Shard, NEW h \in ElectableLogs(r), NewPrimary(r, h),
         NEW s \in Shard, NEW t \in Term(s), s # r \/ t # term[r] + 1, NEW new
  PROVE  Has(s, t, new)' <=> Has(s, t, new)
<1>1. log'[s][t] = log[s][t]
  BY ElectsEffect
<1> QED BY <1>1 DEF Has, LastIndex

(* A write that is allowed is a justified step.                             *)
LEMMA WriteIsStep ==
  ASSUME NEW s \in Shard, NEW t \in primaries[s], NEW op \in OplogOps, NEW ts \in Nat,
         Writes(s, t, op, ts), MayWrite(s, t, op, ts)
  PROVE  JustifiedStep
BY DEF JustifiedStep

--------------------
(* What the state of a transaction says of the oplog stays so when the      *)
(* oplog gets no prepare entry.                                             *)
LEMMA StateStays ==
  ASSUME LogInv, ShardStep, NEW s \in Shard, NEW t \in Term(s), NEW state,
         StateLogged(s, t, state),
         t \in primaries'[s] => t \in primaries[s],
         Has(s, t, "prepare")' => Has(s, t, "prepare")
  PROVE  StateLogged(s, t, state)'
<1>1. /\ Has(s, t, "prepare") => Has(s, t, "prepare")'
      /\ Has(s, t, "commit") => Has(s, t, "commit")'
      /\ Has(s, t, "abort") => Has(s, t, "abort")'
  BY HasStays
<1> QED BY <1>1 DEF StateLogged

(* Becomes changes one state.                                               *)
LEMMA BecomesEffect ==
  ASSUME TransactionTypeOK, NEW s \in Shard, NEW t \in Term(s), NEW state \in TransactionState,
         Becomes(s, t, state)
  PROVE  /\ txnState'[s][t] = state
         /\ \A r \in Shard : \A u \in Term(r) : r # s \/ u # t => txnState'[r][u] = txnState[r][u]
         /\ DOMAIN txnState' = Shard
         /\ \A r \in Shard : txnState'[r] \in [Term(r) -> TransactionState]
<1>1. /\ DOMAIN txnState = Shard
      /\ \A r \in Shard : txnState[r] \in [Term(r) -> TransactionState]
  BY DEF TransactionTypeOK
<1>2. /\ DOMAIN txnState' = Shard
      /\ \A r \in Shard : txnState'[r] = IF r = s THEN [txnState[s] EXCEPT ![t] = state] ELSE txnState[r]
  BY <1>1 DEF Becomes
<1> QED BY <1>1, <1>2

(* The states fit the oplogs after one of them changed, if the new one      *)
(* does.                                                                    *)
LEMMA StatesStay ==
  ASSUME LogInv, ShardStep, TransactionTypeOK, StatesLogged,
         NEW s \in Shard, NEW t \in Term(s), NEW state \in TransactionState,
         Becomes(s, t, state), StateLogged(s, t, state)',
         \A r \in Shard : \A u \in Term(r) : r # s \/ u # t =>
           /\ u \in primaries'[r] => u \in primaries[r]
           /\ Has(r, u, "prepare")' => Has(r, u, "prepare")
  PROVE  StatesLogged'
<1> SUFFICES ASSUME NEW r \in Shard, NEW u \in Term(r)
             PROVE  StateLogged(r, u, txnState[r][u])'
  BY DEF StatesLogged
<1>1. CASE r = s /\ u = t
  <2>1. txnState'[r][u] = state
    BY <1>1, BecomesEffect
  <2> QED BY <1>1, <2>1 DEF StateLogged
<1>2. CASE r # s \/ u # t
  <2>1. PICK x : x = txnState[r][u]
    OBVIOUS
  <2>2. txnState'[r][u] = x
    BY <1>2, <2>1, BecomesEffect
  <2>3. StateLogged(r, u, x)
    BY <2>1 DEF StatesLogged
  <2>4. StateLogged(r, u, x)'
    BY <1>2, <2>3, StateStays
  <2> QED BY <2>2, <2>4 DEF StateLogged
<1> QED BY <1>1, <1>2

(* The states fit the oplogs after a step that changes no state.            *)
LEMMA SameStatesStay ==
  ASSUME LogInv, ShardStep, StatesLogged, txnState' = txnState,
         \A r \in Shard : \A u \in Term(r) :
           /\ u \in primaries'[r] => u \in primaries[r]
           /\ Has(r, u, "prepare")' => Has(r, u, "prepare")
  PROVE  StatesLogged'
<1> SUFFICES ASSUME NEW r \in Shard, NEW u \in Term(r)
             PROVE  StateLogged(r, u, txnState[r][u])'
  BY DEF StatesLogged
<1>1. PICK x : x = txnState[r][u]
  OBVIOUS
<1>2. StateLogged(r, u, x)
  BY <1>1 DEF StatesLogged
<1>3. StateLogged(r, u, x)'
  BY <1>2, StateStays
<1> QED BY <1>1, <1>3 DEF StateLogged

--------------------
(* What a coordinator knows stays so as long as its document is not         *)
(* deleted.                                                                 *)
LEMMA CoordinatorStays ==
  ASSUME LogInv, ShardStep, NEW t \in Term(Self), NEW c \in Coordinator,
         CoordinatorSound(t, c),
         c.step \in Running /\ Has(Self, t, "delete")' => Has(Self, t, "delete")
  PROVE  CoordinatorSound(t, c)'
<1>0. Self \in Shard /\ t \in Nat /\ term[Self] \in Nat
  BY SelfIsShard, ShardBasics
<1>1. t > term'[Self] => t > term[Self]
  <2>1. term'[Self] \in Nat /\ term[Self] <= term'[Self]
    <3>1. CASE term' = term
      BY <1>0, <3>1
    <3>2. ASSUME NEW r \in Shard, Elects(r)
          PROVE  term'[Self] \in Nat /\ term[Self] <= term'[Self]
      <4>1. term \in [Shard -> Nat] /\ term' = [term EXCEPT ![r] = @ + 1]
        BY <3>2 DEF Elects, NewPrimary, LogInv, ShardsTypeOK
      <4>2. term'[Self] = IF Self = r THEN term[Self] + 1 ELSE term[Self]
        BY <1>0, <4>1
      <4> QED BY <1>0, <4>2
    <3> QED BY <3>1, <3>2 DEF ShardStep, shardVars, Writes, Replicate, StopPrimary
  <2> QED BY <1>0, <2>1
<1>2. \A s \in c.commitVotes : DurablyPrepared(s)'
  <2>1. c.commitVotes \subseteq Shard
    BY DEF Coordinator
  <2> QED BY <2>1, DurableOpStays DEF CoordinatorSound, DurablyPrepared
<1>3. \A op : Has(Self, t, op) => Has(Self, t, op)'
  BY <1>0, HasStays
<1>4. CanCommitAt(c.ts) => CanCommitAt(c.ts)'
  BY CanCommitStays
<1>5. c.opTime \in Nat
  BY DEF Coordinator
<1>6. c.opTime <= LastIndex(Self, t) /\ Decided(t, DecisionOp(c.decision), c.ts, c.opTime) =>
        c.opTime <= LastIndex(Self, t)' /\ Decided(t, DecisionOp(c.decision), c.ts, c.opTime)'
  BY <1>5, DecidedStays DEF DecisionOp
<1>7. t > term'[Self] => c = NoCoordinator
  BY <1>1 DEF CoordinatorSound
<1>8. c.step \in Running => ~Has(Self, t, "delete")'
  BY DEF CoordinatorSound
<1>9. c.promised \/ c.step = "kWaitingForDecisionAcks" =>
        c.decision # "none" /\ Has(Self, t, DecisionOp(c.decision))'
  BY <1>3 DEF CoordinatorSound
<1>10. \A s \in c.commitVotes : c.ts >= PrepareTimestamp[s]
  BY DEF CoordinatorSound
<1>11. c.step = "kWritingDecision" =>
         /\ c.decision # "none"
         /\ c.decision = "commit" => CanCommitAt(c.ts)'
         /\ c.opTime > 0 => /\ c.opTime <= LastIndex(Self, t)'
                            /\ Decided(t, DecisionOp(c.decision), c.ts, c.opTime)'
  BY <1>4, <1>6 DEF CoordinatorSound
<1> QED BY <1>2, <1>7, <1>8, <1>9, <1>10, <1>11 DEF CoordinatorSound, Self, DecisionOp

(* All coordinators are sound after one of them changed, if that one is.    *)
LEMMA CoordinatorsStay ==
  ASSUME LogInv, ShardStep, TransactionTypeOK, CoordinatorsSound,
         NEW t \in Term(Self), NEW c \in Coordinator,
         coordinator' = [coordinator EXCEPT ![t] = c], CoordinatorSound(t, c)',
         \A u \in Term(Self) : u # t /\ Has(Self, u, "delete")' => Has(Self, u, "delete")
  PROVE  CoordinatorsSound' /\ coordinator' \in [Term(Self) -> Coordinator]
<1>0. coordinator \in [Term(Self) -> Coordinator]
  BY DEF TransactionTypeOK
<1>1. coordinator' \in [Term(Self) -> Coordinator]
  BY <1>0
<1>2. ASSUME NEW u \in Term(Self)
      PROVE  CoordinatorSound(u, coordinator[u])'
  <2>1. CASE u = t
    <3>1. coordinator'[u] = c
      BY <1>0, <2>1
    <3> QED BY <2>1, <3>1 DEF CoordinatorSound, DecisionOp
  <2>2. CASE u # t
    <3>1. PICK d \in Coordinator : d = coordinator[u]
      BY <1>0
    <3>2. coordinator'[u] = d
      BY <1>0, <2>2, <3>1
    <3>3. CoordinatorSound(u, d)
      BY <3>1 DEF CoordinatorsSound
    <3>4. CoordinatorSound(u, d)'
      BY <2>2, <3>3, CoordinatorStays
    <3> QED BY <3>2, <3>4 DEF CoordinatorSound, DecisionOp
  <2> QED BY <2>1, <2>2
<1> QED BY <1>1, <1>2 DEF CoordinatorsSound, Self

(* All coordinators are sound after a step that changes none.               *)
LEMMA SameCoordinatorsStay ==
  ASSUME LogInv, ShardStep, TransactionTypeOK, CoordinatorsSound, coordinator' = coordinator,
         \A u \in Term(Self) : Has(Self, u, "delete")' => Has(Self, u, "delete")
  PROVE  CoordinatorsSound'
<1>0. coordinator \in [Term(Self) -> Coordinator]
  BY DEF TransactionTypeOK
<1>2. ASSUME NEW u \in Term(Self)
      PROVE  CoordinatorSound(u, coordinator[u])'
  <2>1. PICK d \in Coordinator : d = coordinator[u]
    BY <1>0
  <2>2. CoordinatorSound(u, d)
    BY <2>1 DEF CoordinatorsSound
  <2>3. CoordinatorSound(u, d)'
    BY <2>2, CoordinatorStays
  <2> QED BY <2>1, <2>3 DEF CoordinatorSound, DecisionOp
<1> QED BY <1>2 DEF CoordinatorsSound, Self

--------------------
(* A command that was sent stays sound.                                     *)
LEMMA RequestStays ==
  ASSUME LogInv, ShardStep, NEW r, RequestSound(r)
  PROVE  RequestSound(r)'
BY DurablyCommitsStays, DurablyAbortsStays DEF RequestSound

(* The commands stay sound when none is sent.                               *)
LEMMA SameRequestsStay ==
  ASSUME LogInv, ShardStep, RequestsSound, requests' = requests
  PROVE  RequestsSound'
BY RequestStays DEF RequestsSound

(* The commands stay sound when a sound one is sent.                        *)
LEMMA MoreRequestsStay ==
  ASSUME LogInv, ShardStep, RequestsSound, NEW r, requests' = requests \cup {r}, RequestSound(r)
  PROVE  RequestsSound'
BY RequestStays DEF RequestsSound

--------------------
(* A prepare that is durable comes, with all before it, from the first      *)
(* primary.                                                                 *)
PrepareFirst ==
  \A s \in Shard : \A i \in 1 .. commitIndex[s] :
    log[s][term[s]][i].op = "prepare" =>
      /\ Has(s, 1, "prepare")
      /\ \A k \in 1 .. i : log[s][term[s]][k].term <= 1

(* The first term is a term of every shard.                                 *)
LEMMA OneIsTerm == \A s \in Shard : 1 \in Term(s)
BY ShardAssumption DEF Term

(* A prepare entry that is durable comes, with all that is before it, from  *)
(* the first primary.                                                       *)
LEMMA PrepareIsFirst == LogInv /\ EntriesJustified => PrepareFirst
<1> SUFFICES ASSUME LogInv, EntriesJustified, NEW s \in Shard,
                    NEW i \in 1 .. commitIndex[s], log[s][term[s]][i].op = "prepare"
             PROVE  /\ Has(s, 1, "prepare")
                    /\ \A k \in 1 .. i : log[s][term[s]][k].term <= 1
  BY DEF PrepareFirst
<1>0. /\ term[s] \in Term(s) /\ 1 \in Term(s)
      /\ commitIndex[s] \in Nat /\ commitIndex[s] <= LastIndex(s, term[s])
      /\ LastIndex(s, term[s]) \in Nat /\ LastIndex(s, 1) \in Nat
  BY ShardBasics, OneIsTerm
<1>1. i \in 1 .. LastIndex(s, term[s])
  BY <1>0
<1>2. log[s][term[s]][i].term = 1
  BY <1>0, <1>1 DEF EntriesJustified, EntryJustified
<1>3. EntryMatches(s, term[s], i)
  BY <1>0, <1>1 DEF LogInv, LogMatching
<1>4. i <= LastIndex(s, 1) /\ \A k \in 1 .. i : log[s][1][k] = log[s][term[s]][k]
  BY <1>2, <1>3 DEF EntryMatches
<1>5. i \in 1 .. LastIndex(s, 1) /\ i \in 1 .. i
  BY <1>0, <1>4
<1>6. Has(s, 1, "prepare")
  BY <1>4, <1>5 DEF Has
<1>7. ASSUME NEW k \in 1 .. i
      PROVE  log[s][term[s]][k].term <= 1
  <2>1. k \in 1 .. LastIndex(s, 1)
    BY <1>0, <1>4
  <2>2. EntryMatches(s, 1, k)
    BY <1>0, <2>1 DEF LogInv, LogMatching
  <2>3. log[s][1][k].term \in 1 .. 1
    BY <2>2 DEF EntryMatches
  <2> QED BY <1>4, <2>3
<1> QED BY <1>6, <1>7

(* A shard that never prepares goes on so: its first primary is past it, or *)
(* its history has been replaced.                                           *)
LEMMA NeverPreparesStays ==
  ASSUME LogInv, ShardStep, LogInv', EntriesJustified', NEW s \in Shard, NeverPrepares(s),
         txnState'[s][1] = "inProgress" => txnState[s][1] = "inProgress",
         Has(s, 1, "prepare")' => Has(s, 1, "prepare") \/ txnState[s][1] = "inProgress"
  PROVE  NeverPrepares(s)'
<1>0. /\ commitIndex[s] \in Nat
      /\ commitIndex'[s] \in Nat /\ commitIndex[s] <= commitIndex'[s]
      /\ \A i \in 1 .. commitIndex[s] : log'[s][term'[s]][i] = log[s][term[s]][i]
  BY ShardBasics, DurableStays DEF DurableGrows
<1>1. ASSUME NEW i \in 1 .. commitIndex'[s], log'[s][term'[s]][i].op = "prepare"
      PROVE  /\ Has(s, 1, "prepare")'
             /\ \A k \in 1 .. i : log'[s][term'[s]][k].term <= 1
  <2>1. PrepareFirst'
    BY PrepareIsFirst, PTL
  <2> QED BY <1>1, <2>1 DEF PrepareFirst
<1>2. CASE txnState[s][1] # "inProgress" /\ ~Has(s, 1, "prepare")
  <2>1. txnState'[s][1] # "inProgress" /\ ~Has(s, 1, "prepare")'
    BY <1>2
  <2>2. ~DurablyPrepared(s)'
    BY <1>1, <2>1 DEF DurablyPrepared, DurableOps
  <2> QED BY <2>1, <2>2 DEF NeverPrepares
<1>3. CASE \E i \in 1 .. commitIndex[s] : log[s][term[s]][i].term > 1
  <2>1. PICK k \in 1 .. commitIndex[s] : log[s][term[s]][k].term > 1
    BY <1>3
  <2>2. k \in 1 .. commitIndex'[s] /\ log'[s][term'[s]][k] = log[s][term[s]][k]
    BY <1>0
  <2>3. log[s][term[s]][k].term \in Nat
    BY <1>0, ShardBasics DEF OplogEntry
  <2>4. ASSUME NEW i \in 1 .. commitIndex'[s], log'[s][term'[s]][i].op = "prepare"
        PROVE  FALSE
    <3>1. CASE i <= commitIndex[s]
      <4>1. i \in 1 .. commitIndex[s] /\ log[s][term[s]][i].op = "prepare"
        BY <1>0, <2>4, <3>1
      <4> QED BY <4>1 DEF NeverPrepares, DurablyPrepared, DurableOps
    <3>2. CASE ~(i <= commitIndex[s])
      <4>1. k \in 1 .. i
        BY <1>0, <3>2
      <4> QED BY <1>1, <2>1, <2>2, <2>3, <2>4, <4>1
    <3> QED BY <3>1, <3>2
  <2>5. ~DurablyPrepared(s)'
    BY <2>4 DEF DurablyPrepared, DurableOps
  <2>6. \E i \in 1 .. commitIndex'[s] : log'[s][term'[s]][i].term > 1
    BY <2>1, <2>2
  <2> QED BY <2>5, <2>6 DEF NeverPrepares
<1> QED BY <1>2, <1>3 DEF NeverPrepares

(* What was told to clients stays true, and what is told in this step is.   *)
LEMMA AnswersStay ==
  ASSUME LogInv, ShardStep, LogInv', EntriesJustified', AnswersSound,
         txnState'[Self][1] = "inProgress" => txnState[Self][1] = "inProgress",
         Has(Self, 1, "prepare")' => Has(Self, 1, "prepare") \/ txnState[Self][1] = "inProgress",
         \A a \in answers' : a \in answers \/ AnswerSound(a)
  PROVE  AnswersSound'
<1>0. \A s \in Shard : DurablyPrepared(s) => DurablyPrepared(s)'
  BY DurableOpStays DEF DurablyPrepared
<1>1. (\E ts \in Nat : DurablyCommits(ts)) => \E ts \in Nat : DurablyCommits(ts)'
  BY DurablyCommitsStays
<1>2. DurablyAborts => DurablyAborts'
  BY DurablyAbortsStays
<1>3. NeverPrepares(Self) => NeverPrepares(Self)'
  BY NeverPreparesStays, SelfIsShard
<1>4. ASSUME NEW a, AnswerSound(a)
      PROVE  AnswerSound(a)'
  BY <1>0, <1>1, <1>2, <1>3, <1>4 DEF AnswerSound, Self
<1> QED BY <1>4 DEF AnswersSound

--------------------
(* The coordinator document is what the last entry about it says.           *)
LEMMA DocumentIs ==
  ASSUME LogInv, NEW t \in Term(Self)
  PROVE  \/ /\ Document(t).op = "none"
            /\ \A j \in 1 .. LastIndex(Self, t) : log[Self][t][j].op \notin DocumentOps
         \/ \E i \in 1 .. LastIndex(Self, t) :
              /\ log[Self][t][i].op \in DocumentOps
              /\ \A j \in 1 .. LastIndex(Self, t) : log[Self][t][j].op \in DocumentOps => j <= i
              /\ log[Self][t][i].op = "delete" => Document(t).op = "none"
              /\ log[Self][t][i].op # "delete" =>
                   Document(t) = [op |-> log[Self][t][i].op, ts |-> log[Self][t][i].ts]
<1> DEFINE written == Indices(Self, t, DocumentOps)
           i == CHOOSE k \in written : \A j \in written : j <= k
<1>0. LastIndex(Self, t) \in Nat
  BY SelfIsShard, ShardBasics
<1>1. written = {j \in 1 .. LastIndex(Self, t) : log[Self][t][j].op \in DocumentOps}
  BY DEF Indices
<1>2. CASE written = {}
  <2>1. Document(t) = [op |-> "none", ts |-> 0]
    BY <1>2 DEF Document
  <2> QED BY <1>1, <1>2, <2>1
<1>3. CASE written # {}
  <2>1. written \subseteq 1 .. LastIndex(Self, t)
    BY <1>1
  <2>2. \E k \in written : \A j \in written : j <= k
    <3> HIDE DEF written
    <3> QED BY <1>0, <1>3, <2>1, GreatestIndex
  <2>3. i \in written /\ \A j \in written : j <= i
    BY <2>2
  <2>4. Document(t) = IF log[Self][t][i].op = "delete" THEN [op |-> "none", ts |-> 0]
                      ELSE [op |-> log[Self][t][i].op, ts |-> log[Self][t][i].ts]
    <3> HIDE DEF i
    <3>1. Document(t) =
            CASE written = {} \/ (written # {} /\ log[Self][t][i].op = "delete") ->
                   [op |-> "none", ts |-> 0]
              [] OTHER -> [op |-> log[Self][t][i].op, ts |-> log[Self][t][i].ts]
      BY DEF Document, i
    <3> HIDE DEF written
    <3> QED BY <1>3, <3>1
  <2> HIDE DEF i
  <2>5. /\ i \in 1 .. LastIndex(Self, t) /\ log[Self][t][i].op \in DocumentOps
        /\ \A j \in 1 .. LastIndex(Self, t) : log[Self][t][j].op \in DocumentOps => j <= i
    BY <1>1, <2>3
  <2> QED BY <2>4, <2>5
<1> QED BY <1>2, <1>3

(* A document that is there was not deleted, is in the oplog as it reads,   *)
(* and has no decision if it reads as the list of participants.             *)
LEMMA LiveDocument ==
  ASSUME LogInv, DocumentOrder, NEW t \in Term(Self), Document(t).op # "none"
  PROVE  /\ Document(t).op \in Decisions \cup {"participants"} /\ Document(t).ts \in Nat
         /\ ~Has(Self, t, "delete")
         /\ Decided(t, Document(t).op, Document(t).ts, LastIndex(Self, t))
         /\ Document(t).op = "participants" =>
              ~Has(Self, t, "decideCommit") /\ ~Has(Self, t, "decideAbort")
<1>0. LastIndex(Self, t) \in Nat
  BY SelfIsShard, ShardBasics
<1>1. PICK i \in 1 .. LastIndex(Self, t) :
        /\ log[Self][t][i].op \in DocumentOps /\ log[Self][t][i].op # "delete"
        /\ \A j \in 1 .. LastIndex(Self, t) : log[Self][t][j].op \in DocumentOps => j <= i
        /\ Document(t) = [op |-> log[Self][t][i].op, ts |-> log[Self][t][i].ts]
  BY DocumentIs
<1>2. log[Self][t][i] \in OplogEntry
  BY SelfIsShard, ShardBasics
<1>3. /\ Document(t).op = log[Self][t][i].op /\ Document(t).ts = log[Self][t][i].ts
      /\ Document(t).ts \in Nat
  BY <1>1, <1>2 DEF OplogEntry
<1>4. ASSUME NEW j \in 1 .. LastIndex(Self, t), log[Self][t][j].op \in DocumentOps
      PROVE  j = i \/ OrderedOps(log[Self][t][j].op, log[Self][t][i].op)
  <2>1. j <= i
    BY <1>1, <1>4
  <2> QED BY <1>0, <2>1 DEF DocumentOrder
<1>5. ~Has(Self, t, "delete")
  BY <1>1, <1>4 DEF Has, OrderedOps, DocumentOps
<1>6. log[Self][t][i].op = "participants" =>
        ~Has(Self, t, "decideCommit") /\ ~Has(Self, t, "decideAbort")
  BY <1>4 DEF Has, OrderedOps, DocumentOps, Decisions
<1> QED BY <1>1, <1>3, <1>5, <1>6 DEF Decided, DocumentOps, Decisions

(* Without a document and without its deletion the oplog has no entry about *)
(* it.                                                                      *)
LEMMA NoDocument ==
  ASSUME LogInv, NEW t \in Term(Self), Document(t).op = "none", ~Has(Self, t, "delete")
  PROVE  \A op \in DocumentOps : ~Has(Self, t, op)
<1>1. CASE \A j \in 1 .. LastIndex(Self, t) : log[Self][t][j].op \notin DocumentOps
  BY <1>1 DEF Has
<1>2. ASSUME NEW i \in 1 .. LastIndex(Self, t), log[Self][t][i].op \in DocumentOps,
             log[Self][t][i].op = "delete"
      PROVE  FALSE
  BY <1>2 DEF Has
<1>3. ASSUME NEW i \in 1 .. LastIndex(Self, t), log[Self][t][i].op \in DocumentOps,
             Document(t) = [op |-> log[Self][t][i].op, ts |-> log[Self][t][i].ts]
      PROVE  FALSE
  BY <1>3 DEF DocumentOps
<1> QED BY <1>1, <1>2, <1>3, DocumentIs

--------------------
(* A step that writes nothing.                                              *)
QuietStep ==
  /\ UNCHANGED shardVars
  /\ \/ txnState' = txnState
     \/ \E s \in Shard : \E t \in Term(s) : \E x \in TransactionState \ {"inProgress"} :
          Becomes(s, t, x) /\ StateLogged(s, t, x)
  /\ \/ coordinator' = coordinator
     \/ \E t \in Term(Self) : \E c \in Coordinator :
          coordinator' = [coordinator EXCEPT ![t] = c] /\ CoordinatorSound(t, c)
  /\ \/ requests' = requests
     \/ \E r \in Request : requests' = requests \cup {r} /\ RequestSound(r)
  /\ answers' \subseteq Answer
  /\ \A a \in answers' : a \in answers \/ AnswerSound(a)

(* A step that writes nothing keeps the invariant when what it changes is   *)
(* sound.                                                                   *)
LEMMA QuietInv == ASSUME CommitInv, QuietStep PROVE CommitInv'
<1>0. /\ LogInv /\ TransactionTypeOK /\ EntriesJustified /\ DocumentOrder /\ StatesLogged
      /\ CoordinatorsSound /\ RequestsSound /\ AnswersSound
  BY DEF CommitInv
<1>1. JustifiedStep /\ ShardStep /\ UNCHANGED shardVars
  BY DEF QuietStep, JustifiedStep, ShardStep
<1>2. LogInv' /\ EntriesJustified' /\ DocumentOrder'
  BY <1>0, <1>1, ShardStepInv, EntriesStay, DocumentOrderStays
<1>3. log' = log /\ primaries' = primaries
  BY <1>1 DEF shardVars
<1>4. \A s \in Shard : \A t \in Term(s) : \A op : Has(s, t, op)' => Has(s, t, op)
  BY <1>3, NothingAdded
<1>5. /\ StatesLogged' /\ DOMAIN txnState' = Shard
      /\ \A s \in Shard : txnState'[s] \in [Term(s) -> TransactionState]
      /\ txnState'[Self][1] = "inProgress" => txnState[Self][1] = "inProgress"
  <2>1. CASE txnState' = txnState
    BY <1>0, <1>1, <1>3, <1>4, <2>1, SameStatesStay DEF TransactionTypeOK
  <2>2. ASSUME NEW s \in Shard, NEW t \in Term(s), NEW x \in TransactionState \ {"inProgress"},
               Becomes(s, t, x), StateLogged(s, t, x)
        PROVE  /\ StatesLogged' /\ DOMAIN txnState' = Shard
               /\ \A r \in Shard : txnState'[r] \in [Term(r) -> TransactionState]
               /\ txnState'[Self][1] = "inProgress" => txnState[Self][1] = "inProgress"
    <3>1. StateLogged(s, t, x)'
      BY <1>0, <1>1, <1>3, <1>4, <2>2, StateStays
    <3>2. StatesLogged'
      BY <1>0, <1>1, <1>3, <1>4, <2>2, <3>1, StatesStay
    <3> QED BY <1>0, <2>2, <3>2, BecomesEffect, SelfIsShard
  <2> QED BY <2>1, <2>2 DEF QuietStep
<1>6. CoordinatorsSound' /\ coordinator' \in [Term(Self) -> Coordinator]
  <2>1. \A u \in Term(Self) : Has(Self, u, "delete")' => Has(Self, u, "delete")
    BY <1>4, SelfIsShard
  <2>2. CASE coordinator' = coordinator
    BY <1>0, <1>1, <2>1, <2>2, SameCoordinatorsStay DEF TransactionTypeOK
  <2>3. ASSUME NEW t \in Term(Self), NEW c \in Coordinator,
               coordinator' = [coordinator EXCEPT ![t] = c], CoordinatorSound(t, c)
        PROVE  CoordinatorsSound' /\ coordinator' \in [Term(Self) -> Coordinator]
    <3>1. CoordinatorSound(t, c)'
      BY <1>0, <1>1, <2>1, <2>3, CoordinatorStays
    <3> QED BY <1>0, <1>1, <2>1, <2>3, <3>1, CoordinatorsStay
  <2> QED BY <2>2, <2>3 DEF QuietStep
<1>7. RequestsSound' /\ requests' \subseteq Request
  <2>1. CASE requests' = requests
    BY <1>0, <1>1, <2>1, SameRequestsStay DEF TransactionTypeOK
  <2>2. ASSUME NEW r \in Request, requests' = requests \cup {r}, RequestSound(r)
        PROVE  RequestsSound' /\ requests' \subseteq Request
    BY <1>0, <1>1, <2>2, MoreRequestsStay DEF TransactionTypeOK
  <2> QED BY <2>1, <2>2 DEF QuietStep
<1>8. AnswersSound'
  <2>1. Has(Self, 1, "prepare")' => Has(Self, 1, "prepare")
    BY <1>4, SelfIsShard
  <2> QED BY <1>0, <1>1, <1>2, <1>5, <2>1, AnswersStay DEF QuietStep
<1>9. TransactionTypeOK'
  BY <1>5, <1>6, <1>7 DEF TransactionTypeOK, QuietStep, Self
<1> QED BY <1>2, <1>5, <1>6, <1>7, <1>8, <1>9 DEF CommitInv

(* A step that writes one entry keeps the invariant: an entry of the        *)
(* coordinator, or of a participant whose state changes with it.            *)
LEMMA WriteInv ==
  ASSUME CommitInv, NEW s \in Shard, NEW t \in primaries[s], NEW op \in OplogOps, NEW ts \in Nat,
         Writes(s, t, op, ts), MayWrite(s, t, op, ts),
         \/ txnState' = txnState /\ op # "prepare"
         \/ \E x \in TransactionState \ {"inProgress"} : Becomes(s, t, x) /\ StateLogged(s, t, x)',
         op = "prepare" => txnState[s][t] = "inProgress",
         \/ coordinator' = coordinator /\ op # "delete"
         \/ s = Self /\ \E c \in Coordinator :
              coordinator' = [coordinator EXCEPT ![t] = c] /\ CoordinatorSound(t, c)',
         UNCHANGED <<requests, answers>>
  PROVE  CommitInv'
<1>0. /\ LogInv /\ TransactionTypeOK /\ EntriesJustified /\ DocumentOrder /\ StatesLogged
      /\ CoordinatorsSound /\ RequestsSound /\ AnswersSound
  BY DEF CommitInv
<1>1. JustifiedStep /\ ShardStep
  BY WriteIsStep, JustifiedIsStep
<1>2. LogInv' /\ EntriesJustified' /\ DocumentOrder'
  BY <1>0, <1>1, ShardStepInv, EntriesStay, DocumentOrderStays
<1>3. primaries' = primaries /\ t \in Term(s)
  BY <1>0, ShardBasics DEF Writes
<1>4. \A r \in Shard : \A u \in Term(r) : \A new :
        Has(r, u, new)' => Has(r, u, new) \/ (r = s /\ u = t /\ new = op)
  BY <1>0, WriteAdds
<1>5. /\ StatesLogged' /\ DOMAIN txnState' = Shard
      /\ \A r \in Shard : txnState'[r] \in [Term(r) -> TransactionState]
      /\ txnState'[Self][1] = "inProgress" => txnState[Self][1] = "inProgress"
  <2>1. CASE txnState' = txnState /\ op # "prepare"
    <3>1. \A r \in Shard : \A u \in Term(r) : Has(r, u, "prepare")' => Has(r, u, "prepare")
      BY <1>4, <2>1
    <3> QED BY <1>0, <1>1, <1>3, <2>1, <3>1, SameStatesStay DEF TransactionTypeOK
  <2>2. ASSUME NEW x \in TransactionState \ {"inProgress"}, Becomes(s, t, x), StateLogged(s, t, x)'
        PROVE  /\ StatesLogged' /\ DOMAIN txnState' = Shard
               /\ \A r \in Shard : txnState'[r] \in [Term(r) -> TransactionState]
               /\ txnState'[Self][1] = "inProgress" => txnState[Self][1] = "inProgress"
    <3>1. \A r \in Shard : \A u \in Term(r) :
            r # s \/ u # t => (Has(r, u, "prepare")' => Has(r, u, "prepare"))
      BY <1>4
    <3>2. StatesLogged'
      BY <1>0, <1>1, <1>3, <2>2, <3>1, StatesStay
    <3> QED BY <1>0, <1>3, <2>2, <3>2, BecomesEffect, SelfIsShard
  <2> QED BY <2>1, <2>2
<1>6. CoordinatorsSound' /\ coordinator' \in [Term(Self) -> Coordinator]
  <2>1. CASE coordinator' = coordinator /\ op # "delete"
    <3>1. \A u \in Term(Self) : Has(Self, u, "delete")' => Has(Self, u, "delete")
      BY <1>4, <2>1, SelfIsShard
    <3> QED BY <1>0, <1>1, <2>1, <3>1, SameCoordinatorsStay DEF TransactionTypeOK
  <2>2. ASSUME s = Self, NEW c \in Coordinator,
               coordinator' = [coordinator EXCEPT ![t] = c], CoordinatorSound(t, c)'
        PROVE  CoordinatorsSound' /\ coordinator' \in [Term(Self) -> Coordinator]
    <3>1. \A u \in Term(Self) : u # t /\ Has(Self, u, "delete")' => Has(Self, u, "delete")
      BY <1>4, SelfIsShard
    <3> QED BY <1>0, <1>1, <1>3, <2>2, <3>1, CoordinatorsStay
  <2> QED BY <2>1, <2>2
<1>7. RequestsSound'
  BY <1>0, <1>1, SameRequestsStay
<1>8. AnswersSound'
  <2>1. Has(Self, 1, "prepare")' => Has(Self, 1, "prepare") \/ txnState[Self][1] = "inProgress"
    BY <1>4, SelfIsShard
  <2> QED BY <1>0, <1>1, <1>2, <1>5, <2>1, AnswersStay
<1>9. TransactionTypeOK'
  BY <1>0, <1>5, <1>6 DEF TransactionTypeOK, Self
<1> QED BY <1>2, <1>5, <1>6, <1>7, <1>8, <1>9 DEF CommitInv

(* Replication keeps the invariant.                                         *)
LEMMA ReplicationInv ==
  ASSUME CommitInv, NEW s \in Shard, Replication(s)
  PROVE  CommitInv'
<1>0. /\ LogInv /\ TransactionTypeOK /\ EntriesJustified /\ DocumentOrder /\ StatesLogged
      /\ CoordinatorsSound /\ RequestsSound /\ AnswersSound
  BY DEF CommitInv
<1>1. JustifiedStep /\ ShardStep /\ UNCHANGED <<txnState, coordinator, requests, answers>>
  BY DEF Replication, coordinatorVars, JustifiedStep, ShardStep
<1>2. LogInv' /\ EntriesJustified' /\ DocumentOrder'
  BY <1>0, <1>1, ShardStepInv, EntriesStay, DocumentOrderStays
<1>3. log' = log /\ primaries' = primaries
  BY DEF Replication, Replicate
<1>4. \A r \in Shard : \A t \in Term(r) : \A op : Has(r, t, op)' => Has(r, t, op)
  BY <1>3, NothingAdded
<1>5. StatesLogged'
  BY <1>0, <1>1, <1>3, <1>4, SameStatesStay
<1>6. CoordinatorsSound'
  BY <1>0, <1>1, <1>4, SelfIsShard, SameCoordinatorsStay
<1>7. RequestsSound'
  BY <1>0, <1>1, SameRequestsStay
<1>8. AnswersSound'
  BY <1>0, <1>1, <1>2, <1>4, AnswersStay, SelfIsShard
<1>9. TransactionTypeOK'
  BY <1>0, <1>1 DEF TransactionTypeOK, Self
<1> QED BY <1>2, <1>5, <1>6, <1>7, <1>8, <1>9 DEF CommitInv

(* A coordinator that is not there is sound.                                *)
LEMMA NoCoordinatorSound ==
  /\ NoCoordinator \in Coordinator
  /\ \A t : CoordinatorSound(t, NoCoordinator)
BY DEF NoCoordinator, Coordinator, Step, CoordinatorSound, Running

(* The step down of a deposed primary keeps the invariant: its coordinator  *)
(* and its transaction are gone.                                            *)
LEMMA StepDownInv ==
  ASSUME CommitInv, NEW s \in Shard, NEW t \in Term(s), StepDown(s, t)
  PROVE  CommitInv'
<1>0. /\ LogInv /\ TransactionTypeOK /\ EntriesJustified /\ DocumentOrder /\ StatesLogged
      /\ CoordinatorsSound /\ RequestsSound /\ AnswersSound
  BY DEF CommitInv
<1>1. JustifiedStep /\ ShardStep /\ UNCHANGED <<requests, answers>>
  BY DEF StepDown, JustifiedStep, ShardStep
<1>2. LogInv' /\ EntriesJustified' /\ DocumentOrder'
  BY <1>0, <1>1, ShardStepInv, EntriesStay, DocumentOrderStays
<1>3. log' = log /\ primaries' = [primaries EXCEPT ![s] = @ \ {t}] /\ DOMAIN primaries = Shard
  BY <1>0 DEF StepDown, StopPrimary, LogInv, ShardsTypeOK
<1>4. \A r \in Shard : \A u \in Term(r) : \A op : Has(r, u, op)' => Has(r, u, op)
  BY <1>3, NothingAdded
<1>5. /\ "none" \in TransactionState /\ Becomes(s, t, "none")
      /\ t \notin primaries'[s]
      /\ \A r \in Shard : \A u \in Term(r) : u \in primaries'[r] => u \in primaries[r]
  BY <1>3 DEF StepDown, TransactionState
<1>6. StatesLogged'
  <2>1. StateLogged(s, t, "none")'
    BY <1>5 DEF StateLogged
  <2> QED BY <1>0, <1>1, <1>4, <1>5, <2>1, StatesStay
<1>7. CoordinatorsSound' /\ coordinator' \in [Term(Self) -> Coordinator]
  <2>1. CASE s = Self
    <3>1. coordinator' = [coordinator EXCEPT ![t] = NoCoordinator]
      BY <2>1 DEF StepDown
    <3>2. CoordinatorSound(t, NoCoordinator)'
      BY DEF NoCoordinator, CoordinatorSound, Running
    <3> QED BY <1>0, <1>1, <1>4, <2>1, <3>1, <3>2, NoCoordinatorSound, CoordinatorsStay
  <2>2. CASE s # Self
    <3>1. coordinator' = coordinator
      BY <2>2 DEF StepDown
    <3> QED BY <1>0, <1>1, <1>4, <3>1, SelfIsShard, SameCoordinatorsStay DEF TransactionTypeOK
  <2> QED BY <2>1, <2>2
<1>8. RequestsSound'
  BY <1>0, <1>1, SameRequestsStay
<1>9. /\ DOMAIN txnState' = Shard
      /\ \A r \in Shard : txnState'[r] \in [Term(r) -> TransactionState]
      /\ txnState'[Self][1] = "inProgress" => txnState[Self][1] = "inProgress"
  BY <1>0, <1>5, BecomesEffect, SelfIsShard
<1>10. AnswersSound'
  <2>1. Has(Self, 1, "prepare")' => Has(Self, 1, "prepare")
    BY <1>4, SelfIsShard
  <2> QED BY <1>0, <1>1, <1>2, <1>9, <2>1, AnswersStay
<1>11. TransactionTypeOK'
  BY <1>0, <1>1, <1>7, <1>9 DEF TransactionTypeOK, Self
<1> QED BY <1>2, <1>6, <1>7, <1>8, <1>10, <1>11 DEF CommitInv

(* A failover keeps the invariant: the state of the transaction comes from  *)
(* the history the new primary starts from, and its coordinator waits to    *)
(* recover.                                                                 *)
LEMMA FailoverInv ==
  ASSUME CommitInv, NEW s \in Shard, Failover(s)
  PROVE  CommitInv'
<1>0. /\ LogInv /\ TransactionTypeOK /\ EntriesJustified /\ DocumentOrder /\ StatesLogged
      /\ CoordinatorsSound /\ RequestsSound /\ AnswersSound
  BY DEF CommitInv
<1>1. PICK h \in ElectableLogs(s) :
        /\ NewPrimary(s, h)
        /\ Becomes(s, term[s] + 1, RefreshedState({h[i].op : i \in DOMAIN h}))
        /\ coordinator' = IF s = Self THEN [coordinator EXCEPT ![term[s] + 1].step = "recovering"]
                                      ELSE coordinator
        /\ UNCHANGED <<requests, answers>>
  BY DEF Failover
<1>2. JustifiedStep /\ ShardStep
  BY <1>1 DEF JustifiedStep, ShardStep, Elects
<1>3. LogInv' /\ EntriesJustified' /\ DocumentOrder'
  BY <1>0, <1>2, ShardStepInv, EntriesStay, DocumentOrderStays
<1>4. PICK n \in Term(s) : n = term[s] + 1
  BY <1>0, <1>1, ElectsEffect
<1>5. term[s] \in Nat /\ term[s] > 0 /\ n \in Nat /\ n > 1
  BY <1>0, <1>4, ShardBasics
<1>6. \A r \in Shard : \A u \in Term(r) : \A op :
        r # s \/ u # n => (Has(r, u, op)' => Has(r, u, op))
  BY <1>0, <1>1, <1>4, ElectionAdds
<1>7. /\ h \in Seq(OplogEntry) /\ Len(log'[s][n]) = Len(h) + 1
      /\ \A i \in 1 .. Len(h) : log'[s][n][i] = h[i]
      /\ log'[s][n][Len(h) + 1] = [term |-> n, op |-> "newPrimary", ts |-> 0]
  BY <1>0, <1>1, <1>4, ElectsEffect
<1> DEFINE ops == {h[i].op : i \in DOMAIN h}
<1>8. \A op : op # "newPrimary" => (op \in ops <=> Has(s, n, op)')
  <2>1. Len(h) \in Nat /\ DOMAIN h = 1 .. Len(h)
    BY <1>7
  <2>2. LastIndex(s, n)' = Len(h) + 1
    BY <1>7 DEF LastIndex
  <2>3. ASSUME NEW op, op # "newPrimary", op \in ops
        PROVE  Has(s, n, op)'
    <3>1. PICK i \in 1 .. Len(h) : h[i].op = op
      BY <2>1, <2>3
    <3>2. i \in 1 .. LastIndex(s, n)' /\ log'[s][n][i].op = op
      BY <1>7, <2>1, <2>2, <3>1
    <3> QED BY <3>2 DEF Has
  <2>4. ASSUME NEW op, op # "newPrimary", Has(s, n, op)'
        PROVE  op \in ops
    <3>1. PICK i \in 1 .. LastIndex(s, n)' : log'[s][n][i].op = op
      BY <2>4 DEF Has
    <3>2. CASE i = Len(h) + 1
      BY <1>7, <2>4, <3>1, <3>2
    <3>3. CASE i \in 1 .. Len(h)
      BY <1>7, <2>1, <3>1, <3>3
    <3> QED BY <2>1, <2>2, <3>2, <3>3
  <2> HIDE DEF ops
  <2> QED BY <2>3, <2>4
<1> DEFINE x == RefreshedState(ops)
<1>9. /\ x \in TransactionState \ {"inProgress"}
      /\ x = "prepared" => "prepare" \in ops
      /\ x = "committed" => "commit" \in ops
      /\ x = "aborted" => "abort" \in ops
      /\ x = "none" => "prepare" \notin ops
  <2> HIDE DEF ops
  <2> QED BY DEF RefreshedState, TransactionState
<1>10. Becomes(s, n, x)
  BY <1>1, <1>4
<1> HIDE DEF x, ops
<1>11. PICK state \in TransactionState \ {"inProgress"} : state = x
  BY <1>9
<1>12. StateLogged(s, n, state)'
  BY <1>5, <1>8, <1>9, <1>11 DEF StateLogged
<1>13. Becomes(s, n, state)
  BY <1>10, <1>11 DEF Becomes
<1>14. \A r \in Shard : \A u \in Term(r) : r # s \/ u # n => (u \in primaries'[r] => u \in primaries[r])
  BY <1>0, <1>1, <1>4 DEF NewPrimary, LogInv, ShardsTypeOK
<1>15. StatesLogged'
  BY <1>0, <1>2, <1>6, <1>12, <1>13, <1>14, StatesStay
<1>16. /\ DOMAIN txnState' = Shard
       /\ \A r \in Shard : txnState'[r] \in [Term(r) -> TransactionState]
       /\ txnState'[Self][1] = "inProgress" => txnState[Self][1] = "inProgress"
  BY <1>0, <1>11, <1>13, BecomesEffect, SelfIsShard
<1>17. CoordinatorsSound' /\ coordinator' \in [Term(Self) -> Coordinator]
  <2>1. CASE s # Self
    <3>1. coordinator' = coordinator
      BY <1>1, <2>1
    <3>2. \A u \in Term(Self) : Has(Self, u, "delete")' => Has(Self, u, "delete")
      BY <1>6, <2>1, SelfIsShard
    <3> QED BY <1>0, <1>2, <3>1, <3>2, SameCoordinatorsStay DEF TransactionTypeOK
  <2>2. CASE s = Self
    <3> DEFINE c == [NoCoordinator EXCEPT !.step = "recovering"]
    <3>1. coordinator[n] = NoCoordinator
      BY <1>0, <1>4, <1>5, <2>2 DEF CoordinatorsSound, CoordinatorSound
    <3>2. coordinator' = [coordinator EXCEPT ![n] = c]
      BY <1>1, <1>4, <2>2, <3>1
    <3>3. c \in Coordinator
      BY DEF NoCoordinator, Coordinator, Step
    <3>4. term'[Self] = n
      BY <1>0, <1>1, <1>4, <2>2 DEF NewPrimary, LogInv, ShardsTypeOK
    <3>5. CoordinatorSound(n, c)'
      BY <1>5, <3>4 DEF NoCoordinator, CoordinatorSound, Running, Self
    <3>6. \A u \in Term(Self) : u # n /\ Has(Self, u, "delete")' => Has(Self, u, "delete")
      BY <1>6, SelfIsShard
    <3> HIDE DEF c
    <3> QED BY <1>0, <1>2, <2>2, <3>2, <3>3, <3>5, <3>6, CoordinatorsStay
  <2> QED BY <2>1, <2>2
<1>18. RequestsSound'
  BY <1>0, <1>1, <1>2, SameRequestsStay
<1>19. AnswersSound'
  <2>1. Has(Self, 1, "prepare")' => Has(Self, 1, "prepare")
    BY <1>5, <1>6, SelfIsShard
  <2> QED BY <1>0, <1>1, <1>2, <1>3, <1>16, <2>1, AnswersStay
<1>20. TransactionTypeOK'
  BY <1>0, <1>1, <1>16, <1>17 DEF TransactionTypeOK, Self
<1> QED BY <1>3, <1>15, <1>17, <1>18, <1>19, <1>20 DEF CommitInv

--------------------
(* The coordinator of a primary is typed and sound.                         *)
LEMMA PrimaryCoordinator ==
  ASSUME CommitInv, NEW t \in primaries[Self]
  PROVE  /\ t \in Term(Self) /\ t \in Nat /\ term[Self] \in Nat /\ t <= term[Self]
         /\ coordinator[t] \in Coordinator /\ CoordinatorSound(t, coordinator[t])
         /\ coordinator \in [Term(Self) -> Coordinator]
<1>1. /\ Self \in Shard /\ term[Self] \in Nat /\ primaries[Self] \subseteq Term(Self)
      /\ primaries[Self] \subseteq 1 .. term[Self] /\ Term(Self) \subseteq Nat
  BY SelfIsShard, ShardBasics DEF CommitInv, LogInv, ShardsTypeOK
<1>2. coordinator \in [Term(Self) -> Coordinator]
  BY DEF CommitInv, TransactionTypeOK
<1> QED BY <1>1, <1>2 DEF CommitInv, CoordinatorsSound

(* A step that answers nobody has nothing to show about answers.            *)
LEMMA AnswersKept ==
  ASSUME CommitInv, answers' = answers
  PROVE  /\ answers' \subseteq Answer
         /\ \A a \in answers' : a \in answers \/ AnswerSound(a)
BY DEF CommitInv, TransactionTypeOK

(* A step that only changes one coordinator keeps the invariant when the    *)
(* new one is sound.                                                        *)
LEMMA QuietCoordinator ==
  ASSUME CommitInv, UNCHANGED <<shardVars, txnState, requests, answers>>,
         NEW t \in Term(Self), NEW c \in Coordinator,
         coordinator' = [coordinator EXCEPT ![t] = c], CoordinatorSound(t, c)
  PROVE  CommitInv'
<1>1. QuietStep
  BY AnswersKept DEF QuietStep
<1> QED BY <1>1, QuietInv

(* runCommit keeps the invariant.                                           *)
LEMMA RunCommitInv ==
  ASSUME CommitInv, NEW t \in Term(Self), RunCommit(t), txnState' = txnState
  PROVE  CommitInv'
<1>1. /\ t \in primaries[Self] /\ coordinator[t].step = "kInactive"
      /\ coordinator' = [coordinator EXCEPT ![t].step = "kWritingParticipantList"]
      /\ UNCHANGED <<shardVars, txnState, requests, answers>>
  BY DEF RunCommit, At
<1> DEFINE d == coordinator[t]
           c == [d EXCEPT !.step = "kWritingParticipantList"]
<1>2. d \in Coordinator /\ CoordinatorSound(t, d) /\ t <= term[Self] /\ t \in Nat /\ term[Self] \in Nat
  BY <1>1, PrimaryCoordinator
<1>3. c \in Coordinator
  BY <1>2 DEF Coordinator, Step
<1>4. /\ c.step = "kWritingParticipantList" /\ c.promised = d.promised /\ c.decision = d.decision
      /\ c.commitVotes = d.commitVotes /\ c.ts = d.ts
  BY <1>2 DEF Coordinator
<1>5. coordinator' = [coordinator EXCEPT ![t] = c]
  BY <1>1
<1> HIDE DEF c
<1>6. CoordinatorSound(t, c)
  BY <1>1, <1>2, <1>4 DEF CoordinatorSound, Running
<1> QED BY <1>1, <1>3, <1>5, <1>6, QuietCoordinator

(* cancelIfCommitNotYetStarted keeps the invariant.                         *)
LEMMA CancelInv ==
  ASSUME CommitInv, NEW t \in Term(Self), CancelIfCommitNotYetStarted(t), txnState' = txnState
  PROVE  CommitInv'
BY NoCoordinatorSound, QuietCoordinator DEF CancelIfCommitNotYetStarted

(* The deadline keeps the invariant.                                        *)
LEMMA DeadlineInv ==
  ASSUME CommitInv, NEW t \in Term(Self), ReachDeadline(t), txnState' = txnState
  PROVE  CommitInv'
<1>1. /\ t \in primaries[Self]
      /\ coordinator[t].step \in {"kInactive", "kWritingParticipantList", "kWaitingForVotes"}
      /\ coordinator' = [coordinator EXCEPT ![t] =
           IF coordinator[t].step = "kInactive" THEN NoCoordinator
                                                ELSE [coordinator[t] EXCEPT !.stopped = TRUE]]
      /\ UNCHANGED <<shardVars, txnState, requests, answers>>
  BY DEF ReachDeadline
<1>2. CASE coordinator[t].step = "kInactive"
  BY <1>1, <1>2, NoCoordinatorSound, QuietCoordinator
<1>3. CASE coordinator[t].step # "kInactive"
  <2> DEFINE d == coordinator[t]
             c == [d EXCEPT !.stopped = TRUE]
  <2>1. d \in Coordinator /\ CoordinatorSound(t, d) /\ t <= term[Self] /\ t \in Nat /\ term[Self] \in Nat
    BY <1>1, PrimaryCoordinator
  <2>2. c \in Coordinator
    BY <2>1 DEF Coordinator
  <2>3. /\ c.step = d.step /\ c.promised = d.promised /\ c.decision = d.decision
        /\ c.commitVotes = d.commitVotes /\ c.ts = d.ts
    BY <2>1 DEF Coordinator
  <2>4. coordinator' = [coordinator EXCEPT ![t] = c]
    BY <1>1, <1>3
  <2> HIDE DEF c
  <2>5. CoordinatorSound(t, c)
    BY <1>1, <2>1, <2>3 DEF CoordinatorSound, Running
  <2> QED BY <1>1, <2>2, <2>4, <2>5, QuietCoordinator
<1> QED BY <1>2, <1>3

(* The decision from the votes keeps the invariant: to commit, all shards   *)
(* have voted for it, and the timestamp is not below any of theirs.         *)
LEMMA DecideVotesInv ==
  ASSUME CommitInv, NEW t \in Term(Self), DecideVotes(t), txnState' = txnState
  PROVE  CommitInv'
<1> DEFINE d == coordinator[t]
           commit == d.commitVotes = Shard
           c == [NoCoordinator EXCEPT !.step = "kWritingDecision",
                   !.decision = IF commit THEN "commit" ELSE "abort",
                   !.ts = IF commit THEN d.ts ELSE 0]
<1>1. /\ t \in primaries[Self] /\ d.step = "kWaitingForVotes"
      /\ coordinator' = [coordinator EXCEPT ![t] = c]
      /\ UNCHANGED <<shardVars, txnState, requests, answers>>
  BY DEF DecideVotes, At
<1>2. d \in Coordinator /\ CoordinatorSound(t, d) /\ t <= term[Self] /\ t \in Nat /\ term[Self] \in Nat
  BY <1>1, PrimaryCoordinator
<1>3. /\ c.step = "kWritingDecision" /\ ~c.promised /\ c.commitVotes = {} /\ c.opTime = 0
      /\ c.decision = (IF commit THEN "commit" ELSE "abort") /\ c.ts = (IF commit THEN d.ts ELSE 0)
  BY DEF NoCoordinator
<1>4. c \in Coordinator
  <2>1. d.ts \in Nat
    BY <1>2 DEF Coordinator
  <2> QED BY <2>1 DEF Coordinator, NoCoordinator, Step
<1>5. commit => CanCommitAt(d.ts)
  BY <1>2 DEF CoordinatorSound, CanCommitAt
<1>6. ~Has(Self, t, "delete")
  BY <1>1, <1>2 DEF CoordinatorSound, Running
<1> HIDE DEF c
<1>7. c.decision = "commit" => CanCommitAt(c.ts)
  <2>1. CASE commit
    BY <1>3, <1>5, <2>1
  <2>2. CASE ~commit
    BY <1>3, <2>2
  <2> QED BY <2>1, <2>2
<1>8. c.decision # "none"
  BY <1>3
<1>9. CoordinatorSound(t, c)
  BY <1>2, <1>3, <1>6, <1>7, <1>8 DEF CoordinatorSound, Running
<1> QED BY <1>1, <1>4, <1>9, QuietCoordinator

(* The recovery of a coordinator from its document keeps the invariant: the *)
(* document of a durable decision to commit has all votes.                  *)
LEMMA OnStepUpInv ==
  ASSUME CommitInv, NEW t \in Term(Self), OnStepUp(t), txnState' = txnState
  PROVE  CommitInv'
<1> DEFINE c == ContinueCommit(Document(t))
<1>1. /\ t \in primaries[Self]
      /\ coordinator' = [coordinator EXCEPT ![t] = c]
      /\ UNCHANGED <<shardVars, txnState, requests, answers>>
  BY DEF OnStepUp, At
<1>2. t <= term[Self] /\ t \in Nat /\ term[Self] \in Nat
  BY <1>1, PrimaryCoordinator
<1>3. LogInv /\ DocumentOrder /\ EntriesJustified
  BY DEF CommitInv
<1>4. CASE Document(t).op = "none"
  <2>1. c = NoCoordinator
    BY <1>4 DEF ContinueCommit
  <2> QED BY <1>1, <2>1, NoCoordinatorSound, QuietCoordinator
<1>5. CASE Document(t).op # "none"
  <2>1. /\ Document(t).op \in Decisions \cup {"participants"} /\ Document(t).ts \in Nat
        /\ ~Has(Self, t, "delete")
        /\ Decided(t, Document(t).op, Document(t).ts, LastIndex(Self, t))
    BY <1>3, <1>5, LiveDocument
  <2>2. CASE Document(t).op = "participants"
    <3>1. c = [NoCoordinator EXCEPT !.step = "kWritingParticipantList"]
      BY <2>2 DEF ContinueCommit
    <3> HIDE DEF c
    <3>2. c \in Coordinator
      BY <3>1 DEF Coordinator, NoCoordinator, Step
    <3>3. CoordinatorSound(t, c)
      BY <1>2, <2>1, <3>1 DEF CoordinatorSound, NoCoordinator, Running
    <3> QED BY <1>1, <3>2, <3>3, QuietCoordinator
  <2>3. CASE Document(t).op \in Decisions
    <3>1. c = [NoCoordinator EXCEPT !.step = "kWritingDecision", !.ts = Document(t).ts,
                 !.decision = IF Document(t).op = "decideCommit" THEN "commit" ELSE "abort"]
      BY <2>3 DEF ContinueCommit, Decisions
    <3> HIDE DEF c
    <3>2. c \in Coordinator
      BY <2>1, <3>1 DEF Coordinator, NoCoordinator, Step
    <3>3. /\ c.step = "kWritingDecision" /\ ~c.promised /\ c.commitVotes = {} /\ c.opTime = 0
          /\ c.decision = (IF Document(t).op = "decideCommit" THEN "commit" ELSE "abort")
          /\ c.ts = Document(t).ts
      BY <3>1 DEF NoCoordinator
    <3>4. Document(t).op = "decideCommit" => CanCommitAt(Document(t).ts)
      <4>1. PICK i \in 1 .. LastIndex(Self, t) :
              log[Self][t][i].op = Document(t).op /\ log[Self][t][i].ts = Document(t).ts
        BY <2>1 DEF Decided
      <4> QED BY <1>3, <4>1, SelfIsShard DEF EntriesJustified, EntryJustified
    <3>5. c.decision # "none" /\ (c.decision = "commit" => CanCommitAt(c.ts))
      BY <3>3, <3>4
    <3>6. CoordinatorSound(t, c)
      BY <1>2, <2>1, <3>3, <3>5 DEF CoordinatorSound, Running
    <3> QED BY <1>1, <3>2, <3>6, QuietCoordinator
  <2> QED BY <2>1, <2>2, <2>3
<1> QED BY <1>4, <1>5

(* A coordinator that changes and sends a command keeps the invariant when  *)
(* both are sound.                                                          *)
LEMMA SendInv ==
  ASSUME CommitInv, UNCHANGED <<shardVars, txnState, answers>>,
         NEW t \in Term(Self), NEW c \in Coordinator,
         coordinator' = [coordinator EXCEPT ![t] = c], CoordinatorSound(t, c),
         NEW r \in Request, requests' = requests \cup {r}, RequestSound(r)
  PROVE  CommitInv'
<1>1. QuietStep
  BY AnswersKept DEF QuietStep
<1> QED BY <1>1, QuietInv

(* sendPrepare keeps the invariant.                                         *)
LEMMA SendPrepareInv ==
  ASSUME CommitInv, NEW t \in Term(Self), SendPrepare(t), txnState' = txnState
  PROVE  CommitInv'
<1> DEFINE d == coordinator[t]
           c == [d EXCEPT !.step = "kWaitingForVotes", !.opTime = 0]
           r == [op |-> "prepare", epoch |-> t, ts |-> 0]
<1>1. /\ t \in primaries[Self] /\ d.step = "kWritingParticipantList"
      /\ coordinator' = [coordinator EXCEPT ![t].step = "kWaitingForVotes", ![t].opTime = 0]
      /\ UNCHANGED <<shardVars, txnState, answers>>
      /\ requests' = requests \/ requests' = requests \cup {r}
  BY DEF SendPrepare, At, Send
<1>2. d \in Coordinator /\ CoordinatorSound(t, d) /\ t <= term[Self] /\ t \in Nat /\ term[Self] \in Nat
      /\ coordinator \in [Term(Self) -> Coordinator]
  BY <1>1, PrimaryCoordinator
<1>3. c \in Coordinator
  BY <1>2 DEF Coordinator, Step
<1>4. /\ c.step = "kWaitingForVotes" /\ c.promised = d.promised /\ c.decision = d.decision
      /\ c.commitVotes = d.commitVotes /\ c.ts = d.ts
  BY <1>2 DEF Coordinator
<1>5. coordinator' = [coordinator EXCEPT ![t] = c]
  BY <1>1, <1>2
<1>6. r \in Request /\ RequestSound(r)
  BY DEF Request, RequestSound
<1> HIDE DEF c, r
<1>7. CoordinatorSound(t, c)
  BY <1>1, <1>2, <1>4 DEF CoordinatorSound, Running
<1>8. CASE requests' = requests
  BY <1>1, <1>3, <1>5, <1>7, <1>8, QuietCoordinator
<1>9. CASE requests' = requests \cup {r}
  BY <1>1, <1>3, <1>5, <1>6, <1>7, <1>9, SendInv
<1> QED BY <1>1, <1>8, <1>9

(* A decision in the durable part of the oplog of a primary is the durable  *)
(* one.                                                                     *)
LEMMA DurableDecided ==
  ASSUME LogInv, NEW t \in Term(Self), NEW last \in 1 .. LastIndex(Self, t),
         Durable(Self, t, last), NEW op, NEW ts, Decided(t, op, ts, last)
  PROVE  Decided(term[Self], op, ts, commitIndex[Self]) /\ op \in DurableOps(Self)
<1>1. PICK i \in 1 .. last : log[Self][t][i].op = op /\ log[Self][t][i].ts = ts
  BY DEF Decided
<1>2. last <= commitIndex[Self] /\ \A j \in 1 .. last : log[Self][t][j] = log[Self][term[Self]][j]
  BY SelfIsShard, DurablePrefix
<1>3. commitIndex[Self] \in Nat /\ LastIndex(Self, t) \in Nat
  BY SelfIsShard, ShardBasics
<1>4. i \in 1 .. commitIndex[Self] /\ log[Self][t][i] = log[Self][term[Self]][i]
  BY <1>2, <1>3
<1> QED BY <1>1, <1>4 DEF Decided, DurableOps

(* sendCommit and sendAbort keep the invariant: the decision they send is   *)
(* durable.                                                                 *)
LEMMA SendDecisionInv ==
  ASSUME CommitInv, NEW t \in Term(Self), SendDecision(t), txnState' = txnState
  PROVE  CommitInv'
<1> DEFINE d == coordinator[t]
           c == [d EXCEPT !.step = "kWaitingForDecisionAcks", !.opTime = 0]
           r == [op |-> d.decision, epoch |-> t, ts |-> d.ts]
<1>1. /\ t \in primaries[Self] /\ d.step = "kWritingDecision"
      /\ d.opTime > 0 /\ Durable(Self, t, d.opTime)
      /\ coordinator' = [coordinator EXCEPT ![t].step = "kWaitingForDecisionAcks", ![t].opTime = 0]
      /\ UNCHANGED <<shardVars, txnState, answers>>
      /\ requests' = requests \cup {r}
  BY DEF SendDecision, At, Send
<1>2. d \in Coordinator /\ CoordinatorSound(t, d) /\ t <= term[Self] /\ t \in Nat /\ term[Self] \in Nat
      /\ coordinator \in [Term(Self) -> Coordinator] /\ LogInv
  BY <1>1, PrimaryCoordinator DEF CommitInv
<1>3. c \in Coordinator
  BY <1>2 DEF Coordinator, Step
<1>4. /\ c.step = "kWaitingForDecisionAcks" /\ c.promised = d.promised /\ c.decision = d.decision
      /\ c.commitVotes = d.commitVotes /\ c.ts = d.ts
  BY <1>2 DEF Coordinator
<1>5. coordinator' = [coordinator EXCEPT ![t] = c]
  BY <1>1, <1>2
<1>6. d.decision \in {"commit", "abort"} /\ d.opTime <= LastIndex(Self, t)
      /\ Decided(t, DecisionOp(d.decision), d.ts, d.opTime)
  BY <1>1, <1>2 DEF CoordinatorSound, Coordinator
<1>7. LastIndex(Self, t) \in Nat /\ d.opTime \in Nat /\ d.ts \in Nat
  BY <1>2, SelfIsShard, ShardBasics DEF Coordinator
<1>8. d.opTime \in 1 .. LastIndex(Self, t)
  BY <1>1, <1>6, <1>7
<1>9. /\ Decided(term[Self], DecisionOp(d.decision), d.ts, commitIndex[Self])
      /\ DecisionOp(d.decision) \in DurableOps(Self)
  BY <1>1, <1>2, <1>6, <1>8, DurableDecided
<1>10. r \in Request
  BY <1>6, <1>7 DEF Request
<1>11. RequestSound(r)
  BY <1>9 DEF RequestSound, DurablyCommits, DurablyAborts, DecisionOp
<1> HIDE DEF c, r
<1>12. Has(Self, t, DecisionOp(d.decision)) /\ d.decision # "none"
  <2>1. PICK i \in 1 .. d.opTime : log[Self][t][i].op = DecisionOp(d.decision)
    BY <1>6 DEF Decided
  <2>2. i \in 1 .. LastIndex(Self, t)
    BY <1>6, <1>7
  <2> QED BY <1>6, <2>1, <2>2 DEF Has
<1>13. CoordinatorSound(t, c)
  BY <1>1, <1>2, <1>4, <1>12 DEF CoordinatorSound, Running
<1> QED BY <1>1, <1>3, <1>5, <1>10, <1>11, <1>13, SendInv

--------------------
(* persistParticipantsList keeps the invariant.                             *)
LEMMA PersistParticipantsListInv ==
  ASSUME CommitInv, NEW t \in Term(Self), PersistParticipantsList(t), txnState' = txnState
  PROVE  CommitInv'
<1> DEFINE d == coordinator[t]
           c == [d EXCEPT !.opTime = Len(log'[Self][t])]
<1>1. /\ t \in primaries[Self] /\ d.step = "kWritingParticipantList"
      /\ log' = IF Document(t).op = "none" THEN Appended(Self, t, "participants", 0) ELSE log
      /\ coordinator' = [coordinator EXCEPT ![t].opTime = Len(log'[Self][t])]
      /\ UNCHANGED <<term, primaries, commitIndex, txnState, requests, answers>>
  BY DEF PersistParticipantsList, At
<1>2. d \in Coordinator /\ CoordinatorSound(t, d) /\ t <= term[Self] /\ t \in Nat /\ term[Self] \in Nat
      /\ coordinator \in [Term(Self) -> Coordinator] /\ LogInv
  BY <1>1, PrimaryCoordinator DEF CommitInv
<1>3. coordinator' = [coordinator EXCEPT ![t] = c]
  BY <1>1, <1>2
<1>4. ~Has(Self, t, "delete")
  BY <1>1, <1>2 DEF CoordinatorSound, Running
<1>5. /\ c.step = d.step /\ c.promised = d.promised /\ c.decision = d.decision
      /\ c.commitVotes = d.commitVotes /\ c.ts = d.ts
  BY <1>2 DEF Coordinator
<1>6. Len(log'[Self][t]) \in Nat => c \in Coordinator
  BY <1>2 DEF Coordinator
<1> HIDE DEF c
<1>7. CASE Document(t).op # "none"
  <2>1. log' = log /\ UNCHANGED shardVars
    BY <1>1, <1>7 DEF shardVars
  <2>2. c \in Coordinator
    BY <1>2, <1>6, <2>1, SelfIsShard, ShardBasics DEF LastIndex
  <2>3. CoordinatorSound(t, c)
    BY <1>1, <1>2, <1>5 DEF CoordinatorSound, Running
  <2> QED BY <1>1, <1>3, <2>1, <2>2, <2>3, QuietCoordinator
<1>8. CASE Document(t).op = "none"
  <2>1. Writes(Self, t, "participants", 0)
    BY <1>1, <1>8 DEF Writes
  <2>2. "participants" \in OplogOps
    BY DEF OplogOps, DocumentOps
  <2>3. \A op \in DocumentOps : ~Has(Self, t, op)
    BY <1>2, <1>4, <1>8, NoDocument
  <2>4. MayWrite(Self, t, "participants", 0)
    BY <2>3 DEF MayWrite, MayWriteDocument, EntryJustified, DocumentOps
  <2>5. ShardStep
    BY <1>1, <2>1, <2>2, <2>4, SelfIsShard, WriteIsStep, JustifiedIsStep
  <2>6. c \in Coordinator
    <3>1. log'[Self] \in [Term(Self) -> Seq(OplogEntry)]
      BY <1>1, <1>2, <2>1, <2>2, SelfIsShard, WriteEffect
    <3> QED BY <1>6, <3>1
  <2>7. ~Has(Self, t, "delete")'
    BY <1>1, <1>2, <1>4, <2>1, <2>2, SelfIsShard, WriteAdds
  <2>8. PICK e \in Coordinator : e = c
    BY <2>6
  <2>9. CoordinatorSound(t, e)
    BY <1>1, <1>2, <1>5, <2>8 DEF CoordinatorSound, Running
  <2>10. CoordinatorSound(t, e)'
    BY <1>2, <2>5, <2>7, <2>9, CoordinatorStays
  <2>11. coordinator' = [coordinator EXCEPT ![t] = e]
    BY <1>3, <2>8
  <2> QED BY <1>1, <2>1, <2>2, <2>4, <2>10, <2>11, SelfIsShard, WriteInv
<1> QED BY <1>7, <1>8

(* The interrupt of persistParticipantsList keeps the invariant, whether    *)
(* the write took effect or not.                                            *)
LEMMA AbandonParticipantsListInv ==
  ASSUME CommitInv, NEW t \in Term(Self), AbandonParticipantsList(t), txnState' = txnState
  PROVE  CommitInv'
<1> DEFINE d == coordinator[t]
           c == [NoCoordinator EXCEPT !.step = "kWritingDecision", !.decision = "abort"]
<1>1. /\ t \in primaries[Self] /\ d.step = "kWritingParticipantList"
      /\ log' = log \/ (Document(t).op = "none" /\ log' = Appended(Self, t, "participants", 0))
      /\ coordinator' = [coordinator EXCEPT ![t] = c]
      /\ UNCHANGED <<term, primaries, commitIndex, txnState, requests, answers>>
  <2>1. log' \in {log} \cup
          (IF Document(t).op = "none" THEN {Appended(Self, t, "participants", 0)} ELSE {})
    BY DEF AbandonParticipantsList
  <2> QED BY <2>1 DEF AbandonParticipantsList, At
<1>2. CoordinatorSound(t, d) /\ t <= term[Self] /\ t \in Nat /\ term[Self] \in Nat /\ LogInv
  BY <1>1, PrimaryCoordinator DEF CommitInv
<1>3. ~Has(Self, t, "delete")
  BY <1>1, <1>2 DEF CoordinatorSound, Running
<1>4. c \in Coordinator
  BY DEF Coordinator, NoCoordinator, Step
<1>5. CoordinatorSound(t, c)
  BY <1>2, <1>3 DEF CoordinatorSound, Running, NoCoordinator
<1> HIDE DEF c
<1>6. CASE log' = log
  <2>1. UNCHANGED shardVars
    BY <1>1, <1>6 DEF shardVars
  <2> QED BY <1>1, <1>4, <1>5, <2>1, QuietCoordinator
<1>7. CASE Document(t).op = "none" /\ log' = Appended(Self, t, "participants", 0)
  <2>1. Writes(Self, t, "participants", 0)
    BY <1>1, <1>7 DEF Writes
  <2>2. "participants" \in OplogOps
    BY DEF OplogOps, DocumentOps
  <2>3. \A op \in DocumentOps : ~Has(Self, t, op)
    BY <1>2, <1>3, <1>7, NoDocument
  <2>4. MayWrite(Self, t, "participants", 0)
    BY <2>3 DEF MayWrite, MayWriteDocument, EntryJustified, DocumentOps
  <2>5. ShardStep
    BY <1>1, <2>1, <2>2, <2>4, SelfIsShard, WriteIsStep, JustifiedIsStep
  <2>6. ~Has(Self, t, "delete")'
    BY <1>1, <1>2, <1>3, <2>1, <2>2, SelfIsShard, WriteAdds
  <2>7. CoordinatorSound(t, c)'
    BY <1>2, <1>4, <1>5, <2>5, <2>6, CoordinatorStays
  <2> QED BY <1>1, <1>4, <2>1, <2>2, <2>4, <2>7, SelfIsShard, WriteInv
<1> QED BY <1>1, <1>6, <1>7

(* persistDecision keeps the invariant: it writes no second decision, not   *)
(* even after a failover.                                                   *)
LEMMA PersistDecisionInv ==
  ASSUME CommitInv, NEW t \in Term(Self), PersistDecision(t), txnState' = txnState
  PROVE  CommitInv'
<1> DEFINE d == coordinator[t]
           op == DecisionOp(d.decision)
           decided == [op |-> op, ts |-> d.ts]
           c == [d EXCEPT !.opTime = Len(log'[Self][t]), !.promised = TRUE]
<1>1. /\ t \in primaries[Self] /\ d.step = "kWritingDecision"
      /\ Document(t).op \in {"none", "participants"} \/ Document(t) = decided
      /\ log' = IF Document(t) = decided THEN log ELSE Appended(Self, t, decided.op, decided.ts)
      /\ coordinator' = [coordinator EXCEPT ![t].opTime = Len(log'[Self][t]), ![t].promised = TRUE]
      /\ UNCHANGED <<term, primaries, commitIndex, txnState, requests, answers>>
  BY DEF PersistDecision, At
<1>2. d \in Coordinator /\ CoordinatorSound(t, d) /\ t <= term[Self] /\ t \in Nat /\ term[Self] \in Nat
      /\ coordinator \in [Term(Self) -> Coordinator] /\ LogInv /\ DocumentOrder
  BY <1>1, PrimaryCoordinator DEF CommitInv
<1>3. coordinator' = [coordinator EXCEPT ![t] = c]
  BY <1>1, <1>2
<1>4. ~Has(Self, t, "delete") /\ d.decision # "none" /\ (d.decision = "commit" => CanCommitAt(d.ts))
  BY <1>1, <1>2 DEF CoordinatorSound, Running
<1>5. /\ d.decision \in {"commit", "abort"} /\ d.ts \in Nat /\ op \in Decisions
      /\ (op = "decideCommit" => d.decision = "commit")
  BY <1>2, <1>4 DEF Coordinator, DecisionOp, Decisions
<1>6. decided.op = op /\ decided.ts = d.ts
  OBVIOUS
<1>7. /\ c.step = d.step /\ c.promised /\ c.decision = d.decision
      /\ c.commitVotes = d.commitVotes /\ c.ts = d.ts /\ c.opTime = Len(log'[Self][t])
  BY <1>2 DEF Coordinator
<1>8. Len(log'[Self][t]) \in Nat => c \in Coordinator
  BY <1>2 DEF Coordinator
<1> HIDE DEF c
<1>9. PICK o, ts : o = op /\ ts = d.ts
  OBVIOUS
<1>10. ASSUME Document(t) = decided
       PROVE  CommitInv'
  <2>1. log' = log /\ UNCHANGED shardVars
    BY <1>1, <1>10 DEF shardVars
  <2>2. LastIndex(Self, t) \in Nat /\ Len(log'[Self][t]) = LastIndex(Self, t)
    BY <1>2, <2>1, SelfIsShard, ShardBasics DEF LastIndex
  <2>3. Document(t).op # "none" /\ Document(t).op = op /\ Document(t).ts = d.ts
    BY <1>5, <1>6, <1>10 DEF Decisions
  <2>4. Decided(t, op, d.ts, LastIndex(Self, t))
    BY <1>2, <2>3, LiveDocument
  <2>5. Has(Self, t, op)
    BY <2>4 DEF Decided, Has
  <2>6. c \in Coordinator
    BY <1>8, <2>2
  <2>7. c.opTime <= LastIndex(Self, t) /\ Decided(t, op, d.ts, c.opTime)
    BY <1>7, <2>2, <2>4
  <2>8. /\ t > term[Self] => c = NoCoordinator
        /\ \A s \in c.commitVotes : DurablyPrepared(s) /\ c.ts >= PrepareTimestamp[s]
    BY <1>2, <1>7 DEF CoordinatorSound
  <2>9. CoordinatorSound(t, c)
    BY <1>1, <1>4, <1>7, <2>5, <2>7, <2>8 DEF CoordinatorSound
  <2> QED BY <1>1, <1>3, <2>1, <2>6, <2>9, QuietCoordinator
<1>11. ASSUME Document(t) # decided
       PROVE  CommitInv'
  <2>1. Writes(Self, t, o, ts) /\ o \in OplogOps /\ ts \in Nat
    BY <1>1, <1>5, <1>6, <1>9, <1>11 DEF Writes, OplogOps, DocumentOps, Decisions
  <2>2. ~Has(Self, t, "decideCommit") /\ ~Has(Self, t, "decideAbort")
    <3>1. CASE Document(t).op = "none"
      BY <1>2, <1>4, <3>1, NoDocument DEF DocumentOps
    <3>2. CASE Document(t).op = "participants"
      BY <1>2, <3>2, LiveDocument
    <3> QED BY <1>1, <1>11, <3>1, <3>2
  <2>3. MayWrite(Self, t, o, ts)
    <3>1. EntryJustified([term |-> t, op |-> o, ts |-> ts])
      BY <1>4, <1>5, <1>9 DEF EntryJustified, Decisions
    <3> QED BY <1>4, <1>5, <1>9, <2>2, <3>1 DEF MayWrite, MayWriteDocument, Decisions
  <2>4. ShardStep
    BY <1>1, <2>1, <2>3, SelfIsShard, WriteIsStep, JustifiedIsStep
  <2>5. /\ LastIndex(Self, t) \in Nat /\ LastIndex(Self, t)' = LastIndex(Self, t) + 1
        /\ log'[Self][t][LastIndex(Self, t) + 1] = [term |-> t, op |-> o, ts |-> ts]
    BY <1>1, <1>2, <2>1, SelfIsShard, WriteEffect, ShardBasics
  <2>6. /\ LastIndex(Self, t)' \in 1 .. LastIndex(Self, t)'
        /\ log'[Self][t][LastIndex(Self, t)'].op = o /\ log'[Self][t][LastIndex(Self, t)'].ts = ts
    BY <2>5
  <2>7. PICK e \in Coordinator : e = c
    BY <1>8, <2>5 DEF LastIndex, Self
  <2>8. e.opTime = LastIndex(Self, t)' /\ e.promised /\ e.decision = d.decision /\ e.ts = ts
    BY <1>7, <1>9, <2>7 DEF LastIndex, Self
  <2>9. Has(Self, t, o)' /\ Decided(t, o, ts, e.opTime)' /\ e.opTime <= LastIndex(Self, t)'
    BY <2>6, <2>8 DEF Has, Decided, Self
  <2>10. ~Has(Self, t, "delete")'
    BY <1>1, <1>2, <1>4, <1>5, <1>9, <2>1, SelfIsShard, WriteAdds DEF Decisions
  <2>11. CanCommitAt(ts) => CanCommitAt(ts)'
    BY <1>2, <2>4, CanCommitStays
  <2>12. ASSUME NEW s \in e.commitVotes
         PROVE  DurablyPrepared(s)' /\ e.ts >= PrepareTimestamp[s]
    <3>1. s \in d.commitVotes /\ s \in Shard /\ e.ts = d.ts
      BY <1>2, <1>7, <2>7 DEF Coordinator
    <3>2. DurablyPrepared(s) /\ d.ts >= PrepareTimestamp[s]
      BY <1>2, <3>1 DEF CoordinatorSound
    <3> QED BY <1>2, <2>4, <3>1, <3>2, DurableOpStays DEF DurablyPrepared
  <2>13. o = DecisionOp(e.decision) /\ e.decision # "none" /\ (e.decision = "commit" => CanCommitAt(ts)')
    BY <1>4, <1>9, <2>8, <2>11
  <2>14. ~(t > term'[Self])
    BY <1>1, <1>2
  <2>15. CoordinatorSound(t, e)'
    BY <2>8, <2>9, <2>10, <2>12, <2>13, <2>14 DEF CoordinatorSound, Self, DecisionOp
  <2>16. coordinator' = [coordinator EXCEPT ![t] = e]
    BY <1>3, <2>7
  <2>17. o # "prepare"
    BY <1>5, <1>9 DEF Decisions
  <2> QED BY <1>1, <2>1, <2>3, <2>15, <2>16, <2>17, SelfIsShard, WriteInv
<1> QED BY <1>10, <1>11

(* deleteCoordinatorDoc keeps the invariant.                                *)
LEMMA DeleteCoordinatorDocInv ==
  ASSUME CommitInv, NEW t \in Term(Self), DeleteCoordinatorDoc(t), txnState' = txnState
  PROVE  CommitInv'
<1> DEFINE d == coordinator[t]
           c == [NoCoordinator EXCEPT !.decision = d.decision, !.promised = TRUE]
<1>1. /\ t \in primaries[Self] /\ d.step = "kWaitingForDecisionAcks"
      /\ Document(t).op \in {"decideCommit", "decideAbort"}
      /\ Writes(Self, t, "delete", 0)
      /\ coordinator' = [coordinator EXCEPT ![t] = c]
      /\ UNCHANGED <<txnState, requests, answers>>
  BY DEF DeleteCoordinatorDoc, At, Writes
<1>2. /\ d \in Coordinator /\ CoordinatorSound(t, d) /\ t <= term[Self] /\ t \in Nat
      /\ term[Self] \in Nat /\ LogInv
  BY <1>1, PrimaryCoordinator DEF CommitInv
<1>3. d.decision \in {"commit", "abort"} /\ Has(Self, t, DecisionOp(d.decision))
  BY <1>1, <1>2 DEF CoordinatorSound, Coordinator
<1>4. PICK e \in Coordinator : e = c
  BY <1>2 DEF Coordinator, NoCoordinator, Step
<1>5. e.step = "none" /\ e.decision = d.decision /\ e.commitVotes = {}
  BY <1>4 DEF NoCoordinator
<1>6. coordinator' = [coordinator EXCEPT ![t] = e]
  BY <1>1, <1>4
<1>7. "delete" \in OplogOps
  BY DEF OplogOps, DocumentOps
<1>8. MayWrite(Self, t, "delete", 0)
  <2>1. ~Has(Self, t, "delete")
    BY <1>1, <1>2 DEF CoordinatorSound, Running
  <2> QED BY <2>1 DEF MayWrite, MayWriteDocument, EntryJustified, Decisions
<1>9. ShardStep
  BY <1>1, <1>7, <1>8, SelfIsShard, WriteIsStep, JustifiedIsStep
<1>10. Has(Self, t, DecisionOp(e.decision))'
  <2>1. PICK o : o = DecisionOp(d.decision)
    OBVIOUS
  <2>2. Has(Self, t, o)'
    BY <1>2, <1>3, <1>9, <2>1, SelfIsShard, HasStays
  <2> QED BY <1>5, <2>1, <2>2 DEF DecisionOp
<1>11. term' = term /\ ~(t > term'[Self])
  BY <1>1, <1>2 DEF Writes
<1>12. CoordinatorSound(t, e)'
  BY <1>3, <1>5, <1>10, <1>11 DEF CoordinatorSound, Running, Self, DecisionOp
<1> QED BY <1>1, <1>6, <1>7, <1>8, <1>12, SelfIsShard, WriteInv

(* A deletion that fails keeps the invariant: the document stays.           *)
LEMMA DeleteFailsInv ==
  ASSUME CommitInv, NEW t \in Term(Self), DeleteCoordinatorDocFails(t), txnState' = txnState
  PROVE  CommitInv'
<1> DEFINE d == coordinator[t]
           c == [NoCoordinator EXCEPT !.decision = d.decision, !.promised = TRUE]
<1>1. /\ t \in primaries[Self] /\ d.step = "kWaitingForDecisionAcks"
      /\ coordinator' = [coordinator EXCEPT ![t] = c]
      /\ UNCHANGED <<shardVars, txnState, requests, answers>>
  BY DEF DeleteCoordinatorDocFails, At
<1>2. /\ d \in Coordinator /\ CoordinatorSound(t, d) /\ t <= term[Self] /\ t \in Nat
      /\ term[Self] \in Nat
  BY <1>1, PrimaryCoordinator
<1>3. d.decision \in {"commit", "abort"} /\ Has(Self, t, DecisionOp(d.decision))
  BY <1>1, <1>2 DEF CoordinatorSound, Coordinator
<1>4. PICK e \in Coordinator : e = c
  BY <1>2 DEF Coordinator, NoCoordinator, Step
<1>5. e.step = "none" /\ e.decision = d.decision /\ e.commitVotes = {}
  BY <1>4 DEF NoCoordinator
<1>6. coordinator' = [coordinator EXCEPT ![t] = e]
  BY <1>1, <1>4
<1>7. CoordinatorSound(t, e)
  BY <1>2, <1>3, <1>5 DEF CoordinatorSound, Running
<1> QED BY <1>1, <1>6, <1>7, QuietCoordinator

--------------------
(* The responses the coordinator notes down.                                *)
SoundChange ==
  \E t \in Term(Self) : \E c \in Coordinator :
    coordinator' = [coordinator EXCEPT ![t] = c] /\ CoordinatorSound(t, c)

(* A vote to commit is noted down by a coordinator that waits for it, of a  *)
(* shard that is durably prepared.                                          *)
LEMMA CommitVoteSound ==
  ASSUME CommitInv, NEW t \in primaries[Self], coordinator[t].step = "kWaitingForVotes",
         NEW s \in Shard, DurablyPrepared(s), RegisterCommitVote(t, s, PrepareTimestamp[s])
  PROVE  SoundChange
<1> DEFINE d == coordinator[t]
           ts == IF PrepareTimestamp[s] > d.ts THEN PrepareTimestamp[s] ELSE d.ts
           c == [d EXCEPT !.commitVotes = d.commitVotes \cup {s}, !.ts = ts]
<1>1. /\ d \in Coordinator /\ CoordinatorSound(t, d) /\ t \in Term(Self)
      /\ coordinator \in [Term(Self) -> Coordinator]
  BY PrimaryCoordinator
<1>2. PrepareTimestamp \in [Shard -> Nat] /\ d.ts \in Nat /\ d.commitVotes \subseteq Shard
  BY <1>1, ParticipantAssumption DEF Coordinator
<1>3. ts \in Nat /\ ts >= d.ts /\ ts >= PrepareTimestamp[s]
  BY <1>2
<1>4. coordinator' = [coordinator EXCEPT ![t] = c]
  BY <1>1 DEF RegisterCommitVote
<1> HIDE DEF ts
<1>5. c \in Coordinator
  BY <1>1, <1>2, <1>3 DEF Coordinator
<1>6. /\ c.step = d.step /\ c.promised = d.promised /\ c.decision = d.decision
      /\ c.commitVotes = d.commitVotes \cup {s} /\ c.ts = ts
  BY <1>1 DEF Coordinator
<1> HIDE DEF c
<1>7. ASSUME NEW r \in c.commitVotes
      PROVE  DurablyPrepared(r) /\ c.ts >= PrepareTimestamp[r]
  <2>1. CASE r = s
    BY <1>3, <1>6, <2>1
  <2>2. CASE r \in d.commitVotes
    <3>1. DurablyPrepared(r) /\ d.ts >= PrepareTimestamp[r] /\ PrepareTimestamp[r] \in Nat
      BY <1>1, <1>2, <2>2 DEF CoordinatorSound
    <3> QED BY <1>2, <1>3, <1>6, <3>1
  <2> QED BY <1>6, <2>1, <2>2
<1>8. ~(t > term[Self])
  BY PrimaryCoordinator
<1>9. CoordinatorSound(t, c)
  BY <1>1, <1>6, <1>7, <1>8 DEF CoordinatorSound
<1> QED BY <1>1, <1>4, <1>5, <1>9 DEF SoundChange

(* A vote to abort leaves the coordinator sound.                            *)
LEMMA AbortVoteSound ==
  ASSUME CommitInv, NEW t \in primaries[Self], coordinator[t].step = "kWaitingForVotes",
         NEW s \in Shard, RegisterAbortVote(t, s)
  PROVE  SoundChange
<1> DEFINE d == coordinator[t]
           c == [d EXCEPT !.abortVotes = d.abortVotes \cup {s}, !.stopped = TRUE]
<1>1. /\ d \in Coordinator /\ CoordinatorSound(t, d) /\ t \in Term(Self)
      /\ coordinator \in [Term(Self) -> Coordinator] /\ ~(t > term[Self])
  BY PrimaryCoordinator
<1>2. coordinator' = [coordinator EXCEPT ![t] = c]
  BY <1>1 DEF RegisterAbortVote
<1>3. c \in Coordinator
  BY <1>1 DEF Coordinator
<1>4. /\ c.step = d.step /\ c.promised = d.promised /\ c.decision = d.decision
      /\ c.commitVotes = d.commitVotes /\ c.ts = d.ts
  BY <1>1 DEF Coordinator
<1> HIDE DEF c
<1>5. CoordinatorSound(t, c)
  BY <1>1, <1>4 DEF CoordinatorSound
<1> QED BY <1>1, <1>2, <1>3, <1>5 DEF SoundChange

(* An acknowledgement leaves the coordinator sound.                         *)
LEMMA AckSound ==
  ASSUME CommitInv, NEW t \in primaries[Self], coordinator[t].step = "kWaitingForDecisionAcks",
         NEW s \in Shard, RegisterAck(t, s)
  PROVE  SoundChange
<1> DEFINE d == coordinator[t]
           c == [d EXCEPT !.acks = d.acks \cup {s}]
<1>1. /\ d \in Coordinator /\ CoordinatorSound(t, d) /\ t \in Term(Self)
      /\ coordinator \in [Term(Self) -> Coordinator] /\ ~(t > term[Self])
  BY PrimaryCoordinator
<1>2. coordinator' = [coordinator EXCEPT ![t] = c]
  BY <1>1 DEF RegisterAck
<1>3. c \in Coordinator
  BY <1>1 DEF Coordinator
<1>4. /\ c.step = d.step /\ c.promised = d.promised /\ c.decision = d.decision
      /\ c.commitVotes = d.commitVotes /\ c.ts = d.ts
  BY <1>1 DEF Coordinator
<1> HIDE DEF c
<1>5. CoordinatorSound(t, c)
  BY <1>1, <1>4 DEF CoordinatorSound
<1> QED BY <1>1, <1>2, <1>3, <1>5 DEF SoundChange

(* Every response leaves the coordinator sound.                             *)
LEMMA ResponseSound ==
  ASSUME CommitInv, NEW s \in Shard, NEW r,
         VotesAbort(s, r) \/ Acks(s, r) \/ (VotesCommit(s, r) /\ DurablyPrepared(s))
  PROVE  SoundChange
BY CommitVoteSound, AbortVoteSound, AckSound
   DEF VotesAbort, Acks, VotesCommit, AwaitsVote, AwaitsAck, At

--------------------
(* The state of the transaction on a primary fits its oplog.                *)
LEMMA PrimaryParticipant ==
  ASSUME CommitInv, NEW s \in Shard, NEW t \in primaries[s]
  PROVE  /\ t \in Term(s) /\ t \in Nat /\ t > 0 /\ t <= term[s] /\ term[s] \in Nat
         /\ StateLogged(s, t, txnState[s][t]) /\ LastIndex(s, t) \in Nat
<1>1. /\ term[s] \in Nat /\ primaries[s] \subseteq Term(s)
      /\ primaries[s] \subseteq 1 .. term[s]
  BY ShardBasics DEF CommitInv, LogInv, ShardsTypeOK
<1>2. LastIndex(s, t) \in Nat
  BY <1>1, ShardBasics DEF CommitInv
<1> QED BY <1>1, <1>2 DEF CommitInv, StatesLogged

(* A command that writes nothing, with or without its response, keeps the   *)
(* invariant.                                                               *)
LEMMA RespondInv ==
  ASSUME CommitInv, UNCHANGED <<shardVars, txnState, requests, answers>>,
         SoundChange \/ coordinator' = coordinator
  PROVE  CommitInv'
<1>1. QuietStep
  BY AnswersKept DEF QuietStep, SoundChange
<1> QED BY <1>1, QuietInv

(* An unprepared transaction that ends without a trace in the oplog, or a   *)
(* session that goes on, keeps the invariant.                               *)
LEMMA QuitInv ==
  ASSUME CommitInv, NEW s \in Shard, NEW t \in primaries[s],
         UNCHANGED <<shardVars, requests, answers>>,
         SoundChange \/ coordinator' = coordinator,
         \/ txnState[s][t] = "inProgress" /\ Becomes(s, t, "aborted")
         \/ Becomes(s, t, "newer")
  PROVE  CommitInv'
<1>1. t \in Term(s) /\ StateLogged(s, t, txnState[s][t])
  BY PrimaryParticipant
<1>2. CASE txnState[s][t] = "inProgress" /\ Becomes(s, t, "aborted")
  <2>1. StateLogged(s, t, "aborted") /\ "aborted" \in TransactionState \ {"inProgress"}
    BY <1>1, <1>2 DEF StateLogged, TransactionState
  <2>2. QuietStep
    BY <1>1, <1>2, <2>1, AnswersKept DEF QuietStep, SoundChange
  <2> QED BY <2>2, QuietInv
<1>3. CASE Becomes(s, t, "newer")
  <2>1. StateLogged(s, t, "newer") /\ "newer" \in TransactionState \ {"inProgress"}
    BY DEF StateLogged, TransactionState
  <2>2. QuietStep
    BY <1>1, <1>3, <2>1, AnswersKept DEF QuietStep, SoundChange
  <2> QED BY <2>2, QuietInv
<1> QED BY <1>2, <1>3

(* A participant that writes the entry its new state stands for keeps the   *)
(* invariant, if the entry has its reason.                                  *)
LEMMA ParticipantWriteInv ==
  ASSUME CommitInv, NEW s \in Shard, NEW t \in primaries[s],
         NEW op \in {"prepare", "commit", "abort"}, NEW ts \in Nat, NEW state,
         Writes(s, t, op, ts), Becomes(s, t, state),
         EntryJustified([term |-> t, op |-> op, ts |-> ts]),
         \/ op = "prepare" /\ state = "prepared" /\ txnState[s][t] = "inProgress"
         \/ op = "commit" /\ state = "committed"
         \/ op = "abort" /\ state = "aborted",
         UNCHANGED <<coordinator, requests, answers>>
  PROVE  CommitInv'
<1>1. op \in OplogOps /\ op \notin DocumentOps
  BY DEF OplogOps, ParticipantOps, DocumentOps
<1>2. MayWrite(s, t, op, ts)
  BY <1>1 DEF MayWrite
<1>3. t \in Term(s) /\ LastIndex(s, t) \in Nat /\ LogInv
  BY PrimaryParticipant DEF CommitInv
<1>4. LastIndex(s, t)' = LastIndex(s, t) + 1
      /\ log'[s][t][LastIndex(s, t) + 1] = [term |-> t, op |-> op, ts |-> ts]
  BY <1>1, <1>3, WriteEffect
<1>5. Has(s, t, op)'
  <2>1. LastIndex(s, t) + 1 \in 1 .. LastIndex(s, t)' /\ log'[s][t][LastIndex(s, t) + 1].op = op
    BY <1>3, <1>4
  <2> QED BY <2>1 DEF Has
<1>6. StateLogged(s, t, state)' /\ state \in TransactionState \ {"inProgress"}
  BY <1>5 DEF StateLogged, TransactionState
<1>7. op # "delete"
  OBVIOUS
<1> QED BY <1>1, <1>2, <1>6, <1>7, WriteInv

--------------------
(* The entry a command waits for is durable when the wait is over.          *)
LEMMA AwaitedIsDurable ==
  ASSUME CommitInv, NEW s \in Shard, NEW t \in primaries[s], NEW op,
         Has(s, t, op), Durable(s, t, AwaitedIndex(s, t, op))
  PROVE  op \in DurableOps(s)
<1> DEFINE own == {i \in Indices(s, t, {op}) : log[s][t][i].term = t}
           n == AwaitedIndex(s, t, op)
<1>1. /\ t \in Term(s) /\ LastIndex(s, t) \in Nat /\ LogInv
      /\ Durable(s, t, n) /\ Has(s, t, op)
  BY PrimaryParticipant DEF CommitInv
<1>2. n \in 1 .. LastIndex(s, t) /\ \E i \in 1 .. n : log[s][t][i].op = op
  <2>1. CASE own = {}
    <3>1. n = LastIndex(s, t)
      BY <2>1 DEF AwaitedIndex
    <3>2. PICK i \in 1 .. LastIndex(s, t) : log[s][t][i].op = op
      BY <1>1 DEF Has
    <3> QED BY <1>1, <3>1, <3>2
  <2>2. CASE own # {}
    <3>1. n = CHOOSE i \in own : TRUE
      BY <2>2 DEF AwaitedIndex
    <3>2. n \in own
      BY <2>2, <3>1
    <3>3. n \in 1 .. LastIndex(s, t) /\ log[s][t][n].op = op
      BY <3>2 DEF Indices
    <3> HIDE DEF n
    <3>4. n \in 1 .. n
      BY <1>1, <3>3
    <3> QED BY <3>3, <3>4
  <2> QED BY <2>1, <2>2
<1> HIDE DEF n
<1>3. PICK i \in 1 .. n : log[s][t][i].op = op
  BY <1>2
<1>4. n <= commitIndex[s] /\ \A j \in 1 .. n : log[s][t][j] = log[s][term[s]][j]
  BY <1>1, <1>2, DurablePrefix
<1>5. i \in 1 .. commitIndex[s] /\ log[s][term[s]][i].op = op
  <2>1. commitIndex[s] \in Nat /\ n \in Nat
    BY <1>1, <1>2, ShardBasics
  <2> QED BY <1>3, <1>4, <2>1
<1> QED BY <1>5 DEF DurableOps

(* A shard that votes to commit is durably prepared.                        *)
LEMMA PrepareIsDurable ==
  ASSUME CommitInv, NEW s \in Shard, NEW t \in primaries[s], PrepareDurable(s, t)
  PROVE  DurablyPrepared(s)
BY AwaitedIsDurable, PrimaryParticipant DEF PrepareDurable, StateLogged, DurablyPrepared

(* prepareTransaction keeps the invariant, in all its outcomes.             *)
LEMMA PrepareCommandInv ==
  ASSUME CommitInv, NEW s \in Shard, NEW t \in Term(s), NEW r \in requests, PrepareCommand(s, t, r)
  PROVE  CommitInv'
<1>1. t \in primaries[s] /\ UNCHANGED <<term, primaries, commitIndex, requests, answers>>
  BY DEF PrepareCommand, Executes
<1>2. StateLogged(s, t, txnState[s][t])
  BY <1>1, PrimaryParticipant
<1>3. CASE PrepareTransaction(s, t) /\ Unanswered
  <2>1. PrepareTimestamp[s] \in Nat
    BY ParticipantAssumption
  <2>2. Writes(s, t, "prepare", PrepareTimestamp[s]) /\ Becomes(s, t, "prepared")
        /\ txnState[s][t] = "inProgress" /\ coordinator' = coordinator
    BY <1>1, <1>3 DEF PrepareTransaction, Unanswered, Writes
  <2>3. t = 1
    BY <1>2, <2>2 DEF StateLogged
  <2>4. EntryJustified([term |-> t, op |-> "prepare", ts |-> PrepareTimestamp[s]])
    BY <2>3 DEF EntryJustified
  <2> QED BY <1>1, <2>1, <2>2, <2>4, ParticipantWriteInv
<1>4. CASE PrepareFails(s, t) /\ (VotesAbort(s, r) \/ Unanswered)
  <2>1. txnState[s][t] = "inProgress" /\ Becomes(s, t, "aborted") /\ UNCHANGED shardVars
    BY <1>1, <1>4 DEF PrepareFails, shardVars
  <2>2. SoundChange \/ coordinator' = coordinator
    BY <1>4, ResponseSound DEF Unanswered
  <2> QED BY <1>1, <2>1, <2>2, QuitInv
<1>5. CASE PrepareDurable(s, t) /\ VotesCommit(s, r) /\ UNCHANGED <<log, txnState>>
  <2>1. SoundChange
    BY <1>1, <1>5, PrepareIsDurable, ResponseSound
  <2>2. UNCHANGED shardVars
    BY <1>1, <1>5 DEF shardVars
  <2> QED BY <1>1, <1>5, <2>1, <2>2, RespondInv
<1>6. CASE Rejected(s, t, r) /\ VotesAbort(s, r)
  BY <1>6, ResponseSound, RespondInv DEF Rejected
<1> QED BY <1>3, <1>4, <1>5, <1>6 DEF PrepareCommand

(* A command that was sent is typed and sound.                              *)
LEMMA RequestTyped ==
  ASSUME CommitInv, NEW r \in requests
  PROVE  r \in Request /\ r.ts \in Nat /\ RequestSound(r)
<1>1. r \in Request
  BY DEF CommitInv, TransactionTypeOK
<1> QED BY <1>1 DEF CommitInv, RequestsSound, Request

(* commitTransaction keeps the invariant: the decision it carries out is    *)
(* durable.                                                                 *)
LEMMA CommitCommandInv ==
  ASSUME CommitInv, NEW s \in Shard, NEW t \in Term(s), NEW r \in requests, CommitCommand(s, t, r)
  PROVE  CommitInv'
<1>1. /\ t \in primaries[s] /\ UNCHANGED <<term, primaries, commitIndex, requests, answers>>
      /\ r.op = "commit"
  BY DEF CommitCommand, Executes
<1>2. r.ts \in Nat /\ DurablyCommits(r.ts)
  BY <1>1, RequestTyped DEF RequestSound
<1>3. CASE CommitPreparedTransaction(s, t, r.ts) /\ Unanswered
  <2>1. Writes(s, t, "commit", r.ts) /\ Becomes(s, t, "committed") /\ coordinator' = coordinator
    BY <1>1, <1>3 DEF CommitPreparedTransaction, Unanswered, Writes
  <2>2. PICK ts \in Nat : ts = r.ts
    BY <1>2
  <2>3. EntryJustified([term |-> t, op |-> "commit", ts |-> ts])
    BY <1>2, <2>2 DEF EntryJustified
  <2>4. Writes(s, t, "commit", ts)
    BY <2>1, <2>2
  <2> QED BY <1>1, <2>1, <2>3, <2>4, ParticipantWriteInv
<1>4. CASE CommitDurable(s, t) /\ Acks(s, r) /\ UNCHANGED <<log, txnState>>
  <2>1. UNCHANGED shardVars
    BY <1>1, <1>4 DEF shardVars
  <2> QED BY <1>1, <1>4, <2>1, ResponseSound, RespondInv
<1>5. CASE Rejected(s, t, r) /\ Acks(s, r)
  BY <1>5, ResponseSound, RespondInv DEF Rejected
<1> QED BY <1>3, <1>4, <1>5 DEF CommitCommand

(* abortTransaction keeps the invariant: the decision it carries out is     *)
(* durable.                                                                 *)
LEMMA AbortCommandInv ==
  ASSUME CommitInv, NEW s \in Shard, NEW t \in Term(s), NEW r \in requests, AbortCommand(s, t, r)
  PROVE  CommitInv'
<1>1. /\ t \in primaries[s] /\ UNCHANGED <<term, primaries, commitIndex, requests, answers>>
      /\ r.op = "abort"
  BY DEF AbortCommand, Executes
<1>2. DurablyAborts
  BY <1>1, RequestTyped DEF RequestSound
<1>3. CASE AbortPreparedTransaction(s, t) /\ Unanswered
  <2>1. Writes(s, t, "abort", 0) /\ Becomes(s, t, "aborted") /\ coordinator' = coordinator
    BY <1>1, <1>3 DEF AbortPreparedTransaction, Unanswered, Writes
  <2>2. EntryJustified([term |-> t, op |-> "abort", ts |-> 0])
    BY <1>2 DEF EntryJustified
  <2> QED BY <1>1, <2>1, <2>2, ParticipantWriteInv
<1>4. CASE AbortUnprepared(s, t) /\ (Acks(s, r) \/ Unanswered)
  <2>1. txnState[s][t] = "inProgress" /\ Becomes(s, t, "aborted") /\ UNCHANGED shardVars
    BY <1>1, <1>4 DEF AbortUnprepared, shardVars
  <2>2. SoundChange \/ coordinator' = coordinator
    BY <1>4, ResponseSound DEF Unanswered
  <2> QED BY <1>1, <2>1, <2>2, QuitInv
<1>5. CASE AbortDurable(s, t) /\ Acks(s, r) /\ UNCHANGED <<log, txnState>>
  <2>1. UNCHANGED shardVars
    BY <1>1, <1>5 DEF shardVars
  <2> QED BY <1>1, <1>5, <2>1, ResponseSound, RespondInv
<1>6. CASE Rejected(s, t, r) /\ Acks(s, r)
  BY <1>6, ResponseSound, RespondInv DEF Rejected
<1> QED BY <1>3, <1>4, <1>5, <1>6 DEF AbortCommand

--------------------
(* An answer to a client keeps the invariant when it is sound.              *)
LEMMA AnswerInv ==
  ASSUME CommitInv, UNCHANGED <<shardVars, txnState, coordinator, requests>>,
         NEW a \in Answer, answers' = answers \cup {a}, AnswerSound(a)
  PROVE  CommitInv'
<1>1. answers' \subseteq Answer
  BY DEF CommitInv, TransactionTypeOK
<1>2. QuietStep
  BY <1>1 DEF QuietStep
<1> QED BY <1>2, QuietInv

(* A decision to commit, durable or not, has all votes.                     *)
LEMMA CommitHasVotes ==
  ASSUME CommitInv, NEW t \in Term(Self), NEW i \in 1 .. LastIndex(Self, t),
         log[Self][t][i].op = "decideCommit"
  PROVE  \A s \in Shard : DurablyPrepared(s)
<1>1. CanCommitAt(log[Self][t][i].ts)
  BY SelfIsShard DEF CommitInv, EntriesJustified, EntryJustified
<1> QED BY <1>1 DEF CanCommitAt

(* The answer of a coordinator is sound: its decision has all votes when it *)
(* is to commit, and a client that gave majority waited for its entry.      *)
LEMMA AnswerDecisionInv ==
  ASSUME CommitInv, NEW t \in Term(Self), NEW w \in ClientWriteConcerns, AnswerDecision(t, w),
         txnState' = txnState
  PROVE  CommitInv'
<1> DEFINE d == coordinator[t]
           op == DecisionOp(d.decision)
<1>1. /\ t \in primaries[Self] /\ d.promised
      /\ answers' = answers \cup {[outcome |-> d.decision, w |-> w]}
      /\ w = "majority" => \E i \in Indices(Self, t, {op}) : Durable(Self, t, i)
      /\ UNCHANGED <<shardVars, txnState, coordinator, requests>>
  BY DEF AnswerDecision
<1>2. /\ d \in Coordinator /\ CoordinatorSound(t, d) /\ LogInv /\ LastIndex(Self, t) \in Nat
  BY <1>1, PrimaryCoordinator, SelfIsShard, ShardBasics DEF CommitInv
<1>3. d.decision \in {"commit", "abort"} /\ Has(Self, t, op)
  BY <1>1, <1>2 DEF CoordinatorSound, Coordinator
<1>4. PICK a \in Answer : a = [outcome |-> d.decision, w |-> w]
  BY <1>3, CoordinatorAssumption DEF Answer
<1>5. a.outcome = d.decision /\ a.w = w
  BY <1>4
<1>6. ASSUME w = "majority"
      PROVE  \E ts \in Nat : Decided(term[Self], op, ts, commitIndex[Self]) /\ op \in DurableOps(Self)
  <2>1. PICK i \in Indices(Self, t, {op}) : Durable(Self, t, i)
    BY <1>1, <1>6
  <2>2. i \in 1 .. LastIndex(Self, t) /\ log[Self][t][i].op = op
    BY DEF Indices
  <2>3. log[Self][t][i].ts \in Nat
    BY <1>2, <2>2, SelfIsShard, ShardBasics DEF OplogEntry
  <2>4. Decided(t, op, log[Self][t][i].ts, i)
    BY <1>2, <2>2 DEF Decided
  <2> HIDE DEF op
  <2>5. Decided(term[Self], op, log[Self][t][i].ts, commitIndex[Self]) /\ op \in DurableOps(Self)
    BY <1>2, <2>1, <2>2, <2>4, DurableDecided
  <2> QED BY <2>3, <2>5
<1>7. AnswerSound(a)
  <2>1. CASE d.decision = "commit"
    <3>1. \A s \in Shard : DurablyPrepared(s)
      BY <1>3, <2>1, CommitHasVotes DEF Has, DecisionOp
    <3>2. w = "majority" => \E ts \in Nat : DurablyCommits(ts)
      BY <1>6, <2>1 DEF DurablyCommits, DecisionOp
    <3> QED BY <1>5, <2>1, <3>1, <3>2 DEF AnswerSound
  <2>2. CASE d.decision = "abort"
    <3>1. w = "majority" => DurablyAborts
      BY <1>6, <2>2 DEF DurablyAborts, DecisionOp
    <3> QED BY <1>5, <2>2, <3>1 DEF AnswerSound
  <2> QED BY <1>3, <2>1, <2>2
<1> QED BY <1>1, <1>4, <1>7, AnswerInv

(* A primary that has no such transaction, or has aborted it, and whose     *)
(* oplog is all durable without an abort, is on a shard that never          *)
(* prepares.                                                                *)
LEMMA GoneForGood ==
  ASSUME CommitInv, NEW s \in Shard, NEW t \in primaries[s], NoopDurable(s, t),
         txnState[s][t] \in {"none", "aborted"}, ~Has(s, t, "abort")
  PROVE  NeverPrepares(s)
<1>1. /\ t = term[s] /\ commitIndex[s] = LastIndex(s, t) /\ LogInv
      /\ StateLogged(s, t, txnState[s][t]) /\ t \in Nat /\ t > 0
  BY PrimaryParticipant DEF NoopDurable, CommitInv
<1>2. ~Has(s, t, "prepare") /\ (t = 1 => txnState[s][t] = "aborted")
  BY <1>1 DEF StateLogged
<1>3. ~DurablyPrepared(s)
  BY <1>1, <1>2 DEF DurablyPrepared, DurableOps, Has
<1>4. CASE t = 1
  BY <1>2, <1>3, <1>4 DEF NeverPrepares
<1>5. CASE t # 1
  <2>1. t \in 2 .. term[s]
    BY <1>1, <1>5
  <2>2. PICK i \in 1 .. LastIndex(s, t) : log[s][t][i].term = t
    BY <1>1, <2>1 DEF LogInv, LogMatching
  <2>3. i \in 1 .. commitIndex[s] /\ log[s][term[s]][i].term > 1
    BY <1>1, <2>1, <2>2
  <2> QED BY <1>3, <2>3 DEF NeverPrepares
<1> QED BY <1>4, <1>5

(* The answer from the local participant is sound: its commit follows a     *)
(* durable decision, and a client that gave majority is told of an abort    *)
(* only after the no-op.                                                    *)
LEMMA RecoverInv ==
  ASSUME CommitInv, NEW t \in Term(Self), NEW w \in ClientWriteConcerns,
         RecoverFromLocalParticipant(t, w)
  PROVE  CommitInv'
<1> DEFINE Told(x) == [outcome |-> x, w |-> w]
<1>1. t \in primaries[Self] /\ UNCHANGED <<shardVars, txnState, coordinator, requests>>
  BY DEF RecoverFromLocalParticipant, At
<1>2. /\ Self \in Shard /\ LogInv /\ EntriesJustified /\ StateLogged(Self, t, txnState[Self][t])
      /\ t \in Term(Self) /\ txnState[Self][t] \in TransactionState
  BY <1>1, SelfIsShard, PrimaryParticipant DEF CommitInv, TransactionTypeOK
<1>3. CASE txnState[Self][t] = "committed" /\ answers' = answers \cup {Told("commit")}
  <2>0. PICK a \in Answer : a = Told("commit")
    BY CoordinatorAssumption DEF Answer
  <2>1. PICK i \in 1 .. LastIndex(Self, t) : log[Self][t][i].op = "commit"
    BY <1>2, <1>3 DEF StateLogged, Has
  <2>2. log[Self][t][i].ts \in Nat
    BY <1>2, <2>1, ShardBasics DEF OplogEntry
  <2>3. DurablyCommits(log[Self][t][i].ts)
    BY <1>2, <2>1 DEF EntriesJustified, EntryJustified
  <2>4. PICK k \in 1 .. commitIndex[Self] : log[Self][term[Self]][k].op = "decideCommit"
    BY <2>3 DEF DurablyCommits, Decided
  <2>5. k \in 1 .. LastIndex(Self, term[Self]) /\ term[Self] \in Term(Self)
    BY <1>2, ShardBasics
  <2>6. \A s \in Shard : DurablyPrepared(s)
    BY <2>4, <2>5, CommitHasVotes
  <2>7. AnswerSound(a)
    BY <2>0, <2>2, <2>3, <2>6 DEF AnswerSound
  <2> QED BY <1>1, <1>3, <2>0, <2>7, AnswerInv
<1>4. CASE NoSuchTransaction(Self, t, "commit", w) /\ answers' = answers \cup {Told("abort")}
  <2>0. PICK a \in Answer : a = Told("abort")
    BY CoordinatorAssumption DEF Answer
  <2>1. txnState[Self][t] \in {"none", "aborted"} /\ (w = "majority" => NoopDurable(Self, t))
    BY <1>2, <1>4 DEF NoSuchTransaction, TransactionIsOpen, TransactionState
  <2>2. Has(Self, t, "abort") => DurablyAborts
    BY <1>2 DEF Has, EntriesJustified, EntryJustified
  <2>3. w = "majority" /\ ~Has(Self, t, "abort") => NeverPrepares(Self)
    BY <1>1, <1>2, <2>1, GoneForGood
  <2>4. AnswerSound(a)
    BY <2>0, <2>2, <2>3 DEF AnswerSound
  <2> QED BY <1>1, <1>4, <2>0, <2>4, AnswerInv
<1> QED BY <1>3, <1>4 DEF RecoverFromLocalParticipant

--------------------
(* The invariant holds initially.                                           *)
LEMMA CommitInitInv == ASSUME Init PROVE CommitInv
<1>1. LogInv
  BY ShardInitInv DEF Init
<1>2. Self \in Shard /\ 1 \in Term(Self) /\ \A s \in Shard : 1 \in Term(s) /\ Term(s) \subseteq Nat
  BY <1>1, SelfIsShard, ShardAssumption, ShardBasics DEF Term
<1>3. ASSUME NEW s \in Shard, NEW t \in Term(s)
      PROVE  LastIndex(s, t) = 0 /\ \A i \in 1 .. LastIndex(s, t) : FALSE
  <2>1. LastIndex(s, t) = 0
    BY DEF Init, InitShards, LastIndex
  <2> QED BY <2>1
<1>4. TransactionTypeOK
  <2>1. \A s \in Shard : txnState[s] \in [Term(s) -> TransactionState]
    BY DEF Init, InitParticipants, TransactionState
  <2>2. coordinator \in [Term(Self) -> Coordinator]
    <3>1. NoCoordinator \in Coordinator /\ [NoCoordinator EXCEPT !.step = "kInactive"] \in Coordinator
      BY DEF NoCoordinator, Coordinator, Step
    <3> QED BY <3>1 DEF Init, InitCoordinator
  <2> QED BY <2>1, <2>2 DEF TransactionTypeOK, Init, InitParticipants, InitCoordinator
<1>5. EntriesJustified /\ DocumentOrder
  BY <1>2, <1>3 DEF EntriesJustified, DocumentOrder
<1>6. \A s \in Shard : \A t \in Term(s) : \A op : ~Has(s, t, op)
  BY <1>3 DEF Has
<1>7. StatesLogged
  <2> SUFFICES ASSUME NEW s \in Shard, NEW t \in Term(s)
               PROVE  StateLogged(s, t, txnState[s][t])
    BY DEF StatesLogged
  <2>1. txnState[s][t] = IF t = 1 THEN "inProgress" ELSE "none"
    BY DEF Init, InitParticipants
  <2>2. primaries[s] = {1}
    BY DEF Init, InitShards
  <2> QED BY <1>6, <2>1, <2>2 DEF StateLogged
<1>8. CoordinatorsSound
  <2> SUFFICES ASSUME NEW t \in Term(Self)
               PROVE  CoordinatorSound(t, coordinator[t])
    BY DEF CoordinatorsSound
  <2>1. term[Self] = 1 /\ t \in Nat
    BY <1>2 DEF Init, InitShards
  <2>2. CASE t = 1
    <3>1. coordinator[t] = [NoCoordinator EXCEPT !.step = "kInactive"]
      BY <2>2 DEF Init, InitCoordinator
    <3> QED BY <1>2, <1>6, <2>1, <2>2, <3>1 DEF CoordinatorSound, NoCoordinator
  <2>3. CASE t # 1
    <3>1. coordinator[t] = NoCoordinator
      BY <2>3 DEF Init, InitCoordinator
    <3> QED BY <3>1, NoCoordinatorSound
  <2> QED BY <2>2, <2>3
<1>9. RequestsSound /\ AnswersSound
  BY DEF Init, InitCoordinator, RequestsSound, AnswersSound
<1> QED BY <1>1, <1>4, <1>5, <1>7, <1>8, <1>9 DEF CommitInv

(* A step that changes nothing keeps the invariant.                         *)
LEMMA StutterInv == ASSUME CommitInv, UNCHANGED vars PROVE CommitInv'
BY RespondInv DEF vars, coordinatorVars

(* Every step keeps the invariant.                                          *)
LEMMA CommitNextInv == ASSUME CommitInv, [Next]_vars PROVE CommitInv'
<1>1. ASSUME NEW t \in Term(Self), CoordinatorStep(t) \/ Deadline(t)
      PROVE  CommitInv'
  BY <1>1, PersistParticipantsListInv, AbandonParticipantsListInv, SendPrepareInv, DecideVotesInv,
     PersistDecisionInv, SendDecisionInv, DeleteCoordinatorDocInv, DeleteFailsInv, OnStepUpInv,
     DeadlineInv
     DEF CoordinatorStep, Deadline
<1>2. ASSUME NEW s \in Shard, Replication(s)
      PROVE  CommitInv'
  BY <1>2, ReplicationInv
<1>3. ASSUME NEW s \in Shard, NEW t \in Term(s), Command(s, t)
      PROVE  CommitInv'
  BY <1>3, PrepareCommandInv, CommitCommandInv, AbortCommandInv DEF Command
<1>4. ASSUME NEW s \in Shard, NEW t \in Term(s), Expire(s, t)
      PROVE  CommitInv'
  BY <1>4, QuitInv DEF Expire, ExpireTransaction, coordinatorVars
<1>5. ASSUME NEW s \in Shard, NEW t \in Term(s), StepDown(s, t)
      PROVE  CommitInv'
  BY <1>5, StepDownInv
<1>6. ASSUME NEW t \in Term(Self), Client(t)
      PROVE  CommitInv'
  <2>1. CASE AbortLocalParticipant(t)
    BY <2>1, QuitInv, SelfIsShard DEF AbortLocalParticipant, At, coordinatorVars
  <2> QED BY <1>6, <2>1, RunCommitInv, CancelInv, AnswerDecisionInv, RecoverInv DEF Client
<1>7. ASSUME NEW s \in Shard, Failover(s)
      PROVE  CommitInv'
  BY <1>7, FailoverInv
<1>8. ASSUME NEW s \in Shard, NEW t \in Term(s), MoveOn(s, t)
      PROVE  CommitInv'
  BY <1>8, QuitInv DEF MoveOn, NewerTransaction, coordinatorVars
<1> QED BY <1>1, <1>2, <1>3, <1>4, <1>5, <1>6, <1>7, <1>8, StutterInv DEF Next, System

(* CommitInv is an invariant of two-phase commit, for any set of            *)
(* participants, any number of failovers and any timestamps.                *)
THEOREM CommitInvariance == Spec => []CommitInv
<1>1. Init => CommitInv
  BY CommitInitInv
<1>2. CommitInv /\ [Next]_vars => CommitInv'
  BY CommitNextInv
<1> QED BY <1>1, <1>2, PTL DEF Spec

--------------------
(* Type correctness: among it that the commit point of a shard never leaves *)
(* the oplog of its latest primary.                                         *)
THEOREM TypeCorrect == Spec => []TypeOK
<1>1. CommitInv => TypeOK
  BY DEF CommitInv, LogInv, ShardsTypeOK, TransactionTypeOK, TypeOK
<1> QED BY <1>1, CommitInvariance, PTL

(* There is one durable decision, at one timestamp.                         *)
LEMMA OneDecision ==
  ASSUME LogInv, DocumentOrder
  PROVE  /\ \A a, b : DurablyCommits(a) /\ DurablyCommits(b) => a = b
         /\ \A a : DurablyCommits(a) => DurableDecision = "commit" /\ ~DurablyAborts
         /\ DurablyAborts => DurableDecision = "abort"
<1>0. /\ Self \in Shard /\ term[Self] \in Term(Self) /\ commitIndex[Self] \in Nat
      /\ LastIndex(Self, term[Self]) \in Nat /\ commitIndex[Self] <= LastIndex(Self, term[Self])
  BY SelfIsShard, ShardBasics
<1>1. ASSUME NEW i \in 1 .. commitIndex[Self], NEW j \in 1 .. commitIndex[Self],
             log[Self][term[Self]][i].op \in Decisions, log[Self][term[Self]][j].op \in Decisions
      PROVE  i = j
  <2>1. i \in 1 .. LastIndex(Self, term[Self]) /\ j \in 1 .. LastIndex(Self, term[Self])
    BY <1>0
  <2> QED BY <1>0, <1>1, <2>1 DEF DocumentOrder, OrderedOps
<1>2. \A a : DurablyCommits(a) => "decideCommit" \in DurableOps(Self)
  BY DEF DurablyCommits, Decided, DurableOps
<1>3. \A a, b : DurablyCommits(a) /\ DurablyCommits(b) => a = b
  BY <1>1 DEF DurablyCommits, Decided, Decisions
<1>4. ~("decideCommit" \in DurableOps(Self) /\ "decideAbort" \in DurableOps(Self))
  BY <1>1 DEF DurableOps, Decisions
<1> QED BY <1>2, <1>3, <1>4 DEF DurablyAborts, DurableDecision

(* No oplog, not even one that will be rolled back, has the commit or the   *)
(* abort of a prepared transaction before the decision of the coordinator   *)
(* is durable.                                                              *)
THEOREM FinishedWhenDecided == Spec => []FinishedOnlyWhenDecided
<1>1. CommitInv => FinishedOnlyWhenDecided
  BY OneDecision DEF CommitInv, EntriesJustified, EntryJustified, FinishedOnlyWhenDecided, Indices
<1> QED BY <1>1, CommitInvariance, PTL

(* The transaction commits at one timestamp on all shards and all their     *)
(* primaries, not before any of them prepared, whichever coordinators       *)
(* decided.                                                                 *)
THEOREM CommitsAtOneTimestamp == Spec => []OneCommitTimestamp
<1>1. ASSUME CommitInv
      PROVE  OneCommitTimestamp
  <2>0. LogInv /\ DocumentOrder /\ EntriesJustified
    BY <1>1 DEF CommitInv
  <2>1. ASSUME NEW s \in Shard, NEW t \in Term(s), NEW i \in Indices(s, t, {"commit"})
        PROVE  DurablyCommits(log[s][t][i].ts) /\ CanCommitAt(log[s][t][i].ts)
    <3>1. i \in 1 .. LastIndex(s, t) /\ log[s][t][i].op = "commit"
      BY DEF Indices
    <3>2. DurablyCommits(log[s][t][i].ts)
      BY <2>0, <3>1 DEF EntriesJustified, EntryJustified
    <3>3. PICK k \in 1 .. commitIndex[Self] :
            /\ log[Self][term[Self]][k].op = "decideCommit"
            /\ log[Self][term[Self]][k].ts = log[s][t][i].ts
      BY <3>2 DEF DurablyCommits, Decided
    <3>4. k \in 1 .. LastIndex(Self, term[Self]) /\ Self \in Shard /\ term[Self] \in Term(Self)
      BY <2>0, SelfIsShard, ShardBasics
    <3>5. CanCommitAt(log[Self][term[Self]][k].ts)
      BY <2>0, <3>3, <3>4 DEF EntriesJustified, EntryJustified
    <3> QED BY <3>2, <3>3, <3>5
  <2> QED BY <2>0, <2>1, OneDecision DEF OneCommitTimestamp, CanCommitAt
<1> QED BY <1>1, CommitInvariance, PTL

(* What coordinateCommit tells a client is so, as far as the client's       *)
(* writeConcern goes: with any, committed only if every shard is durably    *)
(* prepared; with majority, committed only if the decision is durable, and  *)
(* aborted only if the transaction can never commit.                        *)
THEOREM AnswersAreTrue == Spec => []AnswersTrue
<1>1. ASSUME CommitInv
      PROVE  AnswersTrue
  <2>0. LogInv /\ DocumentOrder /\ EntriesJustified /\ AnswersSound
    BY <1>1 DEF CommitInv
  <2>1. (\E ts \in Nat : DurablyCommits(ts)) => DurableDecision = "commit"
    BY <2>0, OneDecision
  <2>2. ASSUME DurablyAborts \/ NeverPrepares(Self)
        PROVE  DurableDecision # "commit" /\ \A ts : ~DurablyCommits(ts)
    <3>1. CASE DurablyAborts
      BY <2>0, <3>1, OneDecision
    <3>2. CASE NeverPrepares(Self)
      <4>1. "decideCommit" \notin DurableOps(Self)
        <5> SUFFICES ASSUME NEW k \in 1 .. commitIndex[Self],
                            log[Self][term[Self]][k].op = "decideCommit"
                     PROVE  FALSE
          BY DEF DurableOps
        <5>1. k \in 1 .. LastIndex(Self, term[Self]) /\ Self \in Shard /\ term[Self] \in Term(Self)
          BY <2>0, SelfIsShard, ShardBasics
        <5>2. CanCommitAt(log[Self][term[Self]][k].ts)
          BY <2>0, <5>1 DEF EntriesJustified, EntryJustified
        <5> QED BY <3>2, <5>1, <5>2 DEF CanCommitAt, NeverPrepares
      <4>2. \A ts : ~DurablyCommits(ts)
        BY <4>1 DEF DurablyCommits, Decided, DurableOps
      <4> QED BY <4>1, <4>2 DEF DurableDecision
    <3> QED BY <2>2, <3>1, <3>2
  <2>3. (\A ts : ~DurablyCommits(ts)) =>
          \A s \in Shard : \A t \in Term(s) : Indices(s, t, {"commit"}) = {}
    BY <2>0 DEF EntriesJustified, EntryJustified, Indices
  <2>4. ASSUME NEW s \in Shard, DurablyPrepared(s)
        PROVE  DurableOutcome[s] # "unprepared"
    <3> DEFINE ops == DurableOps(s)
    <3>1. "prepare" \in ops
      BY <2>4 DEF DurablyPrepared
    <3> HIDE DEF ops
    <3>2. RefreshedState(ops) \in {"committed", "aborted", "prepared"}
      BY <3>1 DEF RefreshedState
    <3> USE DEF ops
    <3>3. DurableOutcome[s] = IF RefreshedState(ops) = "none" THEN "unprepared" ELSE RefreshedState(ops)
      BY DEF DurableOutcome
    <3> QED BY <3>2, <3>3
  <2>5. ASSUME NEW a \in answers
        PROVE  AnswerSound(a)
    BY <2>0 DEF AnswersSound
  <2> QED BY <2>1, <2>2, <2>3, <2>4, <2>5 DEF AnswerSound, AnswersTrue
<1> QED BY <1>1, CommitInvariance, PTL

--------------------
(* A step that writes at most one entry is a step of a replica set.         *)
LEMMA AtMostOneWrite ==
  ASSUME NEW s \in Shard, NEW t \in primaries[s], NEW op \in OplogOps, NEW ts \in Nat,
         UNCHANGED <<term, primaries, commitIndex>>,
         log' = log \/ log' = Appended(s, t, op, ts)
  PROVE  ShardStep
BY DEF ShardStep, Writes, shardVars

(* Only replication moves the commit point.                                 *)
PointMoves == \E s \in Shard : Replicate(s)

(* A step of a coordinator writes at most one entry and moves no commit     *)
(* point.                                                                   *)
LEMMA CoordinatorShardStep ==
  ASSUME CommitInv, NEW t \in Term(Self), CoordinatorStep(t)
  PROVE  ShardStep /\ commitIndex' = commitIndex
<1>1. CASE PersistParticipantsList(t) \/ AbandonParticipantsList(t)
  <2>1. /\ t \in primaries[Self]
        /\ log' = log \/ log' = Appended(Self, t, "participants", 0)
        /\ UNCHANGED <<term, primaries, commitIndex>>
    BY <1>1 DEF PersistParticipantsList, AbandonParticipantsList, At
  <2>2. "participants" \in OplogOps /\ 0 \in Nat
    BY DEF OplogOps, DocumentOps
  <2> QED BY <2>1, <2>2, AtMostOneWrite, SelfIsShard
<1>2. CASE PersistDecision(t)
  <2> DEFINE op == DecisionOp(coordinator[t].decision)
             ts == coordinator[t].ts
  <2>1. /\ t \in primaries[Self]
        /\ log' = log \/ log' = Appended(Self, t, op, ts)
        /\ UNCHANGED <<term, primaries, commitIndex>>
    BY <1>2 DEF PersistDecision, At
  <2>2. op \in OplogOps
    BY DEF DecisionOp, OplogOps, DocumentOps
  <2>3. ts \in Nat
    BY DEF CommitInv, TransactionTypeOK, Coordinator
  <2> QED BY <2>1, <2>2, <2>3, AtMostOneWrite, SelfIsShard
<1>3. CASE DeleteCoordinatorDoc(t)
  <2>1. /\ t \in primaries[Self] /\ log' = Appended(Self, t, "delete", 0)
        /\ UNCHANGED <<term, primaries, commitIndex>>
    BY <1>3 DEF DeleteCoordinatorDoc, At
  <2>2. "delete" \in OplogOps /\ 0 \in Nat
    BY DEF OplogOps, DocumentOps
  <2> QED BY <2>1, <2>2, AtMostOneWrite, SelfIsShard
<1>4. CASE \/ SendPrepare(t) \/ DecideVotes(t) \/ SendDecision(t) \/ OnStepUp(t)
           \/ DeleteCoordinatorDocFails(t)
  <2>1. UNCHANGED shardVars
    BY <1>4 DEF SendPrepare, DecideVotes, SendDecision, OnStepUp, DeleteCoordinatorDocFails
  <2> QED BY <2>1 DEF ShardStep, shardVars
<1> QED BY <1>1, <1>2, <1>3, <1>4 DEF CoordinatorStep

(* A command writes at most one entry and moves no commit point.            *)
LEMMA CommandShardStep ==
  ASSUME CommitInv, NEW s \in Shard, NEW t \in Term(s), Command(s, t)
  PROVE  ShardStep /\ commitIndex' = commitIndex
<1>1. PICK r \in requests : PrepareCommand(s, t, r) \/ CommitCommand(s, t, r) \/ AbortCommand(s, t, r)
  BY DEF Command
<1>2. t \in primaries[s] /\ UNCHANGED <<term, primaries, commitIndex>>
  BY <1>1 DEF PrepareCommand, CommitCommand, AbortCommand, Executes
<1>3. "prepare" \in OplogOps /\ "commit" \in OplogOps /\ "abort" \in OplogOps /\ 0 \in Nat
  BY DEF OplogOps, ParticipantOps
<1>4. r.ts \in Nat
  BY RequestTyped
<1>5. CASE PrepareCommand(s, t, r)
  <2>1. PrepareTimestamp[s] \in Nat
    BY ParticipantAssumption
  <2>2. log' = log \/ log' = Appended(s, t, "prepare", PrepareTimestamp[s])
    BY <1>5 DEF PrepareCommand, PrepareTransaction, PrepareFails, Rejected, shardVars
  <2> QED BY <1>2, <1>3, <2>1, <2>2, AtMostOneWrite
<1>6. CASE CommitCommand(s, t, r)
  <2>1. log' = log \/ log' = Appended(s, t, "commit", r.ts)
    BY <1>6 DEF CommitCommand, CommitPreparedTransaction, Rejected, shardVars
  <2> QED BY <1>2, <1>3, <1>4, <2>1, AtMostOneWrite
<1>7. CASE AbortCommand(s, t, r)
  <2>1. log' = log \/ log' = Appended(s, t, "abort", 0)
    BY <1>7 DEF AbortCommand, AbortPreparedTransaction, AbortUnprepared, Rejected, shardVars
  <2> QED BY <1>2, <1>3, <2>1, AtMostOneWrite
<1> QED BY <1>1, <1>5, <1>6, <1>7

(* Every step is a step of a replica set, and only replication moves a      *)
(* commit point.                                                            *)
LEMMA NextIsShardStep ==
  ASSUME CommitInv, [Next]_vars
  PROVE  ShardStep /\ (commitIndex' = commitIndex \/ PointMoves)
<1>1. ASSUME UNCHANGED shardVars
      PROVE  ShardStep /\ commitIndex' = commitIndex
  BY <1>1 DEF ShardStep, shardVars
<1>2. ASSUME NEW t \in Term(Self), Deadline(t) \/ Client(t)
      PROVE  UNCHANGED shardVars
  BY <1>2 DEF Deadline, ReachDeadline, Client, RunCommit, CancelIfCommitNotYetStarted,
              AnswerDecision, AbortLocalParticipant, RecoverFromLocalParticipant
<1>3. ASSUME NEW s \in Shard, NEW t \in Term(s), Expire(s, t) \/ MoveOn(s, t)
      PROVE  UNCHANGED shardVars
  BY <1>3 DEF Expire, ExpireTransaction, MoveOn, NewerTransaction
<1>4. ASSUME NEW s \in Shard, Replication(s)
      PROVE  ShardStep /\ PointMoves
  BY <1>4 DEF Replication, PointMoves, ShardStep
<1>5. ASSUME NEW s \in Shard, NEW t \in Term(s), StepDown(s, t)
      PROVE  ShardStep /\ commitIndex' = commitIndex
  BY <1>5 DEF StepDown, StopPrimary, ShardStep
<1>6. ASSUME NEW s \in Shard, Failover(s)
      PROVE  ShardStep /\ commitIndex' = commitIndex
  BY <1>6 DEF Failover, NewPrimary, Elects, ShardStep
<1>7. CASE UNCHANGED vars
  BY <1>1, <1>7 DEF vars
<1> QED BY <1>1, <1>2, <1>3, <1>4, <1>5, <1>6, <1>7, CoordinatorShardStep, CommandShardStep
           DEF Next, System

(* What becomes durable in a step was in the oplog of the latest primary    *)
(* before.                                                                  *)
LEMMA DurableFromLog ==
  ASSUME CommitInv, [Next]_vars, NEW s \in Shard
  PROVE  /\ \A op \in DurableOps(s) : op \in DurableOps(s)'
         /\ \A op \in DurableOps(s)' : \E i \in 1 .. LastIndex(s, term[s]) : log[s][term[s]][i].op = op
<1>0. LogInv /\ ShardStep /\ (commitIndex' = commitIndex \/ PointMoves)
  BY NextIsShardStep DEF CommitInv
<1>1. \A op \in DurableOps(s) : op \in DurableOps(s)'
  BY <1>0, DurableOpStays
<1>2. commitIndex[s] \in Nat /\ commitIndex[s] <= LastIndex(s, term[s]) /\ LastIndex(s, term[s]) \in Nat
  BY <1>0, ShardBasics
<1>3. ASSUME NEW op \in DurableOps(s)'
      PROVE  \E i \in 1 .. LastIndex(s, term[s]) : log[s][term[s]][i].op = op
  <2>1. PICK i \in 1 .. commitIndex'[s] : log'[s][term'[s]][i].op = op
    BY DEF DurableOps
  <2>2. CASE commitIndex' = commitIndex
    <3>1. i \in 1 .. commitIndex[s] /\ log'[s][term'[s]][i] = log[s][term[s]][i]
      BY <1>0, <2>1, <2>2, DurableStays DEF DurableGrows
    <3> QED BY <1>2, <2>1, <3>1
  <2>3. CASE PointMoves
    <3>1. PICK r \in Shard : Replicate(r)
      BY <2>3 DEF PointMoves
    <3>2. /\ UNCHANGED <<term, log>>
          /\ commitIndex'[s] \in Nat /\ commitIndex'[s] <= LastIndex(s, term[s])
      BY <1>0, <1>2, <3>1, ReplicateEffect
    <3>3. i \in 1 .. LastIndex(s, term[s])
      BY <1>2, <3>2
    <3> QED BY <2>1, <3>2, <3>3
  <2> QED BY <1>0, <2>2, <2>3
<1> QED BY <1>1, <1>3

--------------------
(* What the durable entries mean, in terms of the sets of durable entries.  *)
OutcomeOf(s) ==
  /\ "commit" \in DurableOps(s) /\ "abort" \notin DurableOps(s) => DurableOutcome[s] = "committed"
  /\ "commit" \notin DurableOps(s) /\ "abort" \in DurableOps(s) => DurableOutcome[s] = "aborted"
  /\ "commit" \notin DurableOps(s) /\ "abort" \notin DurableOps(s) =>
       DurableOutcome[s] = IF "prepare" \in DurableOps(s) THEN "prepared" ELSE "unprepared"

OutcomesOf == \A s \in Shard : OutcomeOf(s)

(* The durable outcome, read off the durable entries.                       *)
LEMMA OutcomeCases == OutcomesOf
<1> SUFFICES ASSUME NEW s \in Shard PROVE OutcomeOf(s)
  BY DEF OutcomesOf
<1> DEFINE ops == DurableOps(s)
<1>1. DurableOutcome[s] = IF RefreshedState(ops) = "none" THEN "unprepared" ELSE RefreshedState(ops)
  BY DEF DurableOutcome
<1> HIDE DEF ops
<1>2. CASE "commit" \in ops /\ "abort" \notin ops
  <2>1. RefreshedState(ops) = "committed"
    BY <1>2 DEF RefreshedState
  <2> QED BY <1>1, <1>2, <2>1 DEF ops, OutcomeOf
<1>3. CASE "commit" \notin ops /\ "abort" \in ops
  <2>1. RefreshedState(ops) = "aborted"
    BY <1>3 DEF RefreshedState
  <2> QED BY <1>1, <1>3, <2>1 DEF ops, OutcomeOf
<1>4. CASE "commit" \notin ops /\ "abort" \notin ops /\ "prepare" \in ops
  <2>0. ops \cap {"commit", "abort"} = {}
    BY <1>4
  <2>1. RefreshedState(ops) = "prepared"
    BY <1>4, <2>0 DEF RefreshedState
  <2> QED BY <1>1, <1>4, <2>1 DEF ops, OutcomeOf
<1>5. CASE "commit" \notin ops /\ "abort" \notin ops /\ "prepare" \notin ops
  <2>1. RefreshedState(ops) = "none"
    BY <1>5 DEF RefreshedState
  <2> QED BY <1>1, <1>5, <2>1 DEF ops, OutcomeOf
<1>6. CASE "commit" \in ops /\ "abort" \in ops
  BY <1>6 DEF ops, OutcomeOf
<1> QED BY <1>2, <1>3, <1>4, <1>5, <1>6

(* The same after a step.                                                   *)
LEMMA OutcomeCasesLater == OutcomesOf'
BY OutcomeCases, PTL

(* An entry that ends the transaction is there only with the durable        *)
(* decision, and one that decides to commit only with all shards durably    *)
(* prepared.                                                                *)
LEMMA OutcomeJustified ==
  ASSUME CommitInv, NEW s \in Shard, NEW i \in 1 .. LastIndex(s, term[s])
  PROVE  /\ log[s][term[s]][i].op = "commit" =>
              DurableDecision = "commit" /\ \A r \in Shard : "prepare" \in DurableOps(r)
         /\ log[s][term[s]][i].op = "abort" => DurableDecision = "abort"
         /\ log[s][term[s]][i].op = "decideCommit" => \A r \in Shard : "prepare" \in DurableOps(r)
<1>0. LogInv /\ DocumentOrder /\ EntriesJustified /\ term[s] \in Term(s)
  BY ShardBasics DEF CommitInv
<1>1. EntryJustified(log[s][term[s]][i])
  BY <1>0 DEF EntriesJustified
<1>2. ASSUME NEW ts, DurablyCommits(ts)
      PROVE  DurableDecision = "commit" /\ \A r \in Shard : "prepare" \in DurableOps(r)
  <2>1. DurableDecision = "commit"
    BY <1>0, <1>2, OneDecision
  <2>2. PICK k \in 1 .. commitIndex[Self] : log[Self][term[Self]][k].op = "decideCommit"
    BY <1>2 DEF DurablyCommits, Decided
  <2>3. k \in 1 .. LastIndex(Self, term[Self]) /\ Self \in Shard /\ term[Self] \in Term(Self)
    BY <1>0, SelfIsShard, ShardBasics
  <2>4. CanCommitAt(log[Self][term[Self]][k].ts)
    BY <1>0, <2>2, <2>3 DEF EntriesJustified, EntryJustified
  <2> QED BY <2>1, <2>4 DEF CanCommitAt, DurablyPrepared
<1> QED BY <1>0, <1>1, <1>2, OneDecision DEF EntryJustified, CanCommitAt, DurablyPrepared

(* What is durable is in the oplog of the latest primary.                   *)
LEMMA DurableInLog ==
  ASSUME CommitInv, NEW s \in Shard, NEW op \in DurableOps(s)
  PROVE  \E i \in 1 .. LastIndex(s, term[s]) : log[s][term[s]][i].op = op
<1>1. LogInv
  BY DEF CommitInv
<1> QED BY <1>1, ShardBasics DEF DurableOps

OneDecisionDurable == ~("decideCommit" \in DurableOps(Self) /\ "decideAbort" \in DurableOps(Self))

(* The two decisions are not both durable.                                  *)
LEMMA NotBothDecided == LogInv /\ DocumentOrder => OneDecisionDurable
<1> SUFFICES ASSUME LogInv, DocumentOrder, "decideCommit" \in DurableOps(Self), DurablyAborts
             PROVE  FALSE
  BY DEF DurablyAborts, OneDecisionDurable
<1>1. DurableDecision = "commit"
  BY DEF DurableDecision
<1>2. DurableDecision = "abort"
  BY OneDecision
<1> QED BY <1>1, <1>2

(* The durable decision is taken once, and to commit with all shards        *)
(* prepared before.                                                         *)
LEMMA DecisionStep ==
  ASSUME CommitInv, [Next]_vars
  PROVE  /\ DurableDecision' \in AC!Decision
         /\ DurableDecision' = DurableDecision \/ AC!Decide
<1>1. CommitInv'
  BY CommitNextInv
<1>2. Self \in Shard
  BY SelfIsShard
<1>3. /\ \A op \in DurableOps(Self) : op \in DurableOps(Self)'
      /\ \A op \in DurableOps(Self)' :
           \E i \in 1 .. LastIndex(Self, term[Self]) : log[Self][term[Self]][i].op = op
  BY <1>2, DurableFromLog
<1>4. LogInv /\ DocumentOrder /\ LogInv' /\ DocumentOrder'
  BY <1>1 DEF CommitInv
<1>5. OneDecisionDurable'
  BY <1>4, NotBothDecided, PTL
<1>6. ~("decideCommit" \in DurableOps(Self)' /\ "decideAbort" \in DurableOps(Self)')
  BY <1>5 DEF OneDecisionDurable, Self
<1>7. /\ DurableDecision = IF "decideCommit" \in DurableOps(Self) THEN "commit"
                           ELSE IF "decideAbort" \in DurableOps(Self) THEN "abort" ELSE "none"
      /\ DurableDecision' = IF "decideCommit" \in DurableOps(Self)' THEN "commit"
                            ELSE IF "decideAbort" \in DurableOps(Self)' THEN "abort" ELSE "none"
  BY DEF DurableDecision, Self
<1>8. CASE DurableDecision = "none"
  <2>1. ASSUME DurableDecision' = "commit", NEW s \in Shard
        PROVE  DurableOutcome[s] = "prepared"
    <3>1. "decideCommit" \in DurableOps(Self)'
      BY <1>7, <2>1
    <3>2. \A r \in Shard : "prepare" \in DurableOps(r)
      BY <1>2, <1>3, <3>1, OutcomeJustified
    <3>3. "commit" \notin DurableOps(s) /\ "abort" \notin DurableOps(s)
      BY <1>8, DurableInLog, OutcomeJustified
    <3> QED BY <3>2, <3>3, OutcomeCases DEF OutcomesOf, OutcomeOf
  <2>2. AC!Decide
    BY <1>8, <2>1 DEF AC!Decide
  <2>3. DurableDecision' \in AC!Decision
    BY <1>7 DEF AC!Decision
  <2> QED BY <2>2, <2>3
<1>9. CASE DurableDecision # "none"
  BY <1>3, <1>6, <1>7, <1>9 DEF AC!Decision
<1> QED BY <1>8, <1>9

(* The durable outcome of a shard becomes prepared once, and ends as        *)
(* decided before.                                                          *)
LEMMA OutcomeStep ==
  ASSUME CommitInv, [Next]_vars, NEW s \in Shard
  PROVE  /\ DurableOutcome'[s] \in AC!Outcome
         /\ DurableOutcome'[s] = DurableOutcome[s] \/ AC!Advance(s)
<1>1. /\ \A op \in DurableOps(s) : op \in DurableOps(s)'
      /\ \A op \in DurableOps(s)' : \E i \in 1 .. LastIndex(s, term[s]) : log[s][term[s]][i].op = op
  BY DurableFromLog
<1>2. /\ "commit" \in DurableOps(s)' => DurableDecision = "commit" /\ "prepare" \in DurableOps(s)
      /\ "abort" \in DurableOps(s)' => DurableDecision = "abort"
  BY <1>1, OutcomeJustified
<1>3. ~("commit" \in DurableOps(s)' /\ "abort" \in DurableOps(s)')
  BY <1>2
<1>4. CASE "commit" \in DurableOps(s)'
  <2>1. DurableOutcome'[s] = "committed"
    BY <1>3, <1>4, OutcomeCasesLater DEF OutcomesOf, OutcomeOf
  <2>2. DurableOutcome[s] \in {"prepared", "committed"} /\ DurableDecision = "commit"
    BY <1>1, <1>2, <1>3, <1>4, OutcomeCases DEF OutcomesOf, OutcomeOf
  <2> QED BY <2>1, <2>2 DEF AC!Outcome, AC!Advance
<1>5. CASE "abort" \in DurableOps(s)'
  <2>1. DurableOutcome'[s] = "aborted"
    BY <1>3, <1>5, OutcomeCasesLater DEF OutcomesOf, OutcomeOf
  <2>2. DurableOutcome[s] \in {"unprepared", "prepared", "aborted"} /\ DurableDecision = "abort"
    BY <1>1, <1>2, <1>3, <1>5, OutcomeCases DEF OutcomesOf, OutcomeOf
  <2> QED BY <2>1, <2>2 DEF AC!Outcome, AC!Advance
<1>6. CASE "commit" \notin DurableOps(s)' /\ "abort" \notin DurableOps(s)' /\ "prepare" \in DurableOps(s)'
  <2>1. DurableOutcome'[s] = "prepared"
    BY <1>6, OutcomeCasesLater DEF OutcomesOf, OutcomeOf
  <2>2. DurableOutcome[s] \in {"unprepared", "prepared"}
    BY <1>1, <1>6, OutcomeCases DEF OutcomesOf, OutcomeOf
  <2> QED BY <2>1, <2>2 DEF AC!Outcome, AC!Advance
<1>7. CASE "commit" \notin DurableOps(s)' /\ "abort" \notin DurableOps(s)' /\ "prepare" \notin DurableOps(s)'
  <2>1. DurableOutcome'[s] = "unprepared"
    BY <1>7, OutcomeCasesLater DEF OutcomesOf, OutcomeOf
  <2>2. DurableOutcome[s] = "unprepared"
    BY <1>1, <1>7, OutcomeCases DEF OutcomesOf, OutcomeOf
  <2> QED BY <2>1, <2>2 DEF AC!Outcome
<1> QED BY <1>4, <1>5, <1>6, <1>7

(* Two-phase commit implements atomic commit: what is majority committed    *)
(* follows one decision on all shards and never changes, through all        *)
(* failovers of the coordinator and of the participants.                    *)
THEOREM RefinesAtomicCommit == Spec => AtomicCommitSpec
<1>1. Init => AC!Init
  <2> SUFFICES ASSUME Init PROVE AC!Init
    OBVIOUS
  <2>1. \A s \in Shard : commitIndex[s] = 0
    BY DEF Init, InitShards
  <2>2. \A s \in Shard : \A op : op \notin DurableOps(s)
    BY <2>1 DEF DurableOps
  <2>3. DurableDecision = "none"
    BY <2>2, SelfIsShard DEF DurableDecision
  <2>4. DurableOutcome = [s \in Shard |-> "unprepared"]
    <3>1. \A s \in Shard : DurableOutcome[s] = "unprepared"
      BY <2>2, OutcomeCases DEF OutcomesOf, OutcomeOf
    <3> QED BY <3>1 DEF DurableOutcome
  <2> QED BY <2>3, <2>4 DEF AC!Init
<1>2. CommitInv /\ [Next]_vars => [AC!Next]_<<DurableOutcome, DurableDecision>>
  <2> SUFFICES ASSUME CommitInv, [Next]_vars PROVE AC!Next
    OBVIOUS
  <2>1. DurableOutcome' \in [Shard -> AC!Outcome]
    <3>1. \A s \in Shard : DurableOutcome'[s] \in AC!Outcome
      BY OutcomeStep
    <3> QED BY <3>1 DEF DurableOutcome
  <2> QED BY <2>1, DecisionStep, OutcomeStep DEF AC!Next
<1> QED BY <1>1, <1>2, CommitInvariance, PTL DEF Spec, AtomicCommitSpec, AC!Spec

(* What is majority committed on a shard is never lost or changed by a      *)
(* later step, in particular by a failover.                                 *)
THEOREM MajorityCommittedKept == Spec => [][DurableGrows]_vars
<1>1. CommitInv /\ [Next]_vars => [DurableGrows]_vars
  <2>1. ASSUME CommitInv, Next PROVE DurableGrows
    BY <2>1, NextIsShardStep, DurableStays DEF CommitInv
  <2> QED BY <2>1
<1> QED BY <1>1, CommitInvariance, PTL DEF Spec
====================
