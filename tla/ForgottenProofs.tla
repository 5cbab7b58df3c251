------------ MODULE ForgottenProofs ------------
(***************************************************************************)
(* The coordinator document is deleted only when no participant is left    *)
(* prepared: proved for clients without API parameters and sessions that   *)
(* do not go on to a newer transaction, which is when it holds.            *)
(***************************************************************************)
EXTENDS TwoPhaseCommitProofs

(* The transaction has ended on the shard for good, or never prepares.      *)
Settled(s) == "commit" \in DurableOps(s) \/ "abort" \in DurableOps(s) \/ NeverPrepares(s)

NeverNewer == \A s \in Shard : \A t \in Term(s) : txnState[s][t] # "newer"

OpenUnfinished ==
  \A s \in Shard : \A t \in Term(s) :
    TransactionIsOpen(s, t) => ~Has(s, t, "commit") /\ ~Has(s, t, "abort")

(* An acknowledgement tells the coordinator that the shard is settled, and  *)
(* the document is deleted when all have acknowledged.                      *)
AcksSettled == \A t \in Term(Self) : \A s \in coordinator[t].acks : Settled(s)

DeletesSettled ==
  (\E t \in Term(Self) : Has(Self, t, "delete")) => \A s \in Shard : Settled(s)

ForgottenInv == NeverNewer /\ OpenUnfinished /\ AcksSettled /\ DeletesSettled

--------------------
(* What a step may do: nothing to the oplogs; an entry about the document;  *)
(* an entry about the transaction; or a failover.                           *)
AcksSettle ==
  \A t \in Term(Self) : \A s \in coordinator'[t].acks : s \in coordinator[t].acks \/ Settled(s)'

AcksKept == \A t \in Term(Self) : coordinator'[t].acks \subseteq coordinator[t].acks

NoWrite ==
  /\ log' = log
  /\ \/ txnState' = txnState
     \/ \E s \in Shard : \E t \in Term(s) : \E state \in {"aborted", "none"} : Becomes(s, t, state)
  /\ AcksSettle

DocumentWrite ==
  \E t \in primaries[Self] : \E op \in DocumentOps : \E ts \in Nat :
    /\ Writes(Self, t, op, ts)
    /\ op = "delete" => coordinator[t].acks = Shard
    /\ txnState' = txnState /\ AcksKept

ParticipantWrite ==
  \E s \in Shard : \E t \in primaries[s] : \E op \in ParticipantOps : \E ts \in Nat :
    /\ Writes(s, t, op, ts)
    /\ \/ op = "prepare" /\ txnState[s][t] = "inProgress" /\ Becomes(s, t, "prepared")
       \/ op = "commit" /\ Becomes(s, t, "committed")
       \/ op = "abort" /\ Becomes(s, t, "aborted")
    /\ coordinator' = coordinator

StepEffect == NoWrite \/ DocumentWrite \/ ParticipantWrite \/ \E s \in Shard : Failover(s)

--------------------
(* A transaction that is in progress was so before.                         *)
LEMMA FirstStateKept ==
  ASSUME CommitInv, StepEffect, NEW s \in Shard, NEW t \in Term(s), txnState'[s][t] = "inProgress"
  PROVE  txnState[s][t] = "inProgress"
<1>0. TransactionTypeOK /\ LogInv
  BY DEF CommitInv
<1>1. ASSUME NEW r \in Shard, NEW u \in Term(r), NEW state \in TransactionState \ {"inProgress"},
             Becomes(r, u, state)
      PROVE  txnState[s][t] = "inProgress"
  BY <1>0, <1>1, BecomesEffect
<1>2. CASE txnState' = txnState
  BY <1>2
<1>3. CASE NoWrite
  BY <1>1, <1>2, <1>3 DEF NoWrite, TransactionState
<1>4. CASE DocumentWrite
  BY <1>2, <1>4 DEF DocumentWrite
<1>5. CASE ParticipantWrite
  <2>1. \A r \in Shard : primaries[r] \subseteq Term(r)
    BY <1>0, ShardBasics
  <2> QED BY <1>1, <1>5, <2>1 DEF ParticipantWrite, TransactionState
<1>6. ASSUME NEW r \in Shard, Failover(r)
      PROVE  txnState[s][t] = "inProgress"
  <2>1. PICK h \in ElectableLogs(r) :
          NewPrimary(r, h) /\ Becomes(r, term[r] + 1, RefreshedState({h[i].op : i \in DOMAIN h}))
    BY <1>6 DEF Failover
  <2>2. term[r] + 1 \in Term(r)
    BY <1>0, <2>1, ElectsEffect
  <2>3. \A ops : RefreshedState(ops) \in TransactionState \ {"inProgress"}
    BY DEF RefreshedState, TransactionState
  <2> QED BY <1>1, <2>1, <2>2, <2>3
<1> QED BY <1>3, <1>4, <1>5, <1>6 DEF StepEffect

(* The first primary writes its prepare entry only while the transaction is *)
(* in progress.                                                             *)
LEMMA FirstPrepareKept ==
  ASSUME CommitInv, StepEffect, NEW s \in Shard, Has(s, 1, "prepare")'
  PROVE  Has(s, 1, "prepare") \/ txnState[s][1] = "inProgress"
<1>0. LogInv /\ 1 \in Term(s) /\ Self \in Shard
  BY OneIsTerm, SelfIsShard DEF CommitInv
<1>1. CASE NoWrite
  BY <1>0, <1>1, NothingAdded DEF NoWrite
<1>2. CASE DocumentWrite
  BY <1>0, <1>2, WriteAdds DEF DocumentWrite, DocumentOps, OplogOps
<1>3. CASE ParticipantWrite
  BY <1>0, <1>3, WriteAdds DEF ParticipantWrite, ParticipantOps, OplogOps
<1>4. ASSUME NEW r \in Shard, Failover(r)
      PROVE  Has(s, 1, "prepare")
  <2>1. PICK h \in ElectableLogs(r) : NewPrimary(r, h)
    BY <1>4 DEF Failover
  <2>2. term[r] + 1 # 1
    BY <1>0, ShardBasics
  <2> QED BY <1>0, <2>1, <2>2, ElectionAdds
<1> QED BY <1>1, <1>2, <1>3, <1>4 DEF StepEffect

(* A settled shard stays settled.                                           *)
LEMMA SettledStays ==
  ASSUME CommitInv, [Next]_vars, StepEffect, NEW s \in Shard, Settled(s)
  PROVE  Settled(s)'
<1>0. LogInv /\ ShardStep /\ LogInv' /\ EntriesJustified' /\ 1 \in Term(s)
  BY NextIsShardStep, CommitNextInv, OneIsTerm DEF CommitInv
<1>1. CASE NeverPrepares(s)
  <2>1. NeverPrepares(s)'
    BY <1>0, <1>1, FirstStateKept, FirstPrepareKept, NeverPreparesStays
  <2> QED BY <2>1 DEF Settled
<1>2. CASE "commit" \in DurableOps(s)
  <2>1. ("commit" \in DurableOps(s))'
    BY <1>0, <1>2, DurableOpStays
  <2> QED BY <2>1 DEF Settled
<1>3. CASE "abort" \in DurableOps(s)
  <2>1. ("abort" \in DurableOps(s))'
    BY <1>0, <1>3, DurableOpStays
  <2> QED BY <2>1 DEF Settled
<1> QED BY <1>1, <1>2, <1>3 DEF Settled

(* A settled shard is not prepared, neither durably nor on its latest       *)
(* primary.                                                                 *)
LEMMA SettledNotPrepared ==
  ASSUME CommitInv, OpenUnfinished, NEW s \in Shard, Settled(s)
  PROVE  DurableOutcome[s] # "prepared" /\ txnState[s][term[s]] # "prepared"
<1>0. /\ LogInv /\ EntriesJustified /\ term[s] \in Term(s) /\ 1 \in Term(s)
      /\ commitIndex[s] \in Nat /\ commitIndex[s] <= LastIndex(s, term[s])
      /\ LastIndex(s, term[s]) \in Nat /\ LastIndex(s, 1) \in Nat
  BY ShardBasics, OneIsTerm DEF CommitInv
<1>1. \A op \in DurableOps(s) : Has(s, term[s], op)
  BY DurableInLog DEF Has
<1>2. CASE NeverPrepares(s)
  <2>1. DurableOutcome[s] # "prepared"
    <3>1. "prepare" \notin DurableOps(s)
      BY <1>2 DEF NeverPrepares, DurablyPrepared
    <3>2. ~("commit" \in DurableOps(s) /\ "abort" \in DurableOps(s))
      BY DurableInLog, OutcomeJustified
    <3> QED BY <3>1, <3>2, OutcomeCases DEF OutcomesOf, OutcomeOf
  <2>2. ~Has(s, term[s], "prepare")
    <3> SUFFICES ASSUME NEW i \in 1 .. LastIndex(s, term[s]), log[s][term[s]][i].op = "prepare"
                 PROVE  FALSE
      BY DEF Has
    <3>1. log[s][term[s]][i].term = 1
      BY <1>0 DEF EntriesJustified, EntryJustified
    <3>2. EntryMatches(s, term[s], i)
      BY <1>0 DEF LogInv, LogMatching
    <3>3. i <= LastIndex(s, 1) /\ \A j \in 1 .. i : log[s][1][j] = log[s][term[s]][j]
      BY <3>1, <3>2 DEF EntryMatches
    <3>4. i \in 1 .. LastIndex(s, 1) /\ i \in 1 .. i
      BY <1>0, <3>3
    <3>5. Has(s, 1, "prepare")
      BY <3>3, <3>4 DEF Has
    <3>6. PICK k \in 1 .. commitIndex[s] : log[s][term[s]][k].term > 1
      BY <1>2, <3>5 DEF NeverPrepares
    <3>7. ~(i <= commitIndex[s])
      BY <1>0, <1>2 DEF NeverPrepares, DurablyPrepared, DurableOps
    <3>8. k \in 1 .. i /\ k \in 1 .. LastIndex(s, 1)
      BY <1>0, <3>3, <3>7
    <3>9. EntryMatches(s, 1, k)
      BY <1>0, <3>8 DEF LogInv, LogMatching
    <3>10. log[s][1][k].term \in 1 .. 1
      BY <3>9 DEF EntryMatches
    <3> QED BY <3>3, <3>6, <3>8, <3>10
  <2>3. StateLogged(s, term[s], txnState[s][term[s]])
    BY <1>0 DEF CommitInv, StatesLogged
  <2> QED BY <2>1, <2>2, <2>3 DEF StateLogged
<1>3. CASE "commit" \in DurableOps(s) \/ "abort" \in DurableOps(s)
  <2>1. ~("commit" \in DurableOps(s) /\ "abort" \in DurableOps(s))
    BY DurableInLog, OutcomeJustified
  <2>2. DurableOutcome[s] # "prepared"
    BY <1>3, <2>1, OutcomeCases DEF OutcomesOf, OutcomeOf
  <2>3. txnState[s][term[s]] # "prepared"
    BY <1>0, <1>1, <1>3 DEF OpenUnfinished, TransactionIsOpen
  <2> QED BY <2>2, <2>3
<1> QED BY <1>2, <1>3 DEF Settled

--------------------
(* No session goes on to a newer transaction.                               *)
LEMMA NeverNewerStays ==
  ASSUME CommitInv, NeverNewer, StepEffect
  PROVE  NeverNewer'
<1> SUFFICES ASSUME NEW s \in Shard, NEW t \in Term(s)
             PROVE  txnState'[s][t] # "newer"
  BY DEF NeverNewer
<1>0. TransactionTypeOK /\ LogInv /\ txnState[s][t] # "newer"
  BY DEF CommitInv, NeverNewer
<1>1. ASSUME NEW r \in Shard, NEW u \in Term(r), NEW state \in TransactionState \ {"newer"},
             Becomes(r, u, state)
      PROVE  txnState'[s][t] # "newer"
  BY <1>0, <1>1, BecomesEffect
<1>2. CASE txnState' = txnState
  BY <1>0, <1>2
<1>3. CASE NoWrite
  BY <1>1, <1>2, <1>3 DEF NoWrite, TransactionState
<1>4. CASE DocumentWrite
  BY <1>2, <1>4 DEF DocumentWrite
<1>5. CASE ParticipantWrite
  <2>1. \A r \in Shard : primaries[r] \subseteq Term(r)
    BY <1>0, ShardBasics
  <2> QED BY <1>1, <1>5, <2>1 DEF ParticipantWrite, TransactionState
<1>6. ASSUME NEW r \in Shard, Failover(r)
      PROVE  txnState'[s][t] # "newer"
  <2>1. PICK h \in ElectableLogs(r) :
          NewPrimary(r, h) /\ Becomes(r, term[r] + 1, RefreshedState({h[i].op : i \in DOMAIN h}))
    BY <1>6 DEF Failover
  <2>2. term[r] + 1 \in Term(r)
    BY <1>0, <2>1, ElectsEffect
  <2>3. \A ops : RefreshedState(ops) \in TransactionState \ {"newer"}
    BY DEF RefreshedState, TransactionState
  <2> QED BY <1>1, <2>1, <2>2, <2>3
<1> QED BY <1>3, <1>4, <1>5, <1>6 DEF StepEffect

(* A transaction that a new primary finds prepared has not ended in the     *)
(* oplog it starts from.                                                    *)
LEMMA RefreshedUnfinished ==
  ASSUME CommitInv, NEW r \in Shard, NEW h \in ElectableLogs(r), NewPrimary(r, h),
         RefreshedState({h[i].op : i \in DOMAIN h}) = "prepared",
         NEW n \in Term(r), n = term[r] + 1
  PROVE  ~Has(r, n, "commit")' /\ ~Has(r, n, "abort")'
<1> DEFINE ops == {h[i].op : i \in DOMAIN h}
<1>0. LogInv
  BY DEF CommitInv
<1>1. /\ h \in Seq(OplogEntry) /\ Len(log'[r][n]) = Len(h) + 1
      /\ \A i \in 1 .. Len(h) : log'[r][n][i] = h[i]
      /\ log'[r][n][Len(h) + 1] = [term |-> n, op |-> "newPrimary", ts |-> 0]
  BY <1>0, ElectsEffect
<1>2. "commit" \notin ops /\ "abort" \notin ops
  <2> HIDE DEF ops
  <2> QED BY DEF RefreshedState, ops
<1>3. ASSUME NEW op \in {"commit", "abort"}, Has(r, n, op)'
      PROVE  FALSE
  <2>1. Len(h) \in Nat /\ DOMAIN h = 1 .. Len(h) /\ LastIndex(r, n)' = Len(h) + 1
    BY <1>1 DEF LastIndex
  <2>2. PICK i \in 1 .. LastIndex(r, n)' : log'[r][n][i].op = op
    BY <1>3 DEF Has
  <2>3. CASE i = Len(h) + 1
    BY <1>1, <2>2, <2>3
  <2>4. CASE i \in 1 .. Len(h)
    BY <1>1, <1>2, <2>1, <2>2, <2>4
  <2> QED BY <2>1, <2>3, <2>4
<1> QED BY <1>3

(* A transaction that is open on a primary has not ended in its oplog.      *)
LEMMA OpenUnfinishedStays ==
  ASSUME CommitInv, OpenUnfinished, StepEffect
  PROVE  OpenUnfinished'
<1> SUFFICES ASSUME NEW s \in Shard, NEW t \in Term(s), TransactionIsOpen(s, t)',
                    NEW op \in {"commit", "abort"}, Has(s, t, op)'
             PROVE  FALSE
  BY DEF OpenUnfinished
<1>0. TransactionTypeOK /\ LogInv /\ Self \in Shard
  BY SelfIsShard DEF CommitInv
<1>1. TransactionIsOpen(s, t) => ~Has(s, t, op)
  BY DEF OpenUnfinished
<1>2. ASSUME NEW r \in Shard, NEW u \in Term(r), NEW state \in TransactionState, Becomes(r, u, state)
      PROVE  txnState'[s][t] = IF s = r /\ t = u THEN state ELSE txnState[s][t]
  BY <1>0, <1>2, BecomesEffect
<1>3. CASE NoWrite
  <2>1. Has(s, t, op)
    BY <1>3, NothingAdded DEF NoWrite
  <2>2. TransactionIsOpen(s, t)
    BY <1>2, <1>3 DEF NoWrite, TransactionState, TransactionIsOpen
  <2> QED BY <1>1, <2>1, <2>2
<1>4. CASE DocumentWrite
  <2>1. Has(s, t, op)
    BY <1>0, <1>4, WriteAdds DEF DocumentWrite, DocumentOps, OplogOps
  <2>2. TransactionIsOpen(s, t)
    BY <1>4 DEF DocumentWrite, TransactionIsOpen
  <2> QED BY <1>1, <2>1, <2>2
<1>5. CASE ParticipantWrite
  <2>1. PICK r \in Shard : \E u \in primaries[r] : \E o \in ParticipantOps : \E ts \in Nat :
          /\ Writes(r, u, o, ts)
          /\ \/ o = "prepare" /\ txnState[r][u] = "inProgress" /\ Becomes(r, u, "prepared")
             \/ o = "commit" /\ Becomes(r, u, "committed")
             \/ o = "abort" /\ Becomes(r, u, "aborted")
    BY <1>5 DEF ParticipantWrite
  <2>2. PICK u \in primaries[r] : \E o \in ParticipantOps : \E ts \in Nat :
          /\ Writes(r, u, o, ts)
          /\ \/ o = "prepare" /\ txnState[r][u] = "inProgress" /\ Becomes(r, u, "prepared")
             \/ o = "commit" /\ Becomes(r, u, "committed")
             \/ o = "abort" /\ Becomes(r, u, "aborted")
    BY <2>1
  <2>3. PICK o \in ParticipantOps : \E ts \in Nat :
          /\ Writes(r, u, o, ts)
          /\ \/ o = "prepare" /\ txnState[r][u] = "inProgress" /\ Becomes(r, u, "prepared")
             \/ o = "commit" /\ Becomes(r, u, "committed")
             \/ o = "abort" /\ Becomes(r, u, "aborted")
    BY <2>2
  <2>4. u \in Term(r) /\ o \in OplogOps
    BY <1>0, ShardBasics DEF OplogOps
  <2>5. Has(s, t, op) \/ (s = r /\ t = u /\ op = o)
    BY <1>0, <2>3, <2>4, WriteAdds
  <2>6. CASE s = r /\ t = u
    <3>1. o = "prepare" /\ txnState[s][t] = "inProgress"
      BY <1>2, <2>3, <2>4, <2>6 DEF TransactionState, TransactionIsOpen
    <3>2. Has(s, t, op)
      BY <2>5, <3>1
    <3> QED BY <1>1, <3>1, <3>2 DEF TransactionIsOpen
  <2>7. CASE ~(s = r /\ t = u)
    <3>1. TransactionIsOpen(s, t)
      BY <1>2, <2>3, <2>4, <2>7 DEF TransactionState, TransactionIsOpen
    <3> QED BY <1>1, <2>5, <2>7, <3>1
  <2> QED BY <2>6, <2>7
<1>6. ASSUME NEW r \in Shard, Failover(r)
      PROVE  FALSE
  <2>1. PICK h \in ElectableLogs(r) :
          NewPrimary(r, h) /\ Becomes(r, term[r] + 1, RefreshedState({h[i].op : i \in DOMAIN h}))
    BY <1>6 DEF Failover
  <2>2. PICK n \in Term(r) : n = term[r] + 1
    BY <1>0, <2>1, ElectsEffect
  <2>3. \A ops : RefreshedState(ops) \in TransactionState \ {"inProgress"}
    BY DEF RefreshedState, TransactionState
  <2>4. CASE s = r /\ t = n
    <3>1. RefreshedState({h[i].op : i \in DOMAIN h}) = "prepared"
      BY <1>2, <2>1, <2>2, <2>3, <2>4 DEF TransactionIsOpen
    <3> QED BY <2>1, <2>2, <2>4, <3>1, RefreshedUnfinished
  <2>5. CASE ~(s = r /\ t = n)
    <3>1. Has(s, t, op)
      BY <1>0, <2>1, <2>2, <2>5, ElectionAdds
    <3>2. TransactionIsOpen(s, t)
      BY <1>2, <2>1, <2>2, <2>3, <2>5 DEF TransactionIsOpen
    <3> QED BY <1>1, <3>1, <3>2
  <2> QED BY <2>4, <2>5
<1> QED BY <1>3, <1>4, <1>5, <1>6 DEF StepEffect

(* Every shard that has acknowledged is settled.                            *)
LEMMA AcksSettledStays ==
  ASSUME CommitInv, [Next]_vars, AcksSettled, StepEffect
  PROVE  AcksSettled'
<1>0. /\ coordinator \in [Term(Self) -> Coordinator] /\ coordinator' \in [Term(Self) -> Coordinator]
      /\ \A t \in Term(Self) : coordinator[t].acks \subseteq Shard
  <2>1. TransactionTypeOK /\ TransactionTypeOK'
    BY CommitNextInv DEF CommitInv
  <2> QED BY <2>1 DEF TransactionTypeOK, Coordinator, Self
<1>1. ASSUME AcksSettle PROVE AcksSettled'
  BY <1>0, <1>1, SettledStays DEF AcksSettle, AcksSettled, Self
<1>2. ASSUME AcksKept PROVE AcksSettle
  BY <1>0, <1>2, SettledStays DEF AcksKept, AcksSettle
<1>3. CASE NoWrite
  BY <1>1, <1>3 DEF NoWrite
<1>4. CASE DocumentWrite
  BY <1>1, <1>2, <1>4 DEF DocumentWrite
<1>5. CASE ParticipantWrite
  BY <1>1, <1>2, <1>5 DEF ParticipantWrite, AcksKept
<1>6. ASSUME NEW r \in Shard, Failover(r)
      PROVE  AcksKept
  <2>1. coordinator' = IF r = Self THEN [coordinator EXCEPT ![term[r] + 1].step = "recovering"]
                                   ELSE coordinator
    BY <1>6 DEF Failover
  <2> QED BY <1>0, <2>1 DEF AcksKept, Coordinator
<1> QED BY <1>1, <1>2, <1>3, <1>4, <1>5, <1>6 DEF StepEffect

(* A document is deleted, by this primary or in the history of a later one, *)
(* only when all shards are settled.                                        *)
LEMMA DeletesSettledStays ==
  ASSUME CommitInv, [Next]_vars, AcksSettled, DeletesSettled, StepEffect
  PROVE  DeletesSettled'
<1> SUFFICES ASSUME NEW t \in Term(Self), Has(Self, t, "delete")'
             PROVE  \A s \in Shard : Settled(s)
  BY SettledStays DEF DeletesSettled, Self
<1>0. LogInv /\ Self \in Shard /\ primaries[Self] \subseteq Term(Self)
  BY SelfIsShard, ShardBasics DEF CommitInv
<1>1. ASSUME NEW u \in Term(Self), Has(Self, u, "delete") PROVE \A s \in Shard : Settled(s)
  BY <1>1 DEF DeletesSettled
<1>2. CASE NoWrite
  BY <1>0, <1>1, <1>2, NothingAdded DEF NoWrite
<1>3. CASE DocumentWrite
  <2>1. PICK u \in primaries[Self] : \E op \in DocumentOps : \E ts \in Nat :
          Writes(Self, u, op, ts) /\ (op = "delete" => coordinator[u].acks = Shard)
    BY <1>3 DEF DocumentWrite
  <2>2. PICK op \in DocumentOps : \E ts \in Nat :
          Writes(Self, u, op, ts) /\ (op = "delete" => coordinator[u].acks = Shard)
    BY <2>1
  <2>3. op \in OplogOps
    BY DEF OplogOps
  <2>4. Has(Self, t, "delete") \/ op = "delete"
    BY <1>0, <2>2, <2>3, WriteAdds
  <2> QED BY <1>0, <1>1, <2>2, <2>4 DEF AcksSettled
<1>4. CASE ParticipantWrite
  <2>1. Has(Self, t, "delete")
    BY <1>0, <1>4, WriteAdds DEF ParticipantWrite, ParticipantOps, OplogOps
  <2> QED BY <1>1, <2>1
<1>5. ASSUME NEW r \in Shard, Failover(r)
      PROVE  \E u \in Term(Self) : Has(Self, u, "delete")
  <2>1. Elects(r)
    BY <1>5 DEF Failover, Elects
  <2>2. PICK i \in 1 .. LastIndex(Self, t)' : log'[Self][t][i].op = "delete"
    BY DEF Has
  <2>3. OldEntry(Self, t, i)
    <3>1. OldEntry(Self, t, i) \/ log'[Self][t][i] = [term |-> t, op |-> "newPrimary", ts |-> 0]
      BY <1>0, <2>1, ElectsOrigin
    <3> QED BY <2>2, <3>1
  <2> QED BY <1>0, <2>2, <2>3 DEF OldEntry, Has
<1> QED BY <1>1, <1>2, <1>3, <1>4, <1>5 DEF StepEffect

--------------------
(* The clients and sessions for which the property holds.                   *)
Plain == ClientApiVersion = FALSE /\ SessionMovesOn = {}

(* Without a new acknowledgement there is nothing to show.                  *)
LEMMA KeptAreSettled ==
  ASSUME CommitInv, AcksKept
  PROVE  AcksSettle
BY DEF AcksKept, AcksSettle

(* The steps of the coordinator itself add no acknowledgement.              *)
LEMMA CoordinatorKeepsAcks ==
  ASSUME CommitInv, NEW t \in Term(Self),
         \/ CoordinatorStep(t) \/ Deadline(t) \/ Client(t)
  PROVE  AcksKept
<1>0. coordinator \in [Term(Self) -> Coordinator] /\ coordinator[t] \in Coordinator
  BY DEF CommitInv, TransactionTypeOK
<1>1. ASSUME NEW c, c.acks \subseteq coordinator[t].acks, coordinator' = [coordinator EXCEPT ![t] = c]
      PROVE  AcksKept
  BY <1>0, <1>1 DEF AcksKept
<1>2. ASSUME coordinator' = coordinator
      PROVE  AcksKept
  BY <1>2 DEF AcksKept
<1>3. NoCoordinator.acks = {}
  BY DEF NoCoordinator
<1>4. CASE \/ SendPrepare(t) \/ PersistParticipantsList(t) \/ PersistDecision(t)
           \/ SendDecision(t) \/ RunCommit(t)
  <2>1. CASE SendPrepare(t) \/ SendDecision(t)
    BY <1>0, <2>1 DEF SendPrepare, SendDecision, AcksKept, Coordinator
  <2>2. CASE PersistParticipantsList(t)
    BY <1>0, <2>2 DEF PersistParticipantsList, AcksKept, Coordinator
  <2>3. CASE PersistDecision(t)
    BY <1>0, <2>3 DEF PersistDecision, AcksKept, Coordinator
  <2>4. CASE RunCommit(t)
    BY <1>0, <2>4 DEF RunCommit, AcksKept, Coordinator
  <2> QED BY <1>4, <2>1, <2>2, <2>3, <2>4
<1>5. CASE \/ AbandonParticipantsList(t) \/ DecideVotes(t) \/ DeleteCoordinatorDoc(t)
           \/ DeleteCoordinatorDocFails(t)
  <2>1. coordinator'[t].acks = {} /\ \A u \in Term(Self) : u # t => coordinator'[u] = coordinator[u]
    BY <1>0, <1>5 DEF AbandonParticipantsList, DecideVotes, DeleteCoordinatorDoc, DeleteCoordinatorDocFails,
                     NoCoordinator
  <2> QED BY <2>1 DEF AcksKept
<1>6. CASE OnStepUp(t)
  <2>1. ContinueCommit(Document(t)).acks = {}
    BY DEF ContinueCommit, NoCoordinator
  <2> QED BY <1>1, <1>6, <2>1 DEF OnStepUp
<1>7. CASE CancelIfCommitNotYetStarted(t)
  BY <1>1, <1>3, <1>7 DEF CancelIfCommitNotYetStarted
<1>8. CASE Deadline(t)
  <2>1. \A u \in Term(Self) : coordinator'[u].acks \subseteq coordinator[u].acks
    BY <1>0, <1>3, <1>8 DEF Deadline, ReachDeadline, Coordinator
  <2> QED BY <2>1 DEF AcksKept
<1>9. CASE \/ AbortLocalParticipant(t)
           \/ \E w \in ClientWriteConcerns : AnswerDecision(t, w) \/ RecoverFromLocalParticipant(t, w)
  BY <1>2, <1>9 DEF AnswerDecision, AbortLocalParticipant, RecoverFromLocalParticipant, coordinatorVars
<1> QED BY <1>4, <1>5, <1>6, <1>7, <1>8, <1>9 DEF CoordinatorStep, Client

(* The effect of a step of the coordinator, its deadline or its clients.    *)
LEMMA CoordinatorEffect ==
  ASSUME CommitInv, NEW t \in Term(Self), CoordinatorStep(t) \/ Deadline(t) \/ Client(t)
  PROVE  StepEffect
<1>0. AcksKept /\ AcksSettle
  BY CoordinatorKeepsAcks, KeptAreSettled
<1>1. ASSUME log' = log, txnState' = txnState PROVE StepEffect
  BY <1>0, <1>1 DEF StepEffect, NoWrite
<1>2. ASSUME t \in primaries[Self], UNCHANGED <<term, primaries, commitIndex, txnState>>,
             NEW op \in DocumentOps, NEW ts \in Nat, log' = Appended(Self, t, op, ts),
             op = "delete" => coordinator[t].acks = Shard
      PROVE  StepEffect
  <2>1. Writes(Self, t, op, ts)
    BY <1>2 DEF Writes
  <2> QED BY <1>0, <1>2, <2>1 DEF StepEffect, DocumentWrite
<1>3. CASE CoordinatorStep(t) /\ (PersistParticipantsList(t) \/ AbandonParticipantsList(t))
  <2>1. /\ t \in primaries[Self]
        /\ log' = log \/ log' = Appended(Self, t, "participants", 0)
        /\ UNCHANGED <<term, primaries, commitIndex, txnState>>
    BY <1>3 DEF PersistParticipantsList, AbandonParticipantsList, At, CoordinatorStep
  <2> QED BY <1>1, <1>2, <2>1 DEF DocumentOps
<1>4. CASE CoordinatorStep(t) /\ PersistDecision(t)
  <2> DEFINE op == DecisionOp(coordinator[t].decision)
             ts == coordinator[t].ts
  <2>1. /\ t \in primaries[Self]
        /\ log' = log \/ log' = Appended(Self, t, op, ts)
        /\ UNCHANGED <<term, primaries, commitIndex, txnState>>
    BY <1>4 DEF PersistDecision, At, CoordinatorStep
  <2>2. op \in DocumentOps /\ op # "delete"
    BY DEF DecisionOp, DocumentOps
  <2>3. ts \in Nat
    BY DEF CommitInv, TransactionTypeOK, Coordinator
  <2> HIDE DEF op, ts
  <2> QED BY <1>1, <1>2, <2>1, <2>2, <2>3
<1>5. CASE CoordinatorStep(t) /\ DeleteCoordinatorDoc(t)
  <2>1. /\ t \in primaries[Self] /\ log' = Appended(Self, t, "delete", 0)
        /\ UNCHANGED <<term, primaries, commitIndex, txnState>> /\ coordinator[t].acks = Shard
    BY <1>5 DEF DeleteCoordinatorDoc, At, CoordinatorStep
  <2> QED BY <1>2, <2>1 DEF DocumentOps
<1>6. CASE /\ CoordinatorStep(t)
           /\ \/ SendPrepare(t) \/ DecideVotes(t) \/ SendDecision(t) \/ OnStepUp(t)
              \/ DeleteCoordinatorDocFails(t)
  BY <1>1, <1>6 DEF CoordinatorStep, SendPrepare, DecideVotes, SendDecision, OnStepUp,
                    DeleteCoordinatorDocFails, shardVars
<1>7. CASE Deadline(t)
  BY <1>1, <1>7 DEF Deadline, ReachDeadline, shardVars
<1>8. CASE Client(t)
  <2>1. CASE AbortLocalParticipant(t)
    <3>1. log' = log /\ Becomes(Self, t, "aborted")
      BY <2>1 DEF AbortLocalParticipant, shardVars
    <3> QED BY <1>0, <3>1, SelfIsShard DEF StepEffect, NoWrite
  <2>2. CASE ~AbortLocalParticipant(t)
    BY <1>1, <1>8, <2>2 DEF Client, RunCommit, CancelIfCommitNotYetStarted, AnswerDecision,
                            RecoverFromLocalParticipant, shardVars
  <2> QED BY <2>1, <2>2
<1> QED BY <1>3, <1>4, <1>5, <1>6, <1>7, <1>8 DEF CoordinatorStep

--------------------
(* A participant acknowledges commitTransaction only when its commit is     *)
(* durable: NoSuchTransaction cannot be the answer of a primary that is up  *)
(* to date.                                                                 *)
LEMMA CommitAckSettled ==
  ASSUME CommitInv, NeverNewer, Plain, NEW s \in Shard, NEW t \in Term(s), NEW r \in requests,
         CommitCommand(s, t, r), CommitDurable(s, t) \/ Rejected(s, t, r)
  PROVE  Settled(s)
<1>1. /\ t \in primaries[s] /\ r.op = "commit" /\ LogInv /\ DocumentOrder /\ EntriesJustified
      /\ StateLogged(s, t, txnState[s][t]) /\ txnState[s][t] \in TransactionState
      /\ txnState[s][t] # "newer"
  BY PrimaryParticipant DEF CommitCommand, Executes, CommitInv, TransactionTypeOK, NeverNewer
<1>2. CASE CommitDurable(s, t)
  <2>1. Has(s, t, "commit") /\ Durable(s, t, AwaitedIndex(s, t, "commit"))
    BY <1>1, <1>2 DEF CommitDurable, StateLogged
  <2> QED BY <1>1, <2>1, AwaitedIsDurable DEF Settled
<1>3. CASE Rejected(s, t, r)
  <2>1. NoSuchTransaction(s, t, "commit", "majority")
    BY <1>1, <1>3 DEF Rejected, APIMismatch, ApiParametersMatch, Plain, TransactionTooOld
  <2>2. txnState[s][t] \in {"none", "aborted"} /\ NoopDurable(s, t)
    BY <1>1, <2>1 DEF NoSuchTransaction, TransactionIsOpen, TransactionState
  <2>3. CASE Has(s, t, "abort")
    <3>1. DurablyAborts
      BY <1>1, <2>3 DEF Has, EntriesJustified, EntryJustified
    <3>2. DurablyCommits(r.ts)
      BY <1>1, RequestTyped DEF RequestSound
    <3> QED BY <1>1, <3>1, <3>2, OneDecision
  <2>4. CASE ~Has(s, t, "abort")
    BY <1>1, <2>2, <2>4, GoneForGood DEF Settled
  <2> QED BY <2>3, <2>4
<1> QED BY <1>2, <1>3

(* A participant acknowledges abortTransaction when its abort is durable,   *)
(* or when it knows, durably, that it never prepared.                       *)
LEMMA AbortAckSettled ==
  ASSUME CommitInv, NeverNewer, Plain, NEW s \in Shard, NEW t \in Term(s), NEW r \in requests,
         AbortCommand(s, t, r), AbortDurable(s, t) \/ Rejected(s, t, r)
  PROVE  Settled(s)
<1>1. /\ t \in primaries[s] /\ r.op = "abort" /\ LogInv /\ DocumentOrder /\ EntriesJustified
      /\ StateLogged(s, t, txnState[s][t]) /\ txnState[s][t] \in TransactionState
      /\ txnState[s][t] # "newer" /\ commitIndex[s] \in Nat
  BY PrimaryParticipant, ShardBasics DEF AbortCommand, Executes, CommitInv, TransactionTypeOK, NeverNewer
<1>2. CASE AbortDurable(s, t)
  <2>1. PICK i \in 1 .. LastIndex(s, t) : log[s][t][i].op = "abort" /\ Durable(s, t, i)
    BY <1>2 DEF AbortDurable, Indices
  <2>2. i <= commitIndex[s] /\ \A j \in 1 .. i : log[s][t][j] = log[s][term[s]][j]
    BY <1>1, <2>1, DurablePrefix
  <2>3. i \in 1 .. commitIndex[s] /\ i \in 1 .. i
    BY <1>1, <2>2
  <2> QED BY <2>1, <2>2, <2>3 DEF Settled, DurableOps
<1>3. CASE Rejected(s, t, r)
  <2>1. NoSuchTransaction(s, t, "abort", "majority")
    BY <1>1, <1>3 DEF Rejected, APIMismatch, ApiParametersMatch, Plain, TransactionTooOld
  <2>2. txnState[s][t] \in {"none", "aborted", "committed"} /\ NoopDurable(s, t)
    BY <1>1, <2>1 DEF NoSuchTransaction, TransactionIsOpen, TransactionState
  <2>3. CASE Has(s, t, "abort")
    BY <2>2, <2>3 DEF Has, NoopDurable, Settled, DurableOps
  <2>4. CASE ~Has(s, t, "abort") /\ txnState[s][t] = "committed"
    <3>1. PICK i \in 1 .. LastIndex(s, t) : log[s][t][i].op = "commit"
      BY <1>1, <2>4 DEF StateLogged, Has
    <3>2. DurablyCommits(log[s][t][i].ts)
      BY <1>1, <3>1 DEF EntriesJustified, EntryJustified
    <3>3. DurablyAborts
      BY <1>1, RequestTyped DEF RequestSound
    <3> QED BY <1>1, <3>2, <3>3, OneDecision
  <2>5. CASE ~Has(s, t, "abort") /\ txnState[s][t] # "committed"
    BY <1>1, <2>2, <2>5, GoneForGood DEF Settled
  <2> QED BY <2>3, <2>4, <2>5
<1> QED BY <1>2, <1>3

(* abortTransaction of an unprepared transaction leaves a shard that never  *)
(* prepares.                                                                *)
LEMMA AbortedUnpreparedSettled ==
  ASSUME CommitInv, NEW s \in Shard, NEW t \in primaries[s], AbortUnprepared(s, t),
         UNCHANGED <<term, primaries, commitIndex>>, CommitInv'
  PROVE  Settled(s)'
<1>1. /\ t \in Term(s) /\ StateLogged(s, t, "inProgress") /\ TransactionTypeOK
      /\ txnState[s][t] = "inProgress" /\ log' = log /\ Becomes(s, t, "aborted")
      /\ "aborted" \in TransactionState
  BY PrimaryParticipant DEF AbortUnprepared, CommitInv, TransactionState
<1>2. t = 1 /\ ~Has(s, 1, "prepare")
  BY <1>1 DEF StateLogged
<1>3. txnState'[s][1] # "inProgress" /\ ~Has(s, 1, "prepare")'
  BY <1>1, <1>2, BecomesEffect, NothingAdded
<1>4. ~DurablyPrepared(s)'
  <2>1. LogInv' /\ EntriesJustified'
    BY DEF CommitInv
  <2>2. PrepareFirst'
    BY <2>1, PrepareIsFirst, PTL
  <2> QED BY <1>3, <2>2 DEF PrepareFirst, DurablyPrepared, DurableOps
<1> QED BY <1>3, <1>4 DEF Settled, NeverPrepares

(* A response that is lost adds no acknowledgement.                         *)
LEMMA UnansweredKeeps ==
  ASSUME coordinator' = coordinator
  PROVE  AcksKept
BY DEF AcksKept

(* A vote adds no acknowledgement.                                          *)
LEMMA VoteKeeps ==
  ASSUME CommitInv, NEW s \in Shard, NEW r, VotesAbort(s, r) \/ VotesCommit(s, r)
  PROVE  AcksKept
<1>0. /\ coordinator \in [Term(Self) -> Coordinator]
      /\ r.epoch \in Term(Self)
  <2>1. r.epoch \in primaries[Self]
    BY DEF VotesAbort, VotesCommit, AwaitsVote, At
  <2> QED BY <2>1, PrimaryCoordinator
<1>1. CASE VotesAbort(s, r)
  BY <1>0, <1>1 DEF VotesAbort, RegisterAbortVote, AcksKept, Coordinator
<1>2. CASE VotesCommit(s, r)
  BY <1>0, <1>2 DEF VotesCommit, RegisterCommitVote, AcksKept, Coordinator
<1> QED BY <1>1, <1>2

(* A response of a settled shard adds its acknowledgement.                  *)
LEMMA AckSettles ==
  ASSUME CommitInv, NEW s \in Shard, NEW r, Acks(s, r), Settled(s)'
  PROVE  AcksSettle
<1>0. /\ coordinator \in [Term(Self) -> Coordinator]
      /\ r.epoch \in Term(Self)
  <2>1. r.epoch \in primaries[Self]
    BY DEF Acks, AwaitsAck, At
  <2> QED BY <2>1, PrimaryCoordinator
<1>1. \A u \in Term(Self) : coordinator'[u].acks \subseteq coordinator[u].acks \cup {s}
  BY <1>0 DEF Acks, RegisterAck, Coordinator
<1> QED BY <1>1 DEF AcksSettle

(* A step that changes nothing of a shard leaves it settled.                *)
LEMMA SettledUnchanged ==
  ASSUME UNCHANGED <<term, primaries, log, commitIndex, txnState>>, NEW s \in Shard, Settled(s)
  PROVE  Settled(s)'
BY DEF Settled, NeverPrepares, DurablyPrepared, DurableOps, Has, LastIndex

(* The effect of a command.                                                 *)
LEMMA CommandEffect ==
  ASSUME CommitInv, CommitInv', NeverNewer, Plain, NEW s \in Shard, NEW t \in Term(s), Command(s, t)
  PROVE  StepEffect
<1>1. PICK r \in requests : PrepareCommand(s, t, r) \/ CommitCommand(s, t, r) \/ AbortCommand(s, t, r)
  BY DEF Command
<1>2. t \in primaries[s] /\ UNCHANGED <<term, primaries, commitIndex>>
  BY <1>1 DEF PrepareCommand, CommitCommand, AbortCommand, Executes
<1>3. ASSUME log' = log, AcksSettle, txnState' = txnState \/ Becomes(s, t, "aborted")
      PROVE  StepEffect
  BY <1>3 DEF StepEffect, NoWrite
<1>4. ASSUME coordinator' = coordinator, NEW op \in ParticipantOps, NEW ts \in Nat,
             log' = Appended(s, t, op, ts),
             \/ op = "prepare" /\ txnState[s][t] = "inProgress" /\ Becomes(s, t, "prepared")
             \/ op = "commit" /\ Becomes(s, t, "committed")
             \/ op = "abort" /\ Becomes(s, t, "aborted")
      PROVE  StepEffect
  <2>1. Writes(s, t, op, ts)
    BY <1>2, <1>4 DEF Writes
  <2> QED BY <1>2, <1>4, <2>1 DEF StepEffect, ParticipantWrite
<1>5. CASE PrepareCommand(s, t, r)
  <2>1. CASE PrepareTransaction(s, t) /\ Unanswered
    <3>1. PrepareTimestamp[s] \in Nat /\ "prepare" \in ParticipantOps
      BY ParticipantAssumption DEF ParticipantOps
    <3> QED BY <1>4, <2>1, <3>1 DEF PrepareTransaction, Unanswered
  <2>2. CASE PrepareFails(s, t) /\ (VotesAbort(s, r) \/ Unanswered)
    BY <1>3, <2>2, VoteKeeps, UnansweredKeeps, KeptAreSettled DEF PrepareFails, Unanswered
  <2>3. CASE (VotesCommit(s, r) \/ VotesAbort(s, r)) /\ UNCHANGED <<log, txnState>>
    BY <1>3, <2>3, VoteKeeps, KeptAreSettled
  <2>4. Rejected(s, t, r) => UNCHANGED <<log, txnState>>
    BY DEF Rejected, shardVars
  <2> QED BY <1>5, <2>1, <2>2, <2>3, <2>4 DEF PrepareCommand
<1>6. CASE CommitCommand(s, t, r)
  <2>1. CASE CommitPreparedTransaction(s, t, r.ts) /\ Unanswered
    <3>1. r.ts \in Nat /\ "commit" \in ParticipantOps
      BY RequestTyped DEF ParticipantOps
    <3> QED BY <1>4, <2>1, <3>1 DEF CommitPreparedTransaction, Unanswered
  <2>2. Rejected(s, t, r) => UNCHANGED <<log, txnState>>
    BY DEF Rejected, shardVars
  <2>3. CASE (CommitDurable(s, t) \/ Rejected(s, t, r)) /\ Acks(s, r) /\ UNCHANGED <<log, txnState>>
    <3>1. Settled(s)
      BY <1>6, <2>3, CommitAckSettled
    <3>2. Settled(s)'
      BY <1>2, <2>3, <3>1, SettledUnchanged
    <3> QED BY <1>3, <2>3, <3>2, AckSettles
  <2> QED BY <1>6, <2>1, <2>2, <2>3 DEF CommitCommand
<1>7. CASE AbortCommand(s, t, r)
  <2>1. CASE AbortPreparedTransaction(s, t) /\ Unanswered
    <3>1. 0 \in Nat /\ "abort" \in ParticipantOps
      BY DEF ParticipantOps
    <3> QED BY <1>4, <2>1, <3>1 DEF AbortPreparedTransaction, Unanswered
  <2>2. Rejected(s, t, r) => UNCHANGED <<log, txnState>>
    BY DEF Rejected, shardVars
  <2>3. CASE (AbortDurable(s, t) \/ Rejected(s, t, r)) /\ Acks(s, r) /\ UNCHANGED <<log, txnState>>
    <3>1. Settled(s)
      BY <1>7, <2>3, AbortAckSettled
    <3>2. Settled(s)'
      BY <1>2, <2>3, <3>1, SettledUnchanged
    <3> QED BY <1>3, <2>3, <3>2, AckSettles
  <2>4. CASE AbortUnprepared(s, t) /\ (Acks(s, r) \/ Unanswered)
    <3>1. Settled(s)'
      BY <1>2, <2>4, AbortedUnpreparedSettled
    <3>2. AcksSettle
      BY <2>4, <3>1, AckSettles, UnansweredKeeps, KeptAreSettled DEF Unanswered
    <3> QED BY <1>3, <2>4, <3>2 DEF AbortUnprepared
  <2> QED BY <1>7, <2>1, <2>2, <2>3, <2>4 DEF AbortCommand
<1> QED BY <1>1, <1>5, <1>6, <1>7

(* Every step is one of the four kinds.                                     *)
LEMMA NextEffect ==
  ASSUME CommitInv, NeverNewer, Plain, [Next]_vars
  PROVE  StepEffect
<1>0. CommitInv'
  BY CommitNextInv
<1>1. ASSUME NEW s \in Shard, Replication(s)
      PROVE  StepEffect
  BY <1>1, UnansweredKeeps, KeptAreSettled DEF Replication, Replicate, coordinatorVars, StepEffect, NoWrite
<1>2. ASSUME NEW s \in Shard, NEW t \in Term(s), Expire(s, t)
      PROVE  StepEffect
  BY <1>2, UnansweredKeeps, KeptAreSettled
     DEF Expire, ExpireTransaction, coordinatorVars, shardVars, StepEffect, NoWrite
<1>3. ASSUME NEW s \in Shard, NEW t \in Term(s), StepDown(s, t)
      PROVE  StepEffect
  <2>1. coordinator \in [Term(Self) -> Coordinator]
    BY DEF CommitInv, TransactionTypeOK
  <2>2. AcksKept
    BY <1>3, <2>1 DEF StepDown, AcksKept, NoCoordinator
  <2> QED BY <1>3, <2>2, KeptAreSettled DEF StepDown, StopPrimary, StepEffect, NoWrite
<1>4. ASSUME NEW s \in Shard, NEW t \in Term(s), MoveOn(s, t)
      PROVE  StepEffect
  BY <1>4 DEF MoveOn, NewerTransaction, Plain
<1>5. CASE UNCHANGED vars
  BY <1>5, UnansweredKeeps, KeptAreSettled DEF vars, coordinatorVars, shardVars, StepEffect, NoWrite
<1>6. ASSUME NEW s \in Shard, Failover(s)
      PROVE  StepEffect
  BY <1>6 DEF StepEffect
<1> QED BY <1>0, <1>1, <1>2, <1>3, <1>4, <1>5, <1>6, CoordinatorEffect, CommandEffect DEF Next, System

(* The invariant holds initially.                                           *)
LEMMA ForgottenInit == ASSUME Init PROVE ForgottenInv
<1>1. \A s \in Shard : \A t \in Term(s) : txnState[s][t] # "newer" /\ LastIndex(s, t) = 0
  BY DEF Init, InitParticipants, InitShards, LastIndex
<1>2. \A s \in Shard : \A t \in Term(s) : \A op : ~Has(s, t, op)
  BY <1>1 DEF Has
<1>3. \A t \in Term(Self) : coordinator[t].acks = {}
  BY DEF Init, InitCoordinator, NoCoordinator
<1> QED BY <1>1, <1>2, <1>3, SelfIsShard
           DEF ForgottenInv, NeverNewer, OpenUnfinished, AcksSettled, DeletesSettled

(* Every step keeps the invariant.                                          *)
LEMMA ForgottenNext ==
  ASSUME Plain, CommitInv, ForgottenInv, [Next]_vars
  PROVE  ForgottenInv'
<1>1. NeverNewer /\ OpenUnfinished /\ AcksSettled /\ DeletesSettled /\ StepEffect
  BY NextEffect DEF ForgottenInv
<1> QED BY <1>1, NeverNewerStays, OpenUnfinishedStays, AcksSettledStays, DeletesSettledStays DEF ForgottenInv

(* The coordinator document is deleted only when no participant is left     *)
(* prepared, now or later, however the commands, responses and failovers    *)
(* interleave: for clients without API parameters and sessions that do not  *)
(* go on to a newer transaction.                                            *)
THEOREM ForgottenWhenSettled ==
  ASSUME Plain
  PROVE  Spec => []NonePreparedWhenForgotten
<1>1. Init => ForgottenInv
  BY ForgottenInit
<1>2. CommitInv /\ ForgottenInv /\ [Next]_vars => ForgottenInv'
  BY ForgottenNext
<1>3. CommitInv /\ ForgottenInv => NonePreparedWhenForgotten
  <2> SUFFICES ASSUME CommitInv, ForgottenInv, NEW t \in Term(Self), Indices(Self, t, {"delete"}) # {},
                      NEW s \in Shard
               PROVE  DurableOutcome[s] # "prepared" /\ txnState[s][term[s]] # "prepared"
    BY DEF NonePreparedWhenForgotten
  <2>1. Has(Self, t, "delete")
    BY DEF Indices, Has
  <2>2. Settled(s) /\ OpenUnfinished
    BY <2>1 DEF ForgottenInv, DeletesSettled
  <2> QED BY <2>2, SettledNotPrepared
<1> QED BY <1>1, <1>2, <1>3, CommitInvariance, PTL DEF Spec
====================
