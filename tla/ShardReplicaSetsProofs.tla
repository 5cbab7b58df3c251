------------ MODULE ShardReplicaSetsProofs ------------
(***************************************************************************)
(* What the oplogs of module ShardReplicaSets keep through writes,         *)
(* replication and failovers.                                              *)
(***************************************************************************)
EXTENDS ShardReplicaSets, SequenceTheorems, WellFoundedInduction, TLAPS

OplogOps == DocumentOps \cup ParticipantOps \cup {"newPrimary"}

(* The shards' part of the type invariant, with the domains.                *)
ShardsTypeOK ==
  /\ term \in [Shard -> Nat]
  /\ DOMAIN primaries = Shard /\ DOMAIN log = Shard /\ DOMAIN commitIndex = Shard
  /\ \A s \in Shard :
       /\ term[s] \in Term(s)
       /\ primaries[s] \subseteq 1 .. term[s]
       /\ log[s] \in [Term(s) -> Seq(OplogEntry)]
       /\ commitIndex[s] \in 0 .. LastIndex(s, term[s])

(* An entry of term u in the oplog of t comes, with all that is before it,  *)
(* from the primary of u.                                                   *)
EntryMatches(s, t, i) ==
  /\ log[s][t][i].term \in 1 .. t
  /\ i <= LastIndex(s, log[s][t][i].term)
  /\ \A j \in 1 .. i : log[s][log[s][t][i].term][j] = log[s][t][j]

(* The oplogs of a shard: a primary yet to be elected has none, every       *)
(* primary but the first has written in its term, and all entries match.    *)
LogMatching(s) ==
  /\ \A t \in Term(s) : t > term[s] => log[s][t] = <<>>
  /\ \A t \in 2 .. term[s] : \E i \in 1 .. LastIndex(s, t) : log[s][t][i].term = t
  /\ \A t \in Term(s) : \A i \in 1 .. LastIndex(s, t) : EntryMatches(s, t, i)

LogInv == ShardsTypeOK /\ \A s \in Shard : LogMatching(s)

(* The primary of term t of shard s writes one entry.                       *)
Writes(s, t, op, ts) ==
  /\ log' = Appended(s, t, op, ts)
  /\ UNCHANGED <<term, primaries, commitIndex>>

(* All that can happen to a shard.                                          *)
Elects(s) == \E history \in ElectableLogs(s) : NewPrimary(s, history)

ShardStep ==
  \/ UNCHANGED shardVars
  \/ \E s \in Shard : \E t \in primaries[s] : \E op \in OplogOps : \E ts \in Nat :
       Writes(s, t, op, ts)
  \/ \E s \in Shard : Replicate(s)
  \/ \E s \in Shard : Elects(s)
  \/ \E s \in Shard : \E t \in Term(s) : StopPrimary(s, t)

--------------------
Less == {p \in Nat \X Nat : p[1] < p[2]}

(* The order of the naturals is well-founded.                               *)
LEMMA LessWellFounded == IsWellFoundedOn(Less, Nat)
<1>1. Less = OpToRel(<, Nat)
  BY Zenon DEF OpToRel, Less
<1> QED BY <1>1, NatLessThanWellFounded, Zenon

(* A set of naturals that is not empty has a least element.                 *)
LEMMA LeastNatural ==
  ASSUME NEW T, T \subseteq Nat, T # {}
  PROVE  \E x \in T : \A y \in T : x <= y
<1>1. PICK x \in T : \A y \in T : <<y, x>> \notin Less
  BY WFMin, LessWellFounded, Zenon
<1>2. ASSUME NEW y \in T
      PROVE  x <= y
  <2>1. <<y, x>> \in Nat \X Nat /\ x \in Nat /\ y \in Nat
    OBVIOUS
  <2>2. ~(y < x)
    BY <1>1, <2>1 DEF Less
  <2> QED BY <2>1, <2>2
<1> QED BY <1>2

(* An append, by its elements.                                              *)
LEMMA AppendSeq ==
  ASSUME NEW S, NEW q \in Seq(S), NEW x \in S
  PROVE  /\ Append(q, x) \in Seq(S) /\ Len(Append(q, x)) = Len(q) + 1
         /\ \A i \in 1 .. Len(q) : Append(q, x)[i] = q[i]
         /\ Append(q, x)[Len(q) + 1] = x
BY AppendProperties

(* A prefix, by its elements.                                               *)
LEMMA PrefixSeq ==
  ASSUME NEW S, NEW q \in Seq(S), NEW k \in 0 .. Len(q)
  PROVE  /\ SubSeq(q, 1, k) \in Seq(S) /\ Len(SubSeq(q, 1, k)) = k
         /\ \A i \in 1 .. k : SubSeq(q, 1, k)[i] = q[i]
BY SubSeqProperties

--------------------
(* A write adds one entry of its own term to the oplog of one primary, and  *)
(* changes no other.                                                        *)
LEMMA WriteEffect ==
  ASSUME LogInv, NEW s \in Shard, NEW t \in primaries[s], NEW op \in OplogOps, NEW ts \in Nat,
         Writes(s, t, op, ts)
  PROVE  /\ t \in Term(s) /\ t <= term[s]
         /\ DOMAIN log' = Shard
         /\ \A s2 \in Shard : log'[s2] \in [Term(s2) -> Seq(OplogEntry)]
         /\ \A s2 \in Shard : \A t2 \in Term(s2) : s2 # s \/ t2 # t => log'[s2][t2] = log[s2][t2]
         /\ LastIndex(s, t)' = LastIndex(s, t) + 1
         /\ \A i \in 1 .. LastIndex(s, t) : log'[s][t][i] = log[s][t][i]
         /\ log'[s][t][LastIndex(s, t) + 1] = [term |-> t, op |-> op, ts |-> ts]
<1> DEFINE e == [term |-> t, op |-> op, ts |-> ts]
           q == log[s][t]
<1>1. t \in Term(s) /\ t <= term[s] /\ t \in Nat
  <2>1. MaxTerm[s] \in Nat /\ term[s] \in Nat
    BY ShardAssumption DEF LogInv, ShardsTypeOK
  <2> QED BY <2>1 DEF LogInv, ShardsTypeOK, Term
<1>2. e \in OplogEntry
  BY <1>1 DEF OplogEntry, OplogOps
<1>3. q \in Seq(OplogEntry)
  BY <1>1 DEF LogInv, ShardsTypeOK
<1>4. /\ Append(q, e) \in Seq(OplogEntry) /\ Len(Append(q, e)) = Len(q) + 1
      /\ \A i \in 1 .. Len(q) : Append(q, e)[i] = q[i]
      /\ Append(q, e)[Len(q) + 1] = e
  BY <1>2, <1>3, AppendSeq
<1> DEFINE a == Append(q, e)
<1>5. log' = [log EXCEPT ![s] = [log[s] EXCEPT ![t] = a]]
  BY DEF Writes, Appended
<1>6. a \in Seq(OplogEntry) /\ Len(a) = Len(q) + 1
      /\ (\A i \in 1 .. Len(q) : a[i] = q[i]) /\ a[Len(q) + 1] = e
  BY <1>4
<1> HIDE DEF a, e
<1>7. /\ DOMAIN log = Shard
      /\ \A s2 \in Shard : log[s2] \in [Term(s2) -> Seq(OplogEntry)]
  BY DEF LogInv, ShardsTypeOK
<1>8. /\ DOMAIN log' = Shard
      /\ \A s2 \in Shard : log'[s2] = IF s2 = s THEN [log[s] EXCEPT ![t] = a] ELSE log[s2]
  BY <1>5, <1>7
<1>9. log'[s][t] = a
  BY <1>1, <1>7, <1>8
<1>10. \A s2 \in Shard : \A t2 \in Term(s2) : s2 # s \/ t2 # t => log'[s2][t2] = log[s2][t2]
  BY <1>1, <1>7, <1>8
<1>11. \A s2 \in Shard : log'[s2] \in [Term(s2) -> Seq(OplogEntry)]
  BY <1>1, <1>6, <1>7, <1>8
<1> QED BY <1>1, <1>6, <1>8, <1>9, <1>10, <1>11 DEF LastIndex, e

(* The oplog of a new primary: a history that has all that is majority      *)
(* committed, taken from the oplog of some earlier term, and one entry of   *)
(* its own.                                                                 *)
LEMMA ElectsEffect ==
  ASSUME LogInv, NEW s \in Shard, NEW history \in ElectableLogs(s), NewPrimary(s, history)
  PROVE  LET n == term[s] + 1 IN
         /\ n \in Term(s)
         /\ history \in Seq(OplogEntry) /\ Len(history) >= commitIndex[s]
         /\ \A i \in 1 .. commitIndex[s] : history[i] = log[s][term[s]][i]
         /\ \E u \in 1 .. term[s] :
              Len(history) <= LastIndex(s, u) /\ \A i \in 1 .. Len(history) : history[i] = log[s][u][i]
         /\ DOMAIN log' = Shard
         /\ \A s2 \in Shard : log'[s2] \in [Term(s2) -> Seq(OplogEntry)]
         /\ \A s2 \in Shard : \A t2 \in Term(s2) : s2 # s \/ t2 # n => log'[s2][t2] = log[s2][t2]
         /\ Len(log'[s][n]) = Len(history) + 1
         /\ \A i \in 1 .. Len(history) : log'[s][n][i] = history[i]
         /\ log'[s][n][Len(history) + 1] = [term |-> n, op |-> "newPrimary", ts |-> 0]
<1> DEFINE n == term[s] + 1
           e == [term |-> n, op |-> "newPrimary", ts |-> 0]
<1>1. n \in Term(s) /\ n \in Nat /\ term[s] \in Nat
  BY DEF NewPrimary, LogInv, ShardsTypeOK, Term
<1>2. e \in OplogEntry
  BY <1>1 DEF OplogEntry
<1>3. PICK u \in 1 .. term[s] : \E k \in commitIndex[s] .. LastIndex(s, u) :
        history = SubSeq(log[s][u], 1, k)
  BY DEF ElectableLogs
<1>4. PICK k \in commitIndex[s] .. LastIndex(s, u) : history = SubSeq(log[s][u], 1, k)
  BY <1>3
<1>5. /\ log[s][u] \in Seq(OplogEntry) /\ log[s][term[s]] \in Seq(OplogEntry)
      /\ commitIndex[s] \in Nat /\ commitIndex[s] <= Len(log[s][term[s]])
      /\ Len(log[s][term[s]]) \in Nat
  <2>1. MaxTerm[s] \in Nat /\ term[s] \in Term(s)
    BY ShardAssumption DEF LogInv, ShardsTypeOK
  <2>2. u \in Term(s)
    BY <1>1, <2>1 DEF Term
  <2>3. log[s] \in [Term(s) -> Seq(OplogEntry)]
    BY DEF LogInv, ShardsTypeOK
  <2>4. log[s][u] \in Seq(OplogEntry) /\ log[s][term[s]] \in Seq(OplogEntry)
    BY <2>1, <2>2, <2>3
  <2>5. commitIndex[s] \in 0 .. LastIndex(s, term[s])
    BY DEF LogInv, ShardsTypeOK
  <2> QED BY <2>4, <2>5 DEF LastIndex
<1>6. /\ history \in Seq(OplogEntry) /\ Len(history) = k
      /\ \A i \in 1 .. k : history[i] = log[s][u][i]
      /\ k \in Nat /\ k <= LastIndex(s, u) /\ commitIndex[s] <= k
  <2>1. LastIndex(s, u) \in Nat
    BY <1>5 DEF LastIndex
  <2>2. k \in 0 .. Len(log[s][u])
    BY <1>4, <1>5, <2>1 DEF LastIndex
  <2> QED BY <1>4, <1>5, <2>1, <2>2, PrefixSeq
<1>7. \A i \in 1 .. commitIndex[s] : history[i] = log[s][term[s]][i]
  <2>1. SubSeq(history, 1, commitIndex[s]) = SubSeq(log[s][term[s]], 1, commitIndex[s])
    BY DEF ElectableLogs, CommittedLog
  <2>2. \A i \in 1 .. commitIndex[s] : SubSeq(history, 1, commitIndex[s])[i] = history[i]
    BY <1>5, <1>6, PrefixSeq
  <2>3. \A i \in 1 .. commitIndex[s] :
          SubSeq(log[s][term[s]], 1, commitIndex[s])[i] = log[s][term[s]][i]
    BY <1>5, PrefixSeq
  <2> QED BY <2>1, <2>2, <2>3
<1> DEFINE a == Append(history, e)
<1>8. a \in Seq(OplogEntry) /\ Len(a) = Len(history) + 1
      /\ (\A i \in 1 .. Len(history) : a[i] = history[i]) /\ a[Len(history) + 1] = e
  BY <1>2, <1>6, AppendSeq
<1>9. log' = [log EXCEPT ![s] = [log[s] EXCEPT ![n] = a]]
  BY DEF NewPrimary
<1>10. /\ DOMAIN log = Shard
       /\ \A s2 \in Shard : log[s2] \in [Term(s2) -> Seq(OplogEntry)]
  BY DEF LogInv, ShardsTypeOK
<1> HIDE DEF a, e, n
<1>11. /\ DOMAIN log' = Shard
       /\ \A s2 \in Shard : log'[s2] = IF s2 = s THEN [log[s] EXCEPT ![n] = a] ELSE log[s2]
  BY <1>9, <1>10
<1>12. log'[s][n] = a
  BY <1>1, <1>10, <1>11
<1>13. \A s2 \in Shard : \A t2 \in Term(s2) : s2 # s \/ t2 # n => log'[s2][t2] = log[s2][t2]
  BY <1>1, <1>10, <1>11
<1>14. \A s2 \in Shard : log'[s2] \in [Term(s2) -> Seq(OplogEntry)]
  BY <1>1, <1>8, <1>10, <1>11
<1>15. /\ Len(log'[s][n]) = Len(history) + 1
       /\ \A i \in 1 .. Len(history) : log'[s][n][i] = history[i]
       /\ log'[s][n][Len(history) + 1] = e
  BY <1>8, <1>12 DEF LastIndex
<1> QED BY <1>1, <1>6, <1>7, <1>11, <1>13, <1>14, <1>15 DEF e, n

--------------------
(* The types of what the invariant says of one shard, in the form the       *)
(* provers need.                                                            *)
LEMMA ShardBasics ==
  ASSUME LogInv, NEW s \in Shard
  PROVE  /\ MaxTerm[s] \in Nat /\ term[s] \in Nat /\ term[s] \in Term(s) /\ term[s] > 0
         /\ commitIndex[s] \in Nat /\ commitIndex[s] <= LastIndex(s, term[s])
         /\ primaries[s] \subseteq Term(s)
         /\ Term(s) \subseteq Nat
         /\ \A t \in Term(s) : log[s][t] \in Seq(OplogEntry) /\ LastIndex(s, t) \in Nat
         /\ \A t \in Term(s) : \A i \in 1 .. LastIndex(s, t) : log[s][t][i] \in OplogEntry
<1>1. /\ MaxTerm[s] \in Nat /\ term[s] \in Nat /\ term[s] \in Term(s)
      /\ log[s] \in [Term(s) -> Seq(OplogEntry)]
      /\ commitIndex[s] \in 0 .. LastIndex(s, term[s])
      /\ primaries[s] \subseteq 1 .. term[s]
  BY ShardAssumption DEF LogInv, ShardsTypeOK
<1>2. \A t \in Term(s) : log[s][t] \in Seq(OplogEntry) /\ LastIndex(s, t) \in Nat
  BY <1>1 DEF LastIndex
<1>3. \A t \in Term(s) : \A i \in 1 .. LastIndex(s, t) : log[s][t][i] \in OplogEntry
  BY <1>2 DEF LastIndex
<1>4. primaries[s] \subseteq Term(s) /\ Term(s) \subseteq Nat /\ term[s] > 0
  BY <1>1 DEF Term
<1> QED BY <1>1, <1>2, <1>3, <1>4

LogsGrow ==
  \A s \in Shard : \A t \in Term(s) :
    /\ LastIndex(s, t) <= LastIndex(s, t)'
    /\ \A i \in 1 .. LastIndex(s, t) : log'[s][t][i] = log[s][t][i]

(* No step takes anything from an oplog.                                    *)
LEMMA StepGrows == ASSUME LogInv, ShardStep PROVE LogsGrow
<1> SUFFICES ASSUME NEW s \in Shard, NEW t \in Term(s)
             PROVE  /\ LastIndex(s, t) <= LastIndex(s, t)'
                    /\ \A i \in 1 .. LastIndex(s, t) : log'[s][t][i] = log[s][t][i]
  BY DEF LogsGrow
<1>0. LastIndex(s, t) \in Nat
  BY ShardBasics
<1>1. CASE log' = log
  BY <1>0, <1>1 DEF LastIndex
<1>2. ASSUME NEW r \in Shard, NEW u \in primaries[r], NEW op \in OplogOps, NEW ts \in Nat,
             Writes(r, u, op, ts)
      PROVE  /\ LastIndex(s, t) <= LastIndex(s, t)'
             /\ \A i \in 1 .. LastIndex(s, t) : log'[s][t][i] = log[s][t][i]
  <2>1. /\ s # r \/ t # u => log'[s][t] = log[s][t]
        /\ LastIndex(r, u)' = LastIndex(r, u) + 1
        /\ \A i \in 1 .. LastIndex(r, u) : log'[r][u][i] = log[r][u][i]
    BY <1>2, WriteEffect
  <2> QED BY <1>0, <2>1 DEF LastIndex
<1>3. ASSUME NEW r \in Shard, Elects(r)
      PROVE  /\ LastIndex(s, t) <= LastIndex(s, t)'
             /\ \A i \in 1 .. LastIndex(s, t) : log'[s][t][i] = log[s][t][i]
  <2>1. PICK h \in ElectableLogs(r) : NewPrimary(r, h)
    BY <1>3 DEF Elects
  <2>2. CASE s # r \/ t # term[r] + 1
    <3>1. log'[s][t] = log[s][t]
      BY <2>1, <2>2, ElectsEffect
    <3> QED BY <1>0, <3>1 DEF LastIndex
  <2>3. CASE s = r /\ t = term[r] + 1
    <3>1. log[s][t] = <<>>
      BY <2>3, ShardBasics DEF LogInv, LogMatching
    <3>2. Len(log'[s][t]) = Len(h) + 1 /\ h \in Seq(OplogEntry)
      BY <2>1, <2>3, ElectsEffect
    <3> QED BY <3>1, <3>2 DEF LastIndex
  <2> QED BY <2>2, <2>3
<1> QED BY <1>1, <1>2, <1>3 DEF ShardStep, shardVars, Replicate, StopPrimary

(* Replication moves the commit point of one shard forward, within the      *)
(* oplog of the latest primary.                                             *)
LEMMA ReplicateEffect ==
  ASSUME LogInv, NEW s \in Shard, Replicate(s)
  PROVE  /\ commitIndex'[s] \in commitIndex[s] + 1 .. LastIndex(s, term[s])
         /\ DOMAIN commitIndex' = Shard
         /\ \A r \in Shard : r # s => commitIndex'[r] = commitIndex[r]
         /\ UNCHANGED <<term, primaries, log>>
<1> DEFINE own == {i \in commitIndex[s] + 1 .. LastIndex(s, term[s]) : log[s][term[s]][i].term = term[s]}
           n == CHOOSE i \in own : \A j \in own : i <= j
<1>1. /\ own # {}
      /\ commitIndex' = [commitIndex EXCEPT ![s] = n]
      /\ UNCHANGED <<term, primaries, log>>
  BY DEF Replicate
<1>2. own \subseteq Nat
  BY ShardBasics
<1>3. \E i \in own : \A j \in own : i <= j
  <2> HIDE DEF own
  <2> QED BY <1>1, <1>2, LeastNatural
<1>4. n \in own
  BY <1>3
<1>5. n \in commitIndex[s] + 1 .. LastIndex(s, term[s])
  BY <1>4
<1> HIDE DEF n, own
<1>6. DOMAIN commitIndex = Shard
  BY DEF LogInv, ShardsTypeOK
<1> QED BY <1>1, <1>5, <1>6

(* What is majority committed stays so.                                     *)
DurableGrows ==
  \A s \in Shard :
    /\ commitIndex[s] <= commitIndex'[s] /\ commitIndex'[s] \in Nat
    /\ \A i \in 1 .. commitIndex[s] : log'[s][term'[s]][i] = log[s][term[s]][i]

(* What is majority committed is never lost, whoever is elected.            *)
LEMMA DurableStays == ASSUME LogInv, ShardStep PROVE DurableGrows
<1>0. ASSUME NEW s \in Shard
      PROVE  /\ commitIndex[s] \in Nat /\ LastIndex(s, term[s]) \in Nat
             /\ \A i \in 1 .. commitIndex[s] : log'[s][term[s]][i] = log[s][term[s]][i]
  BY StepGrows, ShardBasics DEF LogsGrow
<1> SUFFICES ASSUME NEW s \in Shard
             PROVE  /\ commitIndex[s] <= commitIndex'[s] /\ commitIndex'[s] \in Nat
                    /\ \A i \in 1 .. commitIndex[s] : log'[s][term'[s]][i] = log[s][term[s]][i]
  BY DEF DurableGrows
<1>1. CASE UNCHANGED <<term, commitIndex>>
  BY <1>0, <1>1
<1>2. ASSUME NEW r \in Shard, Replicate(r)
      PROVE  commitIndex[s] <= commitIndex'[s] /\ commitIndex'[s] \in Nat /\ term' = term
  <2>1. /\ commitIndex'[r] \in commitIndex[r] + 1 .. LastIndex(r, term[r])
        /\ s # r => commitIndex'[s] = commitIndex[s]
        /\ term' = term
    BY <1>2, ReplicateEffect
  <2>2. commitIndex[r] \in Nat /\ LastIndex(r, term[r]) \in Nat /\ commitIndex[s] \in Nat
    BY <1>0
  <2> QED BY <2>1, <2>2
<1>3. ASSUME NEW r \in Shard, Elects(r)
      PROVE  /\ commitIndex' = commitIndex
             /\ \A i \in 1 .. commitIndex[s] : log'[s][term'[s]][i] = log[s][term[s]][i]
  <2>1. PICK h \in ElectableLogs(r) : NewPrimary(r, h)
    BY <1>3 DEF Elects
  <2>2. term' = [term EXCEPT ![r] = term[r] + 1] /\ commitIndex' = commitIndex /\ term \in [Shard -> Nat]
    BY <2>1 DEF NewPrimary, LogInv, ShardsTypeOK
  <2>3. CASE s # r
    <3>1. term'[s] = term[s]
      BY <2>2, <2>3
    <3> QED BY <1>0, <2>2, <3>1
  <2>4. CASE s = r
    <3>1. term'[s] = term[s] + 1
      BY <2>2, <2>4
    <3>2. /\ h \in Seq(OplogEntry) /\ Len(h) >= commitIndex[s]
          /\ \A i \in 1 .. commitIndex[s] : h[i] = log[s][term[s]][i]
          /\ \A i \in 1 .. Len(h) : log'[s][term[s] + 1][i] = h[i]
      BY <2>1, <2>4, ElectsEffect
    <3>3. Len(h) \in Nat
      BY <3>2
    <3> QED BY <1>0, <2>2, <3>1, <3>2, <3>3
  <2> QED BY <2>3, <2>4
<1> QED BY <1>0, <1>1, <1>2, <1>3 DEF ShardStep, shardVars, Writes, StopPrimary

(* With an entry that is majority committed, all that is before it in that  *)
(* oplog is.                                                                *)
LEMMA DurablePrefix ==
  ASSUME LogInv, NEW s \in Shard, NEW t \in Term(s), NEW i \in 1 .. LastIndex(s, t), Durable(s, t, i)
  PROVE  /\ i <= commitIndex[s]
         /\ \A j \in 1 .. i : log[s][t][j] = log[s][term[s]][j]
<1> DEFINE u == log[s][t][i].term
<1>1. /\ i \in Nat /\ i > 0 /\ i <= commitIndex[s] /\ log[s][t][i] = log[s][term[s]][i]
  BY ShardBasics DEF Durable
<1>2. i \in 1 .. LastIndex(s, term[s]) /\ term[s] \in Term(s)
  BY <1>1, ShardBasics
<1>3. EntryMatches(s, t, i) /\ EntryMatches(s, term[s], i)
  BY <1>2 DEF LogInv, LogMatching
<1>4. \A j \in 1 .. i : log[s][u][j] = log[s][t][j] /\ log[s][u][j] = log[s][term[s]][j]
  BY <1>1, <1>3 DEF EntryMatches
<1> QED BY <1>1, <1>4

--------------------
(* Where the entries of an oplog after a step come from: the same place of  *)
(* an oplog before it, or the step has just written it.                     *)
OldEntry(s, t, i) ==
  \E u \in Term(s) :
    /\ u <= t /\ i <= LastIndex(s, u)
    /\ \A j \in 1 .. i : log'[s][t][j] = log[s][u][j]

(* After an election every entry was there before, at the same index, or is *)
(* the no-op of the new primary.                                            *)
LEMMA ElectsOrigin ==
  ASSUME LogInv, NEW r \in Shard, Elects(r),
         NEW s \in Shard, NEW t \in Term(s), NEW i \in 1 .. LastIndex(s, t)'
  PROVE  \/ OldEntry(s, t, i)
         \/ /\ s = r /\ t = term[r] + 1 /\ i = LastIndex(s, t)'
            /\ log'[s][t][i] = [term |-> t, op |-> "newPrimary", ts |-> 0]
<1>1. PICK h \in ElectableLogs(r) : NewPrimary(r, h)
  BY DEF Elects
<1>2. CASE s # r \/ t # term[r] + 1
  <2>1. log'[s][t] = log[s][t] /\ t \in Nat
    BY <1>1, <1>2, ElectsEffect, ShardBasics
  <2>2. t <= t /\ i <= LastIndex(s, t) /\ \A j \in 1 .. i : log'[s][t][j] = log[s][t][j]
    BY <2>1, ShardBasics DEF LastIndex
  <2> QED BY <2>2 DEF OldEntry
<1>3. CASE s = r /\ t = term[r] + 1
  <2>1. /\ h \in Seq(OplogEntry)
        /\ \E u \in 1 .. term[s] :
             Len(h) <= LastIndex(s, u) /\ \A j \in 1 .. Len(h) : h[j] = log[s][u][j]
        /\ Len(log'[s][t]) = Len(h) + 1
        /\ \A j \in 1 .. Len(h) : log'[s][t][j] = h[j]
        /\ log'[s][t][Len(h) + 1] = [term |-> t, op |-> "newPrimary", ts |-> 0]
    BY <1>1, <1>3, ElectsEffect
  <2>2. Len(h) \in Nat
    BY <2>1
  <2>3. CASE i = Len(h) + 1
    BY <1>3, <2>1, <2>3 DEF LastIndex
  <2>4. CASE i <= Len(h)
    <3>1. PICK u \in 1 .. term[s] :
            Len(h) <= LastIndex(s, u) /\ \A j \in 1 .. Len(h) : h[j] = log[s][u][j]
      BY <2>1
    <3>2. u \in Term(s) /\ u <= t
      BY <1>3, <3>1, ShardBasics DEF Term
    <3>3. LastIndex(s, u) \in Nat
      BY <3>2, ShardBasics
    <3>4. i <= LastIndex(s, u) /\ \A j \in 1 .. i : log'[s][t][j] = log[s][u][j]
      BY <2>1, <2>2, <2>4, <3>1, <3>3 DEF LastIndex
    <3> QED BY <3>2, <3>4 DEF OldEntry
  <2> QED BY <2>1, <2>2, <2>3, <2>4 DEF LastIndex
<1> QED BY <1>2, <1>3

(* After a write every entry was there before or is the one written.        *)
LEMMA WriteOrigin ==
  ASSUME LogInv, NEW r \in Shard, NEW v \in primaries[r], NEW op \in OplogOps, NEW ts \in Nat,
         Writes(r, v, op, ts),
         NEW s \in Shard, NEW t \in Term(s), NEW i \in 1 .. LastIndex(s, t)'
  PROVE  \/ i <= LastIndex(s, t) /\ log'[s][t][i] = log[s][t][i]
         \/ /\ s = r /\ t = v /\ i = LastIndex(s, t) + 1
            /\ log'[s][t][i] = [term |-> t, op |-> op, ts |-> ts]
<1>1. LastIndex(s, t) \in Nat
  BY ShardBasics
<1>2. CASE s # r \/ t # v
  <2>1. log'[s][t] = log[s][t]
    BY <1>2, WriteEffect
  <2> QED BY <1>1, <2>1 DEF LastIndex
<1>3. CASE s = r /\ t = v
  <2>1. /\ LastIndex(s, t)' = LastIndex(s, t) + 1
        /\ \A j \in 1 .. LastIndex(s, t) : log'[s][t][j] = log[s][t][j]
        /\ log'[s][t][LastIndex(s, t) + 1] = [term |-> t, op |-> op, ts |-> ts]
    BY <1>3, WriteEffect
  <2> QED BY <1>1, <1>3, <2>1
<1> QED BY <1>2, <1>3

(* After any step every entry was there before or is of the term of its     *)
(* oplog.                                                                   *)
LEMMA OldOrNew ==
  ASSUME LogInv, ShardStep,
         NEW s \in Shard, NEW t \in Term(s), NEW i \in 1 .. LastIndex(s, t)'
  PROVE  OldEntry(s, t, i) \/ log'[s][t][i].term = t
<1>0. t \in Nat /\ LastIndex(s, t) \in Nat
  BY ShardBasics
<1>1. CASE log' = log
  <2>1. t <= t /\ i <= LastIndex(s, t) /\ \A j \in 1 .. i : log'[s][t][j] = log[s][t][j]
    BY <1>0, <1>1 DEF LastIndex
  <2> QED BY <2>1 DEF OldEntry
<1>2. ASSUME NEW r \in Shard, NEW v \in primaries[r], NEW op \in OplogOps, NEW ts \in Nat,
             Writes(r, v, op, ts)
      PROVE  OldEntry(s, t, i) \/ log'[s][t][i].term = t
  <2>1. CASE i <= LastIndex(s, t)
    <3>1. \A j \in 1 .. i : log'[s][t][j] = log[s][t][j]
      BY <1>0, <2>1, StepGrows DEF LogsGrow
    <3> QED BY <1>0, <2>1, <3>1 DEF OldEntry
  <2>2. CASE ~(i <= LastIndex(s, t))
    <3>1. log'[s][t][i] = [term |-> t, op |-> op, ts |-> ts]
      BY <1>2, <2>2, WriteOrigin
    <3> QED BY <3>1
  <2> QED BY <2>1, <2>2
<1>3. ASSUME NEW r \in Shard, Elects(r)
      PROVE  OldEntry(s, t, i) \/ log'[s][t][i].term = t
  <2>1. CASE log'[s][t][i] = [term |-> t, op |-> "newPrimary", ts |-> 0]
    BY <2>1
  <2> QED BY <1>3, <2>1, ElectsOrigin
<1> QED BY <1>1, <1>2, <1>3 DEF ShardStep, shardVars, Replicate, StopPrimary

(* Every step keeps the types, and the commit point within the oplog of the *)
(* latest primary.                                                          *)
LEMMA StepTypes == ASSUME LogInv, ShardStep PROVE ShardsTypeOK'
<1> USE DEF LogInv, ShardsTypeOK
<1>0. \A s \in Shard : MaxTerm[s] \in Nat /\ LastIndex(s, term[s]) \in Nat
  BY ShardBasics
<1>1. CASE UNCHANGED shardVars
  BY <1>1 DEF shardVars, LastIndex
<1>2. ASSUME NEW r \in Shard, NEW v \in primaries[r], NEW op \in OplogOps, NEW ts \in Nat,
             Writes(r, v, op, ts)
      PROVE  ShardsTypeOK'
  <2>1. /\ UNCHANGED <<term, primaries, commitIndex>> /\ DOMAIN log' = Shard
        /\ \A s \in Shard : log'[s] \in [Term(s) -> Seq(OplogEntry)]
    BY <1>2, WriteEffect DEF Writes
  <2>2. ASSUME NEW s \in Shard
        PROVE  commitIndex'[s] \in 0 .. LastIndex(s, term[s])'
    <3>1. LastIndex(s, term[s]) <= LastIndex(s, term[s])'
      <4>1. \A t \in Term(s) : LastIndex(s, t) <= Len(log'[s][t])
        BY StepGrows DEF LogsGrow, LastIndex
      <4> QED BY <2>1, <4>1, ShardBasics DEF LastIndex
    <3>2. LastIndex(s, term[s])' \in Nat
      BY <2>1, ShardBasics DEF LastIndex
    <3> QED BY <1>0, <2>1, <3>1, <3>2, ShardBasics
  <2> QED BY <2>1, <2>2
<1>3. ASSUME NEW r \in Shard, Replicate(r)
      PROVE  ShardsTypeOK'
  <2>1. /\ UNCHANGED <<term, primaries, log>> /\ DOMAIN commitIndex' = Shard
        /\ commitIndex'[r] \in commitIndex[r] + 1 .. LastIndex(r, term[r])
        /\ \A s \in Shard : s # r => commitIndex'[s] = commitIndex[s]
    BY <1>3, ReplicateEffect
  <2>2. ASSUME NEW s \in Shard
        PROVE  commitIndex'[s] \in 0 .. LastIndex(s, term[s])'
    <3>1. LastIndex(s, term[s])' = LastIndex(s, term[s]) /\ LastIndex(s, term[s]) \in Nat
      BY <1>0, <2>1 DEF LastIndex
    <3>2. commitIndex[s] \in Nat /\ commitIndex[s] <= LastIndex(s, term[s])
      BY ShardBasics
    <3>3. CASE s = r
      BY <2>1, <3>1, <3>2, <3>3
    <3>4. CASE s # r
      BY <2>1, <3>1, <3>2, <3>4
    <3> QED BY <3>3, <3>4
  <2> QED BY <2>1, <2>2
<1>4. ASSUME NEW r \in Shard, Elects(r)
      PROVE  ShardsTypeOK'
  <2>1. PICK h \in ElectableLogs(r) : NewPrimary(r, h)
    BY <1>4 DEF Elects
  <2>2. /\ term[r] + 1 \in Term(r) /\ term[r] + 1 \in Nat /\ h \in Seq(OplogEntry)
        /\ Len(h) >= commitIndex[r] /\ DOMAIN log' = Shard
        /\ \A s \in Shard : log'[s] \in [Term(s) -> Seq(OplogEntry)]
        /\ \A s \in Shard : \A t \in Term(s) : s # r \/ t # term[r] + 1 => log'[s][t] = log[s][t]
        /\ Len(log'[r][term[r] + 1]) = Len(h) + 1
    <3> HIDE DEF LogInv, ShardsTypeOK
    <3>1. term[r] \in Nat
      BY ShardBasics
    <3>2. /\ term[r] + 1 \in Term(r) /\ h \in Seq(OplogEntry)
          /\ Len(h) >= commitIndex[r] /\ DOMAIN log' = Shard
          /\ Len(log'[r][term[r] + 1]) = Len(h) + 1
      BY <2>1, ElectsEffect
    <3>3. \A s \in Shard : log'[s] \in [Term(s) -> Seq(OplogEntry)]
      BY <2>1, ElectsEffect, Zenon
    <3>4. \A s \in Shard : \A t \in Term(s) : s # r \/ t # term[r] + 1 => log'[s][t] = log[s][t]
      BY <2>1, ElectsEffect
    <3> QED BY <3>1, <3>2, <3>3, <3>4
  <2>3. /\ term' = [term EXCEPT ![r] = term[r] + 1] /\ commitIndex' = commitIndex
        /\ primaries' = [primaries EXCEPT ![r] = @ \cup {term[r] + 1}]
    BY <2>1 DEF NewPrimary
  <2>4. term' \in [Shard -> Nat] /\ DOMAIN primaries' = Shard
    BY <2>2, <2>3
  <2>5. ASSUME NEW s \in Shard
        PROVE  /\ term'[s] \in Term(s) /\ primaries'[s] \subseteq 1 .. term'[s]
               /\ commitIndex'[s] \in 0 .. Len(log'[s][term'[s]])
    <3>1. CASE s # r
      <4>1. term'[s] = term[s] /\ primaries'[s] = primaries[s] /\ log'[s][term[s]] = log[s][term[s]]
        BY <2>2, <2>3, <3>1
      <4> QED BY <2>3, <4>1 DEF LastIndex
    <3>2. CASE s = r
      <4>1. /\ term'[s] = term[s] + 1 /\ primaries'[s] = primaries[s] \cup {term[s] + 1}
            /\ commitIndex'[s] = commitIndex[s]
        BY <2>3, <3>2
      <4>2. Len(h) \in Nat /\ Len(log'[s][term[s] + 1]) = Len(h) + 1
        BY <2>2, <3>2
      <4>3. commitIndex[s] \in Nat /\ primaries[s] \subseteq 1 .. term[s] /\ term[s] \in Nat
        BY ShardBasics
      <4> QED BY <2>2, <3>2, <4>1, <4>2, <4>3
    <3> QED BY <3>1, <3>2
  <2> QED BY <2>2, <2>3, <2>4, <2>5 DEF LastIndex
<1>5. ASSUME NEW r \in Shard, NEW t \in Term(r), StopPrimary(r, t)
      PROVE  ShardsTypeOK'
  BY <1>5 DEF StopPrimary, LastIndex
<1> QED BY <1>1, <1>2, <1>3, <1>4, <1>5 DEF ShardStep

(* Every step keeps the match of the oplogs: the same index and term mean   *)
(* the same history.                                                        *)
LEMMA StepMatches ==
  ASSUME LogInv, ShardStep,
         NEW s \in Shard, NEW t \in Term(s), NEW i \in 1 .. LastIndex(s, t)'
  PROVE  EntryMatches(s, t, i)'
<1>0. t \in Nat /\ t > 0
  BY ShardBasics DEF Term
<1>1. CASE log'[s][t][i].term = t
  BY <1>0, <1>1 DEF EntryMatches
<1>2. CASE OldEntry(s, t, i)
  <2>1. PICK u \in Term(s) :
          /\ u <= t /\ i <= LastIndex(s, u)
          /\ \A j \in 1 .. i : log'[s][t][j] = log[s][u][j]
    BY <1>2 DEF OldEntry
  <2>2. i \in Nat /\ i > 0 /\ u \in Nat /\ LastIndex(s, u) \in Nat
    BY <2>1, ShardBasics DEF Term
  <2>3. i \in 1 .. LastIndex(s, u) /\ log'[s][t][i] = log[s][u][i]
    BY <2>1, <2>2
  <2>4. EntryMatches(s, u, i)
    BY <2>3 DEF LogInv, LogMatching
  <2>5. PICK v \in 1 .. u : v = log[s][u][i].term
    BY <2>4 DEF EntryMatches
  <2>6. /\ log'[s][t][i].term = v /\ i <= LastIndex(s, v)
        /\ \A j \in 1 .. i : log[s][v][j] = log[s][u][j]
    BY <2>3, <2>4, <2>5 DEF EntryMatches
  <2>7. v \in Term(s) /\ v \in 1 .. t
    <3>1. MaxTerm[s] \in Nat
      BY ShardBasics
    <3> QED BY <1>0, <2>1, <2>2, <2>5, <3>1 DEF Term
  <2>8. /\ LastIndex(s, v) <= LastIndex(s, v)'
        /\ \A j \in 1 .. LastIndex(s, v) : log'[s][v][j] = log[s][v][j]
        /\ LastIndex(s, v) \in Nat
    BY <2>7, StepGrows, ShardBasics DEF LogsGrow
  <2>9. LastIndex(s, v)' \in Nat
    <3>1. log'[s][v] \in Seq(OplogEntry)
      BY <2>7, StepTypes DEF ShardsTypeOK
    <3> QED BY <3>1 DEF LastIndex
  <2>10. i <= LastIndex(s, v)' /\ \A j \in 1 .. i : log'[s][v][j] = log'[s][t][j]
    BY <2>1, <2>2, <2>6, <2>8, <2>9
  <2> QED BY <2>6, <2>7, <2>10 DEF EntryMatches
<1> QED BY <1>1, <1>2, OldOrNew

(* The oplogs of a shard match after every write, replication, election and *)
(* step down.                                                               *)
THEOREM ShardStepInv == ASSUME LogInv, ShardStep PROVE LogInv'
<1>1. ShardsTypeOK'
  BY StepTypes
<1>2. ASSUME NEW s \in Shard
      PROVE  LogMatching(s)'
  <2>0. MaxTerm[s] \in Nat /\ term[s] \in Nat /\ Term(s) \subseteq Nat
    BY ShardBasics
  <2>1. \A t \in Term(s) : \A i \in 1 .. LastIndex(s, t)' : EntryMatches(s, t, i)'
    BY StepMatches
  <2>2. /\ \A t \in Term(s) : t > term'[s] => log'[s][t] = <<>>
        /\ \A t \in 2 .. term'[s] : \E i \in 1 .. LastIndex(s, t)' : log'[s][t][i].term = t
    <3>a. ASSUME NEW t \in 2 .. term[s]
          PROVE  \E i \in 1 .. LastIndex(s, t)' : log'[s][t][i].term = t
      <4>1. t \in Term(s)
        BY <2>0, ShardBasics DEF Term
      <4>2. PICK i \in 1 .. LastIndex(s, t) : log[s][t][i].term = t
        BY DEF LogInv, LogMatching
      <4>3. /\ LastIndex(s, t) <= LastIndex(s, t)' /\ LastIndex(s, t) \in Nat
            /\ log'[s][t][i] = log[s][t][i]
        BY <4>1, StepGrows, ShardBasics DEF LogsGrow
      <4>4. LastIndex(s, t)' \in Nat
        BY <4>1, <1>1 DEF ShardsTypeOK, LastIndex
      <4> QED BY <4>2, <4>3, <4>4
    <3>b. \A t \in Term(s) : t > term[s] => log[s][t] = <<>>
      BY DEF LogInv, LogMatching
    <3>1. CASE UNCHANGED <<term, log>>
      BY <3>1, <3>a, <3>b
    <3>2. ASSUME NEW r \in Shard, NEW v \in primaries[r], NEW op \in OplogOps, NEW ts \in Nat,
                 Writes(r, v, op, ts)
          PROVE  term' = term /\ \A t \in Term(s) : t > term'[s] => log'[s][t] = <<>>
      <4>1. /\ v <= term[r] /\ v \in Term(r)
            /\ \A t \in Term(s) : s # r \/ t # v => log'[s][t] = log[s][t]
        BY <3>2, WriteEffect
      <4>2. term' = term /\ v \in Nat /\ term[r] \in Nat
        BY <3>2, <4>1, ShardBasics DEF Writes
      <4> QED BY <2>0, <3>b, <4>1, <4>2
    <3>3. ASSUME NEW r \in Shard, Elects(r)
          PROVE  /\ \A t \in Term(s) : t > term'[s] => log'[s][t] = <<>>
                 /\ \A t \in 2 .. term'[s] : \E i \in 1 .. LastIndex(s, t)' : log'[s][t][i].term = t
      <4>1. PICK h \in ElectableLogs(r) : NewPrimary(r, h)
        BY <3>3 DEF Elects
      <4>2. /\ h \in Seq(OplogEntry)
            /\ \A t \in Term(s) : s # r \/ t # term[r] + 1 => log'[s][t] = log[s][t]
            /\ Len(log'[r][term[r] + 1]) = Len(h) + 1
            /\ log'[r][term[r] + 1][Len(h) + 1] = [term |-> term[r] + 1, op |-> "newPrimary", ts |-> 0]
        BY <4>1, ElectsEffect
      <4>3. term' = [term EXCEPT ![r] = term[r] + 1] /\ term \in [Shard -> Nat]
        BY <4>1 DEF NewPrimary, LogInv, ShardsTypeOK
      <4>4. CASE s # r
        <5>1. term'[s] = term[s] /\ \A t \in Term(s) : log'[s][t] = log[s][t]
          BY <4>2, <4>3, <4>4
        <5> QED BY <3>a, <3>b, <5>1
      <4>5. CASE s = r
        <5>1. term'[s] = term[s] + 1
          BY <4>3, <4>5
        <5>2. \A t \in Term(s) : t > term'[s] => log'[s][t] = <<>>
          BY <2>0, <3>b, <4>2, <5>1
        <5>3. ASSUME NEW t \in 2 .. term'[s], t = term[s] + 1
              PROVE  \E i \in 1 .. LastIndex(s, t)' : log'[s][t][i].term = t
          <6>1. Len(h) \in Nat /\ Len(log'[s][t]) = Len(h) + 1 /\ log'[s][t][Len(h) + 1].term = t
            BY <4>2, <4>5, <5>3
          <6> QED BY <6>1 DEF LastIndex
        <5> QED BY <2>0, <3>a, <5>1, <5>2, <5>3
      <4> QED BY <4>4, <4>5
    <3> QED BY <3>1, <3>2, <3>3, <3>a DEF ShardStep, shardVars, Replicate, StopPrimary
  <2> QED BY <2>1, <2>2 DEF LogMatching
<1> QED BY <1>1, <1>2 DEF LogInv

(* The oplogs match initially.                                              *)
THEOREM ShardInitInv == ASSUME InitShards PROVE LogInv
<1>1. ASSUME NEW s \in Shard
      PROVE  /\ MaxTerm[s] \in Nat /\ 1 \in Term(s) /\ term[s] = 1 /\ primaries[s] = {1}
             /\ log[s] = [t \in Term(s) |-> <<>>] /\ commitIndex[s] = 0
             /\ \A t \in Term(s) : log[s][t] = <<>> /\ LastIndex(s, t) = 0
  BY ShardAssumption DEF InitShards, Term, LastIndex
<1>2. <<>> \in Seq(OplogEntry)
  OBVIOUS
<1>3. ShardsTypeOK
  <2>1. \A s \in Shard : log[s] \in [Term(s) -> Seq(OplogEntry)]
    BY <1>1, <1>2
  <2> QED BY <1>1, <2>1 DEF ShardsTypeOK, InitShards
<1>4. \A s \in Shard : LogMatching(s)
  <2> SUFFICES ASSUME NEW s \in Shard
               PROVE  LogMatching(s)
    OBVIOUS
  <2>1. ASSUME NEW t \in Term(s), NEW i \in 1 .. LastIndex(s, t)
        PROVE  FALSE
    <3>1. LastIndex(s, t) = 0
      BY <1>1
    <3> QED BY <3>1
  <2>2. \A t \in 2 .. term[s] : FALSE
    <3>1. term[s] = 1
      BY <1>1
    <3> QED BY <3>1
  <2>3. \A t \in Term(s) : log[s][t] = <<>>
    BY <1>1
  <2> QED BY <2>1, <2>2, <2>3 DEF LogMatching
<1> QED BY <1>3, <1>4 DEF LogInv

(* A set of indices that is not empty has a greatest element.               *)
LEMMA GreatestIndex ==
  ASSUME NEW n \in Nat, NEW T, T \subseteq 1 .. n, T # {}
  PROVE  \E x \in T : \A y \in T : y <= x
<1> DEFINE S == {n - i : i \in T}
<1>0. \A i \in T : i \in Int /\ i <= n
  OBVIOUS
<1>1. S \subseteq Nat /\ S # {}
  <2>1. PICK i \in T : TRUE
    OBVIOUS
  <2>2. n - i \in S
    OBVIOUS
  <2>3. \A k \in S : k \in Nat
    BY <1>0
  <2> QED BY <2>2, <2>3
<1>2. PICK m \in S : \A k \in S : m <= k
  <2> HIDE DEF S
  <2> QED BY <1>1, LeastNatural
<1>3. PICK x \in T : m = n - x
  BY <1>2
<1>4. \A y \in T : n - x <= n - y
  BY <1>2, <1>3
<1>5. ASSUME NEW y \in T PROVE y <= x
  <2>1. x \in Nat /\ y \in Nat /\ n - x <= n - y
    BY <1>0, <1>4
  <2> QED BY <2>1
<1> QED BY <1>5
====================
